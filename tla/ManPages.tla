------------------------------ MODULE ManPages ------------------------------
(***************************************************************************)
(* get_man_page (tools/man.go) as a client uses it: a page longer than     *)
(* max_lines is read piece by piece, each call starting where the one      *)
(* before stopped, until an answer is not marked truncated.                *)
(*                                                                         *)
(* A line of the page is its number; what matters of its text is whether   *)
(* the search term is in it.  The characters of a line are those man emits *)
(* for a terminal: plain, or struck over for bold and underlined text.     *)
(***************************************************************************)
EXTENDS Integers, Sequences, SequencesExt, Slices

CONSTANTS
    MaxPage,        \* the longest page, in lines
    MaxLinesArgs,   \* the values of max_lines
    ContextArgs,    \* the values of context_lines
    Offsets,        \* the offsets a client may start from, see OpenPage
    DefaultLines,   \* 500 in the code
    MostLines,      \* 10000 in the code
    Chars,          \* characters of one byte
    MaxGlyphs       \* the longest line looked at, in glyphs

\* The backspace and the underscore.
BS == "\\b"
Underscore == "_"

ASSUME ManAssumption ==
    /\ MaxPage \in Nat /\ MaxGlyphs \in Nat
    /\ MaxLinesArgs \subseteq Int /\ ContextArgs \subseteq Int /\ Offsets \subseteq Nat
    /\ DefaultLines \in Nat \ {0} /\ MostLines \in Nat \ {0}
    /\ BS \notin Chars

VARIABLES
    page,       \* the page: its length, the lines with the search term, and
                \* whether the client searches
    asked,      \* the arguments of the calls: max_lines, context_lines and the
                \* offset of the first
    offset,     \* the offset of the next call
    had,        \* the lines the client was answered so far, by their numbers
    line,       \* a line as man wrote it, as a sequence of glyphs
    pos,        \* the byte the clean-up comes to, as a glyph and a byte of it
    shown,      \* the buffer: what the answer has of that line
    mpc         \* "free", "asking", "done", or "panicked"

mvars == <<page, asked, offset, had, line, pos, shown, mpc>>

NoPage == [len |-> 0, hits |-> {}, search |-> FALSE]
NoArgs == [max |-> 0, context |-> 0, from |-> 0]
FirstByte == [glyph |-> 1, byte |-> 1]

MInit ==
    /\ page = NoPage /\ asked = NoArgs /\ offset = 0 /\ had = <<>>
    /\ line = <<>> /\ pos = FirstByte /\ shown = <<>> /\ mpc = "free"

-----------------------------------------------------------------------------
(* A glyph and the bytes man writes for it.                                *)

Styles == {"plain", "bold", "underlined", "both"}

Bytes(g) == CASE g.style = "plain" -> <<g.char>>
              [] g.style = "bold" -> <<g.char, BS, g.char>>
              [] g.style = "underlined" -> <<Underscore, BS, g.char>>
              [] g.style = "both" -> <<Underscore, BS, g.char, BS, g.char>>

Byte == Bytes(line[pos.glyph])[pos.byte]

\* A backspace at the very start of the text is kept.
Backspace == Byte = BS /\ pos # FirstByte

\* The place of a byte of this glyph, or of the first of the next one.
Place(byte) == IF byte <= Len(Bytes(line[pos.glyph])) THEN [pos EXCEPT !.byte = byte]
               ELSE [glyph |-> pos.glyph + 1, byte |-> 1]

\* Mutant of cleanManOutput: a backspace takes the byte that follows, too.
CleanBothSides ==
    /\ mpc = "asking" /\ pos.glyph <= Len(line)
    /\ pos' = Place(pos.byte + IF Backspace THEN 2 ELSE 1)
    /\ shown' = IF Backspace THEN Front(shown) ELSE Append(shown, Byte)
    /\ mpc' = IF Backspace /\ shown = <<>> THEN "panicked" ELSE mpc
    /\ UNCHANGED <<page, asked, offset, had, line>>

\* The loop over the bytes: a backspace removes the byte before it from the
\* buffer; there is none when the buffer is empty, and Truncate panics.
cleanManOutput ==
    /\ mpc = "asking" /\ pos.glyph <= Len(line)
    /\ pos' = Place(pos.byte + 1)
    /\ shown' = IF Backspace THEN Front(shown) ELSE Append(shown, Byte)
    /\ mpc' = IF Backspace /\ shown = <<>> THEN "panicked" ELSE mpc
    /\ UNCHANGED <<page, asked, offset, had, line>>

Clean == pos.glyph > Len(line)

-----------------------------------------------------------------------------
(* The tool.                                                               *)

clampZero(val, def, most) ==
    IF val <= 0 THEN def ELSE IF val > most THEN most ELSE val

ContextLines(context) == IF page.search /\ context <= 0 THEN 2 ELSE context

\* The lines within contextLines of a match, or all of them.
Filtered(contextLines) ==
    Ascending({i \in 1..page.len :
        ~page.search \/ \E h \in page.hits : i \in h - contextLines..h + contextLines})

Capped(lines, maxLines) ==
    [lines |-> IF Len(lines) > maxLines THEN SubSeq(lines, 1, maxLines) ELSE lines,
     truncated |-> Len(lines) > maxLines]

\* Mutant of GatherManPage: the offset counts the lines of the whole page.
ManPageOffsetFirst(maxLines, contextLines, from) ==
    LET lines == Filtered(contextLines)
    IN Capped(Selected(lines, {i \in DOMAIN lines : lines[i] > from}), maxLines)

\* An offset past the end is ignored.
GatherManPage(maxLines, contextLines, from) ==
    LET lines == Filtered(contextLines)
    IN Capped(IF 0 < from /\ from < Len(lines)
              THEN SubSeq(lines, from + 1, Len(lines)) ELSE lines, maxLines)

\* A client starts within the text: from an offset past its end it would get
\* the first page, marked truncated, for ever.
OpenPage(p, a, l) ==
    /\ mpc = "free" /\ mpc' = "asking"
    /\ page' = p /\ asked' = a /\ offset' = a.from
    /\ a.from = 0 \/ a.from < Len(Filtered(ContextLines(a.context)))'
    /\ line' = l
    /\ UNCHANGED <<had, pos, shown>>

HandleGetManPage ==
    /\ mpc = "asking" /\ Clean
    /\ LET maxLines == clampZero(asked.max, DefaultLines, MostLines)
           answer == GatherManPage(maxLines, ContextLines(asked.context), offset)
       IN /\ had' = had \o answer.lines
          /\ offset' = offset + maxLines
          /\ mpc' = IF answer.truncated THEN "asking" ELSE "done"
    /\ UNCHANGED <<page, asked, line, pos, shown>>

ClosePage ==
    /\ mpc = "done" /\ mpc' = "free"
    /\ page' = NoPage /\ asked' = NoArgs /\ offset' = 0 /\ had' = <<>>
    /\ line' = <<>> /\ pos' = FirstByte /\ shown' = <<>>

PagesOf(n) == [len : {n}, hits : SUBSET (1..n), search : {TRUE}] \cup
              {[len |-> n, hits |-> {}, search |-> FALSE]}

MNext ==
    \/ \E n \in 1..MaxPage :
          \E p \in PagesOf(n),
             a \in [max : MaxLinesArgs, context : ContextArgs, from : Offsets] :
                OpenPage(p, a, <<>>)
    \/ \E l \in BoundedSeq([char : Chars, style : Styles], MaxGlyphs) :
            OpenPage([NoPage EXCEPT !.len = 1], NoArgs, l)
    \/ cleanManOutput \/ HandleGetManPage \/ ClosePage

MSpec == MInit /\ [][MNext]_mvars

-----------------------------------------------------------------------------
\* What is wanted of the page, from the offset the client started with.
Wished ==
    LET reach == IF asked.context > 0 THEN asked.context ELSE 2
        all == Ascending({i \in 1..page.len :
                   page.search => \E h \in page.hits : h - i \in -reach..reach})
    IN SubSeq(all, asked.from + 1, Len(all))

\* The answers of a client that goes on where it stopped while an answer is
\* truncated ("line offset to start reading from (0-based)") make up the text
\* it asked for, each line once, whether it searches or not.
PagesRebuildText == mpc = "done" => had = Wished

\* What is shown of a line is its characters without the overstriking ("clean
\* backspace formatting characters"), and the clean-up never truncates an
\* empty buffer.  It removes a byte where its comment says a character: this
\* holds for characters of one byte.
CleanedText ==
    /\ mpc # "panicked"
    /\ Clean => shown = [i \in DOMAIN line |-> line[i].char]
=============================================================================
