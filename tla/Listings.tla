------------------------------ MODULE Listings ------------------------------
(***************************************************************************)
(* Texts of the machine that a tool takes apart itself: the routes of      *)
(* "ip route show" (GatherRoutingTable in tools/network.go), word by word; *)
(* the pairs of the environment (GatherEnvironmentVariables in             *)
(* tools/system.go) and the software RAID arrays of /proc/mdstat           *)
(* (parseMDStat in tools/storage.go), each as a function of its input.     *)
(*                                                                         *)
(* A text is a sequence of words; a word is compared, never looked into.   *)
(***************************************************************************)
EXTENDS Integers, Sequences, SequencesExt, FiniteSets, Slices

CONSTANTS
    Gateways, Devices, Protos, Scopes, Numbers,   \* what a route may say
    EnvPairs,       \* pairs NAME=value, as their parts between equals signs
    SensitiveWords, \* the words isSensitiveEnvVar looks for
    Searches,       \* the values of search, Absent for none
    Arrays,         \* the arrays /proc/mdstat may show
    MaxArrays       \* the most arrays it shows

Absent == "absent"      \* a field that is not set, a part that is not printed
Hidden == "***"

\* A pair has one part at least.
ASSUME EnvPairsAssumption ==
    \A p \in EnvPairs : p # <<>> /\ p \in Seq({p[i] : i \in DOMAIN p})

VARIABLES
    text,       \* what is parsed: "none", "route", "env" or "mdstat"
    given,      \* the structure behind the text
    word,       \* the word of a route that the loop comes to
    answer      \* what the parser makes of it, so far

lvars == <<text, given, word, answer>>

LInit == text = "none" /\ given = <<>> /\ word = 0 /\ answer = <<>>

Parse(t, input, from, result) ==
    /\ text = "none"
    /\ text' = t /\ given' = input /\ word' = from /\ answer' = result

-----------------------------------------------------------------------------
(* Routes.                                                                 *)

Types == {"kernel", "connected", "static", "broadcast", "local", "multicast",
          "unreachable", "prohibit", "blackhole"}

Keys == {"via", "dev", "proto", "scope", "metric", "mtu"}

Routes == [via : Gateways, dev : Devices, proto : Protos, scope : Scopes,
           metric : Numbers, mtu : Numbers]

\* What ip prints of a route behind the destination, in its order.
Printed(route) ==
    LET order == <<"via", "dev", "proto", "scope", "src", "metric", "mtu">>
    IN Selected(order, {i \in DOMAIN order : order[i] = "src" \/ route[order[i]] # Absent})

\* The words of a route: its destination, and every key with its value.
Words(route) ==
    LET keys == Printed(route)
        value(key) == IF key = "src" THEN "10.0.0.1" ELSE route[key]
    IN [i \in 1..2 * Len(keys) + 1 |->
           IF i = 1 THEN "10.0.0.0/8"
           ELSE IF i % 2 = 0 THEN keys[i \div 2] ELSE value(keys[i \div 2])]

NoRoute == [k \in Keys \cup {"type"} |-> Absent]

\* What a word does to the entry: a key takes the word after it.
Keyed(words) == words[word] \in Keys /\ word < Len(words)

Entry(words) ==
    IF Keyed(words) THEN [answer EXCEPT ![words[word]] = words[word + 1]]
    ELSE IF words[word] \in Types THEN [answer EXCEPT !["type"] = words[word]]
    ELSE answer

\* Mutant of RouteEntry: the word after a key is looked at as well.
EntryWithoutSkip ==
    /\ text = "route" /\ word <= Len(Words(given))
    /\ answer' = Entry(Words(given))
    /\ word' = word + 1
    /\ UNCHANGED <<text, given>>

\* The loop over the words: the one a key has taken is skipped.
RouteEntry ==
    /\ text = "route" /\ word <= Len(Words(given))
    /\ answer' = Entry(Words(given))
    /\ word' = word + IF Keyed(Words(given)) THEN 2 ELSE 1
    /\ UNCHANGED <<text, given>>

-----------------------------------------------------------------------------
(* The environment.                                                        *)

isSensitiveEnvVar(name) == \E i \in DOMAIN name : name[i] \in SensitiveWords

\* Where a pair is cut: at the first equals sign with the term before it, which
\* need not be the first of the pair.
Cuts(pair, search) ==
    {i \in 1..Len(pair) - 1 : search = Absent \/ \E k \in 1..i : pair[k] = search}

\* Mutant of EnvironmentVariable: what was searched for is shown.
SearchShows(pair, search) ==
    LET i == CHOOSE c \in Cuts(pair, search) : \A d \in Cuts(pair, search) : c <= d
        name == SubSeq(pair, 1, i)
    IN [name |-> name, value |-> IF search = Absent /\ isSensitiveEnvVar(name)
                                 THEN <<Hidden>> ELSE SubSeq(pair, i + 1, Len(pair))]

EnvironmentVariable(pair, search) ==
    LET i == CHOOSE c \in Cuts(pair, search) : \A d \in Cuts(pair, search) : c <= d
        name == SubSeq(pair, 1, i)
    IN [name |-> name, value |-> IF isSensitiveEnvVar(name) THEN <<Hidden>>
                                 ELSE SubSeq(pair, i + 1, Len(pair))]

\* The variables that are listed; their order is left out.
GatherEnvironmentVariables(env, search) ==
    [p \in {q \in env : Cuts(q, search) # {}} |-> EnvironmentVariable(p, search)]

-----------------------------------------------------------------------------
(* Software RAID.                                                          *)

\* The lines of an array: its header, and the line with its [n/m], if any.
Lines(a) == <<[header |-> TRUE, name |-> a.name, n |-> 0, m |-> 0]>> \o
    IF a.health = "inactive" THEN <<>>
    ELSE <<[header |-> FALSE, name |-> Absent, n |-> a.n, m |-> a.m]>>

\* The status comes from the two counts alone.
flush(sofar, current) ==
    IF current = <<>> THEN sofar
    ELSE LET a == current[1]
         IN Append(sofar, [name |-> a.name,
                           status |-> IF a.n = a.m THEN "active"
                                      ELSE IF a.n > 0 /\ a.m > 0 THEN "degraded"
                                      ELSE "inactive"])

\* current is the array being read, an empty sequence before the first header.
\* A header is looked for only while there is none.
parseMDStat(lines) ==
    LET step(acc, line) ==
            IF acc.current = <<>> /\ line.header
            THEN [out |-> flush(acc.out, acc.current),
                  current |-> <<[name |-> line.name, n |-> 0, m |-> 0]>>]
            ELSE IF acc.current # <<>> /\ ~line.header
                 THEN [acc EXCEPT !.current[1].n = line.n, !.current[1].m = line.m]
                 ELSE acc
        end == FoldLeft(step, [out |-> <<>>, current |-> <<>>], lines)
    IN flush(end.out, end.current)

-----------------------------------------------------------------------------
Clear ==
    /\ text # "none" /\ (text = "route" => word > Len(Words(given)))
    /\ text' = "none" /\ given' = <<>> /\ word' = 0 /\ answer' = <<>>

LNext ==
    \/ \E r \in Routes : Parse("route", r, 2, NoRoute)
    \/ RouteEntry
    \/ \E env \in SUBSET EnvPairs, s \in Searches :
          Parse("env", [env |-> env, search |-> s], 0,
                GatherEnvironmentVariables(env, s))
    \/ \E arrays \in {s \in BoundedSeq(Arrays, MaxArrays) :
                         \A i, j \in DOMAIN s : s[i].name = s[j].name => i = j} :
          Parse("mdstat", arrays, 0,
                parseMDStat(FlattenSeq([i \in DOMAIN arrays |-> Lines(arrays[i])])))
    \/ Clear

LSpec == LInit /\ [][LNext]_lvars

-----------------------------------------------------------------------------
\* A route is read as it was printed ("destination, gateway, interface, proto,
\* scope, metric", docs/tools.md), though protocols and devices may be called
\* like the keys and the types the loop looks for.
RoutesReadBack ==
    text = "route" /\ word > Len(Words(given)) =>
        /\ \A k \in Keys : answer[k] = given[k]
        /\ answer["type"] = Absent

\* "filters by name prefix or substring", "Sensitive names are redacted"
\* (docs/tools.md): a variable whose name matches is listed, under its name,
\* whatever its value holds, and no value of a sensitive name is shown, however
\* the pair is cut.
VariablesListed ==
    text = "env" =>
        \A p \in given.env :
            /\ Len(p) > 1 /\ given.search \in {Absent, p[1]} =>
                  p \in DOMAIN answer /\ answer[p].name = <<p[1]>>
            /\ p \in DOMAIN answer /\ p[1] \in SensitiveWords =>
                  answer[p].value = <<Hidden>>

\* "Returns software RAID status from /proc/mdstat: devices, levels, sizes, and
\* active/degraded/inactive health" (docs/tools.md): every array is there once,
\* with its own health.
EveryArrayShown ==
    text = "mdstat" =>
        /\ Len(answer) = Len(given)
        /\ \A i \in DOMAIN given :
              \E k \in DOMAIN answer :
                 answer[k].name = given[i].name /\ answer[k].status = given[i].health
=============================================================================
