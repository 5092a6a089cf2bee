---------------------------- MODULE ProcessTree ----------------------------
(***************************************************************************)
(* get_process_tree (tools/process.go): parseProcStat lists /proc once and *)
(* then reads one stat file after the other, while processes fork, exit    *)
(* and have their pids reused; flattenTree walks the parent links it got,  *)
(* which need not be those of any single moment.                           *)
(*                                                                         *)
(* A process is its pid and its parent's pid; 0 is the parent of init, of  *)
(* the kernel threads' root and of whatever entered the pid namespace from *)
(* outside.  The recursion of walk is a stack of the calls still to come.  *)
(***************************************************************************)
EXTENDS Integers, Sequences, SequencesExt, FiniteSets

CONSTANTS
    MaxPid,     \* pids are 1..MaxPid, 1 is init
    Gone        \* no such process, or no stat file read

ASSUME PidsAssumption == MaxPid \in Nat \ {0} /\ Gone \notin Int

Pids == 1..MaxPid

VARIABLES
    ppid,       \* ppid[p]: the parent of process p, Gone if there is none
    pc,         \* "idle", "read", "walk" or "done"
    root,       \* rootPID: 0 for the full tree
    entries,    \* the directory entries of /proc still to be read
    procs,      \* procs[p]: the parent read from /proc/p/stat
    stack,      \* the calls of walk still to come: pid and depth
    nodes,      \* the nodes of the answer
    steady,     \* history: alive without a break since /proc was listed
    exits       \* history: whether a process exited since then

vars == <<ppid, pc, root, entries, procs, stack, nodes, steady, exits>>

reader == <<pc, root, entries, procs, stack, nodes>>

Alive == {p \in Pids : ppid[p] # Gone}

Unread == [p \in Pids |-> Gone]

Init ==
    /\ ppid = [p \in Pids |-> IF p = 1 THEN 0 ELSE Gone]
    /\ pc = "idle" /\ root = 0 /\ entries = <<>> /\ procs = Unread
    /\ stack = <<>> /\ nodes = <<>>
    /\ steady = {} /\ exits = FALSE

-----------------------------------------------------------------------------
(* The processes.  Once the files are read they no longer matter.          *)

Running == pc \in {"idle", "read"}

\* A free pid is used, whoever had it before; parent 0 is a process from
\* outside the namespace, or a root of kernel threads.
Fork(parent, child) ==
    /\ Running
    /\ parent \in Alive \cup {0} /\ child \notin Alive
    /\ ppid' = [ppid EXCEPT ![child] = parent]
    /\ UNCHANGED <<reader, steady, exits>>

\* Init adopts the children.
Exit(p) ==
    /\ Running
    /\ p \in Alive \ {1}
    /\ ppid' = [q \in Pids |-> IF q = p THEN Gone
                               ELSE IF ppid[q] = p THEN 1 ELSE ppid[q]]
    /\ steady' = steady \ {p}
    /\ exits' = (pc = "read")
    /\ UNCHANGED reader

-----------------------------------------------------------------------------
(* The reader.                                                             *)

\* GatherProcessTree is called, with a pid or without, and lists /proc.  The names
\* are sorted as strings, 10 before 2: as for the pids, any order.
ListProc(r) ==
    /\ pc = "idle" /\ pc' = "read"
    /\ root' = r
    /\ entries' \in SetToSeqs(Alive)
    /\ steady' = Alive /\ exits' = FALSE
    /\ UNCHANGED <<ppid, procs, stack, nodes>>

\* A stat file that is gone is skipped.
ReadStat ==
    /\ pc = "read" /\ entries # <<>>
    /\ procs' = [procs EXCEPT ![Head(entries)] = ppid[Head(entries)]]
    /\ entries' = Tail(entries)
    /\ UNCHANGED <<ppid, pc, root, stack, nodes, steady, exits>>

Read == {p \in Pids : procs[p] # Gone}

\* Mutant of childrenMap: the root is listed as a child as well.
ChildrenWithRoot(p) == {q \in Read : procs[q] = p}

childrenMap(p) == {q \in Read : q # root /\ procs[q] = p}

\* Mutant of roots: only init is a root.
RootsInit == {p \in Read : p = 1}

roots == {p \in Read : procs[p] = 0 \/ procs[p] = p}

\* The calls walk(p, depth) for all p of a set, in the order of a Go map: any.
CallsOf(set, depth) ==
    {[i \in 1..Cardinality(set) |-> [pid |-> s[i], depth |-> depth]] :
        s \in SetToSeqs(set)}

StartWalk ==
    /\ pc = "read" /\ entries = <<>> /\ pc' = "walk"
    /\ stack' \in CallsOf(IF root = 0 THEN roots ELSE {root} \cap Read, 0)
    /\ UNCHANGED <<ppid, root, entries, procs, nodes, steady, exits>>

\* Mutant of Deeper: the children come after everything that waits.
DeeperLast(children, rest) == rest \o children

\* The calls of the loop over the children come before those that wait.
Deeper(children, rest) == children \o rest

\* One call of walk.
Walk ==
    /\ pc = "walk" /\ stack # <<>>
    /\ LET call == Head(stack)
       IN /\ nodes' = Append(nodes,
                [pid |-> call.pid, ppid |-> procs[call.pid],
                 depth |-> call.depth, leaf |-> childrenMap(call.pid) = {}])
          /\ \E children \in CallsOf(childrenMap(call.pid), call.depth + 1) :
                stack' = Deeper(children, Tail(stack))
    /\ UNCHANGED <<ppid, pc, root, entries, procs, steady, exits>>

WalkEnds ==
    /\ pc = "walk" /\ stack = <<>> /\ pc' = "done"
    /\ UNCHANGED <<ppid, root, entries, procs, stack, nodes, steady, exits>>

\* The answer is sent, and there may be another call.
Answered ==
    /\ pc = "done" /\ pc' = "idle"
    /\ root' = 0 /\ procs' = Unread /\ nodes' = <<>>
    /\ steady' = {} /\ exits' = FALSE
    /\ UNCHANGED <<ppid, entries, stack>>

Next ==
    \/ \E parent \in 0..MaxPid, child \in Pids : Fork(parent, child)
    \/ \E p \in Pids : Exit(p)
    \/ \E r \in 0..MaxPid : ListProc(r)
    \/ ReadStat \/ StartWalk \/ Walk \/ WalkEnds \/ Answered

Spec == Init /\ [][Next]_vars

-----------------------------------------------------------------------------
\* No process is visited twice.  The parent links may form a cycle when a pid
\* is reused while /proc is read, and walk keeps no set of visited pids: that
\* it ends rests on the root being kept out of childrenMap.
NoPidTwice == \A i, j \in DOMAIN nodes : nodes[i].pid = nodes[j].pid => i = j

\* The depths of the flat list tell the hierarchy: the last node before a node
\* that is one level up is the parent read for it.
DepthShowsParent ==
    \A i \in DOMAIN nodes : nodes[i].depth > 0 =>
        \E j \in 1..i - 1 :
            /\ nodes[j].depth = nodes[i].depth - 1
            /\ nodes[j].pid = nodes[i].ppid
            /\ \A k \in j + 1..i - 1 : nodes[k].depth >= nodes[i].depth

\* "When pid is omitted, returns all processes rooted at init" (docs/tools.md):
\* a full tree has every process that lived while /proc was read, as long as
\* none exited meanwhile.  Without that proviso it does not hold: a process is
\* left out when its parent exits between the reads of their two files.
SteadyListed ==
    pc = "done" /\ root = 0 /\ ~exits =>
        steady \subseteq {nodes[i].pid : i \in DOMAIN nodes}
=============================================================================
