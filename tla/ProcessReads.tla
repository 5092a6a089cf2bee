---------------------------- MODULE ProcessReads ----------------------------
(***************************************************************************)
(* The tools that take a list first and then read something of every entry *)
(* while the machine goes on: get_network_connections (tools/network.go)   *)
(* names the owners of sockets, get_process_info (tools/process.go) reads  *)
(* the figures of every process and ranks them, get_process_fds follows    *)
(* the descriptors of one process.                                         *)
(*                                                                         *)
(* Processes exit and pids are used again, descriptors are closed and      *)
(* opened, between any two reads.  The look-up of remote host names is     *)
(* left out: it adds a name per address and changes nothing else.          *)
(***************************************************************************)
EXTENDS Integers, Sequences, SequencesExt, FiniteSets, Slices

CONSTANTS
    Owners,     \* the pids, positive numbers
    Programs,   \* the names of programs
    ConnKinds,  \* records of the status and the type of a connection
    MaxConns,   \* the most connections there are
    ConnArgs,   \* the arguments of get_network_connections
    MostConns,  \* maxNetworkConnections, 200 in the code
    Figures,    \* the CPU and memory shares a process may show, above 0
    RankArgs,   \* sort_by and limit of get_process_info
    Fds,        \* the descriptors of the process
    Targets,    \* what they may point to
    MaxChanges  \* how often the machine changes during a call

None == "none"      \* no process, no name, no open descriptor

ASSUME ReadsAssumption ==
    /\ Owners \subseteq Nat \ {0} /\ IsFiniteSet(Owners)
    /\ Fds \subseteq Nat /\ IsFiniteSet(Fds)
    /\ None \notin Programs \cup Targets
    /\ Figures \subseteq Nat
    /\ \A args \in RankArgs : args.limit \in Nat \ {0}  \* clampZero
    /\ \A args \in ConnArgs : "max" \in DOMAIN args /\ args.max \in Int
    /\ MostConns \in Nat /\ MaxConns \in Nat

VARIABLES
    rtool,      \* the tool that is called, None between calls
    rargs,      \* its arguments
    life,       \* life[p]: the program that runs as pid p
    use,        \* use[p]: the CPU and memory share of p
    fd,         \* fd[f]: what descriptor f points to
    readable,   \* whether /proc/<pid>/fd may be read
    rows,       \* the list that was taken first
    left,       \* the entries still to be read
    got,        \* what was read
    rout,       \* the answer
    was,        \* history: what each pid and descriptor was during the call
    changes     \* history: how often the machine changed during the call

machine == <<life, use, fd, readable, was, changes>>

rvars == <<rtool, rargs, rows, left, got, rout, machine>>

NoLife == [p \in Owners |-> None]
NoUse == [p \in Owners |-> [cpu |-> 0, mem |-> 0]]
NoFds == [f \in Fds |-> None]

RInit ==
    /\ rtool = None /\ rargs = <<>> /\ life = NoLife /\ use = NoUse /\ fd = NoFds
    /\ readable = TRUE /\ rows = <<>> /\ left = {} /\ got = <<>> /\ rout = <<>>
    /\ was = <<>> /\ changes = 0

Reading(tool) == rtool = tool /\ rout = <<>>

-----------------------------------------------------------------------------
(* The machine.                                                            *)

\* A process exits, or a free pid is used.
ProcessChanges(p, program) ==
    /\ Reading("connections") \/ Reading("process_info")
    /\ (life[p] = None) # (program = None)
    /\ changes < MaxChanges /\ changes' = changes + 1
    /\ life' = [life EXCEPT ![p] = program]
    /\ was' = [was EXCEPT ![p] = @ \cup {program}]
    /\ UNCHANGED <<rtool, rargs, use, fd, readable, rows, left, got, rout>>

\* A descriptor is closed or opened.
FdChanges(f, target) ==
    /\ Reading("process_fds")
    /\ (fd[f] = None) # (target = None)
    /\ changes < MaxChanges /\ changes' = changes + 1
    /\ fd' = [fd EXCEPT ![f] = target]
    /\ was' = [was EXCEPT ![f] = @ \cup {target}]
    /\ UNCHANGED <<rtool, rargs, life, use, readable, rows, left, got, rout>>

-----------------------------------------------------------------------------
(* Connections.                                                            *)

clampVal(val, least, most) ==
    IF val < least THEN least ELSE IF val > most THEN most ELSE val

\* A type other than tcp and udp is no filter.
Matches(c, args) ==
    /\ args.status # None => c.status = args.status
    /\ args.type \in {"tcp", "udp"} => c.type = args.type

\* gnet.Connections, and the filters; a connection without a process has pid 0.
ListConnections(args, world, conns) ==
    /\ rtool = None /\ rtool' = "connections"
    /\ rargs' = [args EXCEPT !.max = clampVal(@, 0, MostConns)]
    /\ life' = world
    /\ rows' = Selected(conns, {i \in DOMAIN conns : Matches(conns[i], args)})
    /\ left' = {rows'[i].pid : i \in DOMAIN rows'} \ {0}
    /\ was' = [p \in Owners |-> {world[p]}]
    /\ UNCHANGED <<use, fd, readable, got, rout, changes>>

\* The pids come in the order of a Go map; one without a comm file has no name.
resolveProcessNames(p) ==
    /\ Reading("connections") /\ p \in left
    /\ left' = left \ {p}
    /\ got' = IF life[p] = None THEN got ELSE With(got, p, life[p])
    /\ UNCHANGED <<rtool, rargs, rows, rout, machine>>

NameOf(p) == IF p \in DOMAIN got THEN got[p] ELSE None

Truncated(s, most) == IF most > 0 /\ Len(s) > most THEN SubSeq(s, 1, most) ELSE s

\* The places of a list that have a connection of p.
PlacesOf(list, p) == {i \in DOMAIN list : list[i].pid = p}

Groups(list) ==
    LET pids == Ascending({list[i].pid : i \in DOMAIN list})
    IN [k \in DOMAIN pids |->
           [pid |-> pids[k], name |-> NameOf(pids[k]),
            conns |-> Selected(list, PlacesOf(list, pids[k]))]]

Named == [i \in DOMAIN rows |-> [pid |-> rows[i].pid, conn |-> rows[i],
                                 name |-> NameOf(rows[i].pid)]]

\* Mutant of GatherNetworkConnections: the groups are made before the list is
\* cut to max_connections.
GroupsOfAll ==
    /\ Reading("connections") /\ left = {}
    /\ rout' = [list |-> Truncated(Named, rargs.max),
                groups |-> IF rargs.grouped THEN Groups(Named) ELSE <<>>]
    /\ UNCHANGED <<rtool, rargs, rows, left, got, machine>>

GatherNetworkConnections ==
    /\ Reading("connections") /\ left = {}
    /\ LET list == Truncated(Named, rargs.max)
       IN rout' = [list |-> list,
                   groups |-> IF rargs.grouped THEN Groups(list) ELSE <<>>]
    /\ UNCHANGED <<rtool, rargs, rows, left, got, machine>>

-----------------------------------------------------------------------------
(* The ranking of processes.                                               *)

ListProcesses(args, world, figures) ==
    /\ rtool = None /\ rtool' = "process_info"
    /\ rargs' = args /\ life' = world /\ use' = figures
    /\ left' = {p \in Owners : world[p] # None}
    /\ was' = [p \in Owners |-> {world[p]}]
    /\ UNCHANGED <<fd, readable, rows, got, rout, changes>>

\* The errors of a process that is gone are ignored: its figures are 0.
ReadProcess(p) ==
    /\ Reading("process_info") /\ p \in left
    /\ left' = left \ {p}
    /\ got' = With(got, p, IF life[p] = None THEN NoUse[p] ELSE use[p])
    /\ UNCHANGED <<rtool, rargs, rows, rout, machine>>

\* The orders sort.Slice may leave, which is not stable, cut to the limit.
Ranked(key) ==
    {Truncated(s, rargs.limit) :
        s \in {t \in SetToSeqs(DOMAIN got) :
                  \A i, j \in DOMAIN t : i < j => got[t[i]][key] >= got[t[j]][key]}}

\* Mutant of GatherProcessInfo: byCPU and byMemory are one slice, sorted twice.
RankingsShareSlice ==
    /\ Reading("process_info") /\ left = {}
    /\ \E byCPU \in Ranked("cpu"), byMemory \in Ranked("mem") :
        rout' = CASE rargs.sort = "both" -> [cpu |-> byMemory, mem |-> byMemory]
                  [] rargs.sort = "memory" -> [mem |-> byMemory]
                  [] OTHER -> [cpu |-> byCPU]
    /\ UNCHANGED <<rtool, rargs, rows, left, got, machine>>

\* Any sort_by but memory and both is cpu.
GatherProcessInfo ==
    /\ Reading("process_info") /\ left = {}
    /\ \E byCPU \in Ranked("cpu"), byMemory \in Ranked("mem") :
        rout' = CASE rargs.sort = "both" -> [cpu |-> byCPU, mem |-> byMemory]
                  [] rargs.sort = "memory" -> [mem |-> byMemory]
                  [] OTHER -> [cpu |-> byCPU]
    /\ UNCHANGED <<rtool, rargs, rows, left, got, machine>>

-----------------------------------------------------------------------------
(* The descriptors of a process.                                           *)

OpenFds(table) == {f \in Fds : table[f] # None}

\* OpenFiles, whose error is ignored: without the permission it gives nothing.
OpenFiles(table, allowed) ==
    /\ rtool = None /\ rtool' = "process_fds"
    /\ fd' = table /\ readable' = allowed
    /\ got' = IF allowed THEN [f \in OpenFds(table) |-> table[f]] ELSE <<>>
    /\ was' = [f \in Fds |-> {table[f]}]
    /\ UNCHANGED <<rargs, life, use, rows, left, rout, changes>>

\* The directory is listed; what OpenFiles gave is not read again.
ReadFdDir ==
    /\ Reading("process_fds") /\ rows = <<>>
    /\ rows' = <<"read">>
    /\ left' = IF readable THEN OpenFds(fd) \ DOMAIN got ELSE {}
    /\ UNCHANGED <<rtool, rargs, got, rout, machine>>

\* Mutant of ReadLink: the error of Readlink is ignored.
ReadLinkUnchecked(f) ==
    /\ Reading("process_fds") /\ f \in left
    /\ left' = left \ {f}
    /\ got' = With(got, f, fd[f])
    /\ UNCHANGED <<rtool, rargs, rows, rout, machine>>

\* A descriptor that is closed by now is skipped.
ReadLink(f) ==
    /\ Reading("process_fds") /\ f \in left
    /\ left' = left \ {f}
    /\ got' = IF fd[f] = None THEN got ELSE With(got, f, fd[f])
    /\ UNCHANGED <<rtool, rargs, rows, rout, machine>>

GatherProcessFDs ==
    /\ Reading("process_fds") /\ rows # <<>> /\ left = {}
    /\ rout' = [fds |-> Ascending(DOMAIN got), count |-> Cardinality(DOMAIN got)]
    /\ UNCHANGED <<rtool, rargs, rows, left, got, machine>>

-----------------------------------------------------------------------------
\* The connections or the processes cannot be listed: the call fails.  A pid
\* that is not there is an error in the errors field.
ListFails ==
    /\ rtool = None /\ rtool' = "failed" /\ rout' = [fds |-> <<>>, count |-> 0]
    /\ UNCHANGED <<rargs, rows, left, got, machine>>

Answer ==
    /\ rout # <<>>
    /\ rtool' = None /\ rargs' = <<>> /\ life' = NoLife /\ use' = NoUse
    /\ fd' = NoFds /\ readable' = TRUE /\ rows' = <<>> /\ left' = {} /\ got' = <<>>
    /\ rout' = <<>> /\ was' = <<>> /\ changes' = 0

\* Every pid is in use when a list is taken; later it may be free or another's.
AtFirst == [p \in Owners |-> CHOOSE n \in Programs : TRUE]

Conns == {[pid |-> p, status |-> k.status, type |-> k.type] :
              p \in Owners \cup {0}, k \in ConnKinds}

RNext ==
    \/ \E p \in Owners, program \in Programs \cup {None} : ProcessChanges(p, program)
    \/ \E f \in Fds, target \in Targets \cup {None} : FdChanges(f, target)
    \/ \E args \in ConnArgs, conns \in BoundedSeq(Conns, MaxConns) :
          ListConnections(args, AtFirst, conns)
    \/ \E args \in RankArgs, figures \in [Owners -> [cpu : Figures, mem : Figures]] :
          ListProcesses(args, AtFirst, figures)
    \/ \E p \in Owners : resolveProcessNames(p) \/ ReadProcess(p)
    \/ \E table \in [Fds -> Targets \cup {None}], allowed \in BOOLEAN :
          OpenFiles(table, allowed)
    \/ \E f \in Fds : ReadLink(f)
    \/ GatherNetworkConnections \/ GatherProcessInfo \/ ReadFdDir
    \/ GatherProcessFDs \/ ListFails \/ Answer

RSpec == RInit /\ [][RNext]_rvars

-----------------------------------------------------------------------------
Ended(tool) == rtool = tool /\ rout # <<>>

\* What get_network_connections says of the owners is the same in the flat list
\* and in the groups ("grouped by PID, max_connections", docs/tools.md): the
\* groups are those of the connections shown, no more and no fewer, and a name
\* is one the pid had during the call, missing only if the pid was free.
OwnersToldOnce ==
    Ended("connections") =>
        /\ rargs.grouped =>
              \A k \in DOMAIN rout.groups :
                 LET g == rout.groups[k]
                 IN /\ g.conns # <<>>
                    /\ g.conns = Selected(rout.list, PlacesOf(rout.list, g.pid))
                    /\ \A i \in DOMAIN g.conns : g.conns[i].name = g.name
                    /\ k > 1 => rout.groups[k - 1].pid < g.pid
        /\ rargs.grouped =>
              \A i \in DOMAIN rout.list :
                 \E k \in DOMAIN rout.groups : rout.groups[k].pid = rout.list[i].pid
        /\ \A i \in DOMAIN rout.list :
              rout.list[i].pid > 0 => rout.list[i].name \in was[rout.list[i].pid]

Steady(p) == Cardinality(was[p]) = 1 /\ was[p] # {None}

\* "running processes sortable by CPU, memory, or both" (docs/tools.md): no
\* process that ran all along is left out of a ranking in favour of one with a
\* smaller share, and both rankings are right when both are asked for.
RankingsHold ==
    Ended("process_info") =>
        /\ DOMAIN rout = CASE rargs.sort = "both" -> {"cpu", "mem"}
                           [] rargs.sort = "memory" -> {"mem"}
                           [] OTHER -> {"cpu"}
        /\ \A key \in DOMAIN rout, p \in Owners :
              Steady(p) /\ p \notin {rout[key][i] : i \in DOMAIN rout[key]} =>
                 /\ Len(rout[key]) = rargs.limit
                 /\ \A i \in DOMAIN rout[key] :
                       Steady(rout[key][i]) => use[rout[key][i]][key] >= use[p][key]

\* "Lists open file descriptors and the total count" (docs/tools.md): one that
\* was open all along is listed once with its target, though two listings are
\* merged; one that is listed was open at some moment of the call.
FdsListedOnce ==
    Ended("process_fds") =>
        /\ rout.count = Len(rout.fds)
        /\ \A i \in DOMAIN rout.fds :
              /\ i > 1 => rout.fds[i - 1] < rout.fds[i]
              /\ got[rout.fds[i]] \in was[rout.fds[i]] \ {None}
        /\ readable => \A f \in Fds : Steady(f) => f \in DOMAIN got
=============================================================================
