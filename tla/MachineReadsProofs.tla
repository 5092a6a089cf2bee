------------------------- MODULE MachineReadsProofs -------------------------
(***************************************************************************)
(* Proofs about tools that read the machine: the process tree, whose walk  *)
(* follows parent links that were read at different moments, for any       *)
(* number of processes; the lists whose entries come and go while they are *)
(* read; the docker tools, which close what they open and keep to          *)
(* themselves what must not be told; manual pages that are read piece by   *)
(* piece; and texts that are read back as they were printed.               *)
(***************************************************************************)
EXTENDS ProcessTree, ProcessReads, DockerTools, ManPages, Listings, FiniteSetTheorems,
        SequenceTheorems, WellFoundedInduction, TLAPS

(* The process tree: what is to be shown.                                  *)

WalkCall == [pid : Pids, depth : Nat]

Node == [pid : Pids, ppid : (0..MaxPid) \cup {Gone}, depth : Nat, leaf : BOOLEAN]

Links == [Pids -> (0..MaxPid) \cup {Gone}]

TreeType ==
    /\ ppid \in Links /\ procs \in Links
    /\ pc \in {"idle", "read", "walk", "done"} /\ root \in 0..MaxPid
    /\ entries \in Seq(Pids) /\ stack \in Seq(WalkCall) /\ nodes \in Seq(Node)
    /\ steady \in SUBSET Pids /\ exits \in BOOLEAN

\* The links of the machine are a forest at every moment: a process has a rank
\* above that of its parent, and init the lowest.
Ranks(rank) ==
    /\ rank \in [Pids -> Nat] /\ rank[1] = 0
    /\ \A p \in Alive \ {1} : rank[p] > 0
    /\ \A p \in Alive : ppid[p] # 0 =>
            ppid[p] \in Alive /\ rank[ppid[p]] < rank[p]

Forest == 1 \in Alive /\ ppid[1] = 0 /\ \E rank : Ranks(rank)

\* No process was read as its own parent.
NoneItsOwn == \A p \in Pids : procs[p] # p

\* What each phase of the reader has still to do, or has not done yet.
Phased ==
    /\ pc \in {"idle", "read"} => stack = <<>> /\ nodes = <<>>
    /\ pc # "read" => entries = <<>>
    /\ pc = "done" => stack = <<>>

Visited == {nodes[i].pid : i \in DOMAIN nodes}

Waiting == {stack[i].pid : i \in DOMAIN stack}

\* Where the walk begins.
Start == IF root = 0 THEN roots ELSE {root} \cap Read

\* A process is visited once, or waits once, and not both.
Once == /\ \A i, j \in DOMAIN nodes : nodes[i].pid = nodes[j].pid => i = j
        /\ \A i, j \in DOMAIN stack : stack[i].pid = stack[j].pid => i = j
        /\ Visited \cap Waiting = {}

\* It is there because the walk began with it or has visited its parent.
Grounded == \A q \in Visited \cup Waiting :
                q \in Start \/ procs[q] \in Visited

\* Nothing is left behind: where the walk began and the children of whatever was
\* visited are visited or wait.
LeftBehind ==
    pc \in {"walk", "done"} =>
        /\ Start \subseteq Visited \cup Waiting
        /\ \A p \in Visited : childrenMap(p) \subseteq Visited \cup Waiting

\* A waiting call finds its parent as the last node above it.
DepthsWait ==
    /\ \A i \in DOMAIN stack : stack[i].depth > 0 =>
         \E j \in DOMAIN nodes :
            /\ nodes[j].depth = stack[i].depth - 1
            /\ nodes[j].pid = procs[stack[i].pid]
            /\ \A k \in j + 1..Len(nodes) : nodes[k].depth >= stack[i].depth
    /\ \A i, j \in DOMAIN stack : i <= j => stack[i].depth >= stack[j].depth

\* As long as no process has exited, what was read, or will be, is the link that
\* the process has.
SteadyRead ==
    pc # "idle" /\ ~exits =>
        \A p \in steady :
            /\ p \in Alive
            /\ ppid[p] = 0 \/ ppid[p] \in steady
            /\ \/ \E i \in DOMAIN entries : entries[i] = p
               \/ procs[p] = ppid[p]

\* The inductive invariant of the tree.
TreeInv == /\ TreeType /\ Forest /\ NoneItsOwn /\ Phased
           /\ Once /\ Grounded /\ LeftBehind
           /\ DepthsWait /\ DepthShowsParent
           /\ SteadyRead

-----------------------------------------------------------------------------
(* Sets as sequences.                                                      *)

\* A listing of a finite set has every member once.
LEMMA ListingOfSet ==
    ASSUME NEW S, IsFiniteSet(S), NEW s \in SetToSeqs(S)
    PROVE  /\ s \in Seq(S)
           /\ \A i, j \in DOMAIN s : s[i] = s[j] => i = j
           /\ \A p \in S : \E i \in DOMAIN s : s[i] = p
           /\ DOMAIN s = 1..Cardinality(S) /\ Cardinality(S) \in Nat
<1> DEFINE n == Cardinality(S)
<1>1. n \in Nat /\ IsFiniteSet(1..n) /\ Cardinality(1..n) = n
  BY FS_CardinalityType, FS_Interval
<1>2. s \in [1..n -> S] /\ \A i, j \in 1..n : s[i] = s[j] => i = j
  BY DEF SetToSeqs
<1>3. s \in Injection(1..n, S)
  BY <1>2 DEF Injection, IsInjective
<1>4. s \in Surjection(1..n, S)
  BY <1>1, <1>3, FS_Injection
<1>5. \A p \in S : \E i \in 1..n : s[i] = p
  BY <1>4 DEF Surjection
<1>6. QED
  BY <1>1, <1>2, <1>5

\* So has each listing of a set of pids.
LEMMA ListingOfPids ==
    ASSUME NEW S \in SUBSET Pids, NEW s \in SetToSeqs(S)
    PROVE  /\ s \in Seq(S)
           /\ \A i, j \in DOMAIN s : s[i] = s[j] => i = j
           /\ \A p \in S : \E i \in DOMAIN s : s[i] = p
           /\ DOMAIN s = 1..Cardinality(S) /\ Cardinality(S) \in Nat
<1>1. IsFiniteSet(S)
  <2>1. IsFiniteSet(Pids)
    BY PidsAssumption, FS_Interval DEF Pids
  <2>2. QED
    BY <2>1, FS_Subset
<1>2. QED
  BY <1>1, ListingOfSet

\* A finite set of numbers has an ascending listing: the place of a number is how
\* many there are up to it.
LEMMA AscendingListing ==
    ASSUME NEW S \in SUBSET Nat, IsFiniteSet(S)
    PROVE  /\ Ascending(S) \in SetToSeqs(S)
           /\ \A i, j \in DOMAIN Ascending(S) :
                 i < j => Ascending(S)[i] < Ascending(S)[j]
<1> DEFINE n == Cardinality(S)
           UpTo(x) == {y \in S : y <= x}
           place == [x \in S |-> Cardinality(UpTo(x))]
<1>1. n \in Nat /\ IsFiniteSet(1..n) /\ Cardinality(1..n) = n
  BY FS_CardinalityType, FS_Interval
<1>2. ASSUME NEW x \in S
      PROVE  IsFiniteSet(UpTo(x)) /\ Cardinality(UpTo(x)) \in 1..n
  <2>1. UpTo(x) \in SUBSET S /\ UpTo(x) # {}
    OBVIOUS
  <2>2. IsFiniteSet(UpTo(x)) /\ Cardinality(UpTo(x)) <= n
    BY <2>1, FS_Subset
  <2>3. Cardinality(UpTo(x)) \in Nat /\ Cardinality(UpTo(x)) # 0
    BY <2>1, <2>2, FS_CardinalityType, FS_EmptySet
  <2>4. QED
    BY <1>1, <2>2, <2>3
<1>3. ASSUME NEW x \in S, NEW z \in S, x < z
      PROVE  Cardinality(UpTo(x)) < Cardinality(UpTo(z))
  <2>1. UpTo(x) \in SUBSET UpTo(z) /\ z \in UpTo(z) /\ z \notin UpTo(x)
    <3>1. x \in Nat /\ z \in Nat /\ \A y \in S : y \in Nat
      OBVIOUS
    <3>2. \A y \in S : y <= x => y <= z
      BY <1>3, <3>1
    <3>3. z <= z /\ ~(z <= x)
      BY <1>3, <3>1
    <3>4. QED
      BY <3>2, <3>3
  <2>2. UpTo(x) # UpTo(z)
    BY <2>1
  <2>3. IsFiniteSet(UpTo(z)) /\ IsFiniteSet(UpTo(x))
    BY <1>2
  <2>4. /\ Cardinality(UpTo(x)) <= Cardinality(UpTo(z))
        /\ Cardinality(UpTo(x)) # Cardinality(UpTo(z))
    BY <2>1, <2>2, <2>3, FS_Subset
  <2>5. Cardinality(UpTo(x)) \in Nat /\ Cardinality(UpTo(z)) \in Nat
    BY <2>3, FS_CardinalityType
  <2>6. QED
    BY <2>4, <2>5
<1>4. /\ place \in [S -> 1..n]
      /\ \A x, z \in S : x < z => place[x] < place[z]
  BY <1>2, <1>3
<1> HIDE DEF place, UpTo
<1>5. \A x, z \in S : place[x] = place[z] => x = z
  <2>1. \A x, z \in S : place[x] \in Nat /\ (x < z \/ z < x \/ x = z)
    BY <1>1, <1>4
  <2>2. QED
    BY <1>4, <2>1
<1>6. place \in Surjection(S, 1..n)
  <2>1. place \in Injection(S, 1..n)
    BY <1>4, <1>5 DEF Injection, IsInjective
  <2>2. QED
    BY <1>1, <2>1, FS_Injection
<1>7. \A i \in 1..n : \E x \in S : place[x] = i
  BY <1>6 DEF Surjection
<1> DEFINE s == Ascending(S)
<1>8. s \in [1..n -> S] /\ \A i \in 1..n : place[s[i]] = i
  <2>1. \A x \in S : place[x] = Cardinality({y \in S : y <= x})
    BY DEF place, UpTo
  <2>2. s = [i \in 1..n |-> CHOOSE x \in S : Cardinality({y \in S : y <= x}) = i]
    BY DEF Ascending
  <2>3. \A i \in 1..n : \E x \in S : Cardinality({y \in S : y <= x}) = i
    BY <1>7, <2>1
  <2>4. ASSUME NEW i \in 1..n PROVE s[i] \in S /\ place[s[i]] = i
    <3>1. s[i] \in S /\ Cardinality({y \in S : y <= s[i]}) = i
      BY <2>2, <2>3
    <3>2. QED
      BY <2>1, <3>1
  <2>5. QED
    BY <2>2, <2>4
<1> HIDE DEF s
<1>9. s \in SetToSeqs(S)
  BY <1>8 DEF SetToSeqs
<1>10. \A i, j \in DOMAIN s : i < j => s[i] < s[j]
  <2> SUFFICES ASSUME NEW i \in 1..n, NEW j \in 1..n, i < j PROVE s[i] < s[j]
    BY <1>8
  <2>1. s[i] \in S /\ s[j] \in S /\ place[s[i]] = i /\ place[s[j]] = j
    BY <1>8
  <2>2. s[i] # s[j] /\ ~(s[j] < s[i])
    <3>1. i \in Int /\ j \in Int /\ i # j /\ ~(j < i)
      BY <1>1
    <3>2. s[j] < s[i] => j < i
      BY <1>4, <2>1
    <3>3. s[i] = s[j] => i = j
      BY <2>1
    <3>4. QED
      BY <3>1, <3>2, <3>3
  <2>3. s[i] \in Nat /\ s[j] \in Nat
    BY <2>1
  <2>4. QED
    BY <2>2, <2>3
<1>11. QED
  BY <1>9, <1>10 DEF s

\* The calls of walk for a set: one for each member, at the given depth.
LEMMA CallsOfSet ==
    ASSUME NEW S \in SUBSET Pids, NEW depth \in Nat, NEW new \in CallsOf(S, depth)
    PROVE  /\ new \in Seq(WalkCall)
           /\ \A i \in DOMAIN new : new[i].pid \in S /\ new[i].depth = depth
           /\ \A i, j \in DOMAIN new : new[i].pid = new[j].pid => i = j
           /\ \A p \in S : \E i \in DOMAIN new : new[i].pid = p
<1>1. PICK s \in SetToSeqs(S) :
          new = [i \in 1..Cardinality(S) |-> [pid |-> s[i], depth |-> depth]]
  BY DEF CallsOf
<1>2. /\ \A i, j \in DOMAIN s : s[i] = s[j] => i = j
      /\ \A p \in S : \E i \in DOMAIN s : s[i] = p
      /\ \A i \in DOMAIN s : s[i] \in S
      /\ DOMAIN s = 1..Cardinality(S) /\ Cardinality(S) \in Nat
  BY ListingOfPids
<1>3. /\ DOMAIN new = DOMAIN s
      /\ \A i \in DOMAIN s : new[i].pid = s[i] /\ new[i].depth = depth
                               /\ new[i] \in WalkCall
  BY <1>1, <1>2 DEF WalkCall
<1>4. new \in Seq(WalkCall)
  BY <1>1, <1>2, <1>3
<1>5. QED
  BY <1>2, <1>3, <1>4

\* What stands where when a sequence is put before the tail of another.
LEMMA PutBefore ==
    ASSUME NEW T, NEW new \in Seq(T), NEW old \in Seq(T), old # <<>>,
           NEW all, all = new \o Tail(old)
    PROVE  /\ all \in Seq(T) /\ Len(all) = Len(new) + (Len(old) - 1)
           /\ Len(new) \in Nat /\ Len(old) \in Nat \ {0}
           /\ DOMAIN new = 1..Len(new) /\ DOMAIN old = 1..Len(old)
           /\ DOMAIN all = 1..Len(all)
           /\ \A i \in DOMAIN new : i \in DOMAIN all /\ all[i] = new[i]
           /\ \A i \in DOMAIN old \ {1} :
                 /\ i - 1 + Len(new) \in DOMAIN all
                 /\ all[i - 1 + Len(new)] = old[i]
           /\ \A i \in DOMAIN all \ DOMAIN new :
                 /\ i - Len(new) + 1 \in DOMAIN old \ {1}
                 /\ all[i] = old[i - Len(new) + 1]
           /\ Head(old) = old[1] /\ Head(old) \in T
<1> DEFINE rest == Tail(old)
<1>1. /\ rest \in Seq(T) /\ Len(rest) = Len(old) - 1 /\ Len(old) \in Nat \ {0}
      /\ \A i \in 1..Len(rest) : rest[i] = old[i + 1]
      /\ DOMAIN old = 1..Len(old) /\ Head(old) = old[1] /\ Head(old) \in T
  OBVIOUS
<1> HIDE DEF rest
<1>2. /\ all = new \o rest /\ Len(new) \in Nat
  BY DEF rest
<1>3. /\ all \in Seq(T) /\ Len(all) = Len(new) + Len(rest)
      /\ DOMAIN new = 1..Len(new) /\ DOMAIN all = 1..Len(all)
      /\ \A i \in 1..Len(new) : all[i] = new[i]
      /\ \A i \in Len(new) + 1..Len(new) + Len(rest) : all[i] = rest[i - Len(new)]
  BY <1>1, <1>2
<1>4. ASSUME NEW i \in DOMAIN old \ {1}
      PROVE  i - 1 + Len(new) \in DOMAIN all /\ all[i - 1 + Len(new)] = old[i]
  <2>1. /\ i - 1 \in 1..Len(rest) /\ i - 1 + 1 = i
        /\ i - 1 + Len(new) \in Len(new) + 1..Len(new) + Len(rest)
        /\ i - 1 + Len(new) - Len(new) = i - 1
    BY <1>1, <1>2
  <2>2. QED
    BY <1>1, <1>2, <1>3, <2>1
<1>5. ASSUME NEW i \in DOMAIN all \ DOMAIN new
      PROVE  i - Len(new) + 1 \in DOMAIN old \ {1} /\ all[i] = old[i - Len(new) + 1]
  <2>1. /\ i \in Len(new) + 1..Len(new) + Len(rest)
        /\ i - Len(new) \in 1..Len(rest)
    BY <1>1, <1>2, <1>3
  <2>2. QED
    BY <1>1, <1>2, <1>3, <2>1
<1>6. /\ \A i \in DOMAIN new : i \in DOMAIN all /\ all[i] = new[i]
      /\ Len(all) = Len(new) + (Len(old) - 1)
  BY <1>1, <1>2, <1>3
<1>7. QED
  BY <1>1, <1>2, <1>3, <1>4, <1>5, <1>6

-----------------------------------------------------------------------------
(* The processes.                                                          *)

\* Initially there is init, and nothing is read.
LEMMA InitTreeInv == Init => TreeInv
<1> SUFFICES ASSUME Init PROVE TreeInv
  OBVIOUS
<1>1. 1 \in Pids /\ Gone \notin Int /\ MaxPid \in Nat \ {0}
  BY PidsAssumption DEF Pids
<1>2. Alive = {1} /\ ppid[1] = 0
  BY <1>1 DEF Init, Alive
<1>3. Forest
  <2>1. Ranks([p \in Pids |-> 0])
    BY <1>1, <1>2 DEF Ranks
  <2>2. QED
    BY <1>2, <2>1 DEF Forest
<1>4. TreeType
  <2>1. ppid \in Links /\ procs \in Links
    BY <1>1 DEF Init, Links, Unread
  <2>2. exits \in BOOLEAN
    BY Zenon DEF Init
  <2>3. QED
    BY <1>1, <2>1, <2>2 DEF Init, TreeType
<1>5. NoneItsOwn
  BY <1>1 DEF Init, NoneItsOwn, Unread, Pids
<1>6. stack = <<>> /\ nodes = <<>> /\ entries = <<>> /\ pc = "idle"
  BY DEF Init
<1>7. Visited = {} /\ Waiting = {}
  BY <1>6 DEF Visited, Waiting
<1>8. Phased /\ Once /\ Grounded /\ LeftBehind /\ DepthsWait /\ SteadyRead
  BY <1>6, <1>7
  DEF Phased, Once, Grounded, LeftBehind, DepthsWait, SteadyRead
<1>9. DepthShowsParent
  BY <1>6 DEF DepthShowsParent
<1>10. QED
  BY <1>3, <1>4, <1>5, <1>8, <1>9 DEF TreeInv

\* What the processes do is of no concern to the walk.
LEMMA ReaderKeeps ==
    ASSUME TreeInv, UNCHANGED reader
    PROVE  NoneItsOwn' /\ Phased' /\ Once' /\ Grounded' /\ LeftBehind' /\ DepthsWait'
             /\ DepthShowsParent'
<1>1. /\ pc' = pc /\ root' = root /\ entries' = entries /\ procs' = procs
      /\ stack' = stack /\ nodes' = nodes
  BY DEF reader
<1>2. /\ Visited' = Visited /\ Waiting' = Waiting /\ Read' = Read
      /\ \A p : childrenMap(p)' = childrenMap(p)
  BY <1>1 DEF Visited, Waiting, Read, childrenMap
<1>3. roots' = roots
  BY <1>1, <1>2 DEF roots
<1>4. Start' = Start
  BY <1>1, <1>2, <1>3 DEF Start
<1>5. NoneItsOwn' /\ Phased' /\ Once' /\ Grounded'
  BY <1>1, <1>2, <1>4 DEF TreeInv, NoneItsOwn, Phased, Once, Grounded
<1>6. LeftBehind'
  BY <1>1, <1>2, <1>4 DEF TreeInv, LeftBehind
<1>7. DepthsWait' /\ DepthShowsParent'
  BY <1>1 DEF TreeInv, DepthsWait, DepthShowsParent
<1>8. QED
  BY <1>5, <1>6, <1>7

\* A fork hangs a process that had no child below its parent.
LEMMA ForkKeeps ==
    ASSUME TreeInv, NEW parent \in 0..MaxPid, NEW child \in Pids,
           Fork(parent, child)
    PROVE  TreeInv'
<1>1. /\ parent \in Alive \cup {0} /\ child \notin Alive
      /\ ppid' = [ppid EXCEPT ![child] = parent]
      /\ UNCHANGED <<reader, steady, exits>>
  BY DEF Fork
<1>2. ppid \in Links /\ parent # Gone /\ parent \in Int
  BY PidsAssumption DEF TreeInv, TreeType
<1>3. /\ ppid' \in Links /\ Alive' = Alive \cup {child}
      /\ \A p \in Alive : ppid'[p] = ppid[p] /\ p # child /\ p \in Pids
      /\ ppid'[child] = parent
  BY <1>1, <1>2 DEF Links, Alive
<1>4. Forest'
  <2>1. 1 \in Alive /\ ppid[1] = 0
    BY DEF TreeInv, Forest
  <2>2. PICK rank : Ranks(rank)
    BY DEF TreeInv, Forest
  <2>3. PICK new \in [Pids -> Nat] :
            /\ new[child] = IF parent = 0 THEN 1 ELSE rank[parent] + 1
            /\ \A p \in Alive : new[p] = rank[p] /\ rank[p] \in Nat
    <3>1. parent # 0 => rank[parent] \in Nat
      BY <1>1, <1>3, <2>2 DEF Ranks
    <3>2. DEFINE up == [rank EXCEPT ![child] = IF parent = 0 THEN 1
                                               ELSE rank[parent] + 1]
    <3>3. /\ up \in [Pids -> Nat]
          /\ up[child] = IF parent = 0 THEN 1 ELSE rank[parent] + 1
          /\ \A p \in Alive : up[p] = rank[p] /\ rank[p] \in Nat
      BY <1>1, <1>3, <2>2, <3>1 DEF Ranks
    <3>4. QED
      BY <3>3
  <2>4. Ranks(new)'
    <3>1. new[1] = 0 /\ \A p \in Alive' \ {1} : new[p] > 0
      BY <1>1, <1>3, <2>1, <2>2, <2>3 DEF Ranks
    <3>2. ASSUME NEW p \in Alive', ppid'[p] # 0
          PROVE  ppid'[p] \in Alive' /\ new[ppid'[p]] < new[p]
      <4>1. CASE p = child
        BY <1>1, <1>3, <2>3, <3>2, <4>1
      <4>2. CASE p # child
        BY <1>3, <2>2, <2>3, <3>2, <4>2 DEF Ranks
      <4>3. QED
        BY <4>1, <4>2
    <3>3. QED
      BY <3>1, <3>2 DEF Ranks
  <2>5. QED
    BY <1>3, <2>1, <2>4 DEF Forest
<1>5. SteadyRead'
  BY <1>1, <1>3 DEF TreeInv, SteadyRead, reader
<1>6. TreeType'
  BY <1>1, <1>3 DEF TreeInv, TreeType, reader
<1>7. QED
  BY <1>1, <1>4, <1>5, <1>6, ReaderKeeps DEF TreeInv

\* An exit hangs the children below init, which has the lowest rank.
LEMMA ExitKeeps ==
    ASSUME TreeInv, NEW p \in Pids, Exit(p)
    PROVE  TreeInv'
<1>1. /\ p \in Alive \ {1} /\ pc \in {"idle", "read"}
      /\ ppid' = [q \in Pids |-> IF q = p THEN Gone
                                 ELSE IF ppid[q] = p THEN 1 ELSE ppid[q]]
      /\ steady' = steady \ {p} /\ exits' = (pc = "read")
      /\ UNCHANGED reader
  BY DEF Exit, Running
<1>2. /\ ppid \in Links /\ 1 \in Alive /\ ppid[1] = 0 /\ 1 \in Pids
      /\ Gone \notin Int /\ p \in Int /\ p # 0
  BY PidsAssumption DEF TreeInv, TreeType, Forest, Pids
<1>3. /\ ppid' \in Links /\ Alive' = Alive \ {p}
      /\ \A q \in Alive' : ppid'[q] = IF ppid[q] = p THEN 1 ELSE ppid[q]
  <2>1. 1 \in 0..MaxPid
    BY PidsAssumption
  <2>2. QED
    BY <1>1, <1>2, <2>1 DEF Links, Alive
<1>4. Forest'
  <2>1. PICK rank : Ranks(rank)
    BY DEF TreeInv, Forest
  <2>2. ASSUME NEW q \in Alive', ppid'[q] # 0
        PROVE  ppid'[q] \in Alive' /\ rank[ppid'[q]] < rank[q]
    <3>1. q \in Alive /\ q # p
      BY <1>3, <2>2
    <3>2. CASE ppid[q] = p
      <4>1. q # 1
        BY <1>2, <3>2
      <4>2. ppid'[q] = 1 /\ rank[1] = 0 /\ rank[q] > 0 /\ 1 \in Alive'
        BY <1>1, <1>2, <1>3, <2>1, <2>2, <3>1, <3>2, <4>1 DEF Ranks
      <4>3. QED
        BY <4>2
    <3>3. CASE ppid[q] # p
      BY <1>3, <2>1, <2>2, <3>1, <3>3 DEF Ranks
    <3>4. QED
      BY <3>2, <3>3
  <2>3. Ranks(rank)'
    BY <1>3, <2>1, <2>2 DEF Ranks
  <2>4. QED
    BY <1>1, <1>2, <1>3, <2>3 DEF Forest
<1>5. SteadyRead'
  <2>1. pc' = pc
    BY <1>1 DEF reader
  <2>2. QED
    BY <1>1, <2>1 DEF SteadyRead
<1>6. TreeType'
  <2>1. exits' \in BOOLEAN
    BY <1>1, Zenon
  <2>2. steady' \in SUBSET Pids
    BY <1>1 DEF TreeInv, TreeType
  <2>3. QED
    BY <1>1, <1>3, <2>1, <2>2 DEF TreeInv, TreeType, reader
<1>7. QED
  BY <1>1, <1>4, <1>5, <1>6, ReaderKeeps DEF TreeInv

-----------------------------------------------------------------------------
(* The reader.                                                             *)

\* The listing of /proc names every process that is alive.
LEMMA ListKeeps == ASSUME TreeInv, NEW r \in 0..MaxPid, ListProc(r) PROVE TreeInv'
<1>1. /\ pc = "idle" /\ pc' = "read" /\ root' = r
      /\ entries' \in SetToSeqs(Alive)
      /\ steady' = Alive /\ exits' = FALSE
      /\ UNCHANGED <<ppid, procs, stack, nodes>>
  BY DEF ListProc
<1>2. /\ stack' = <<>> /\ nodes' = <<>> /\ Alive \in SUBSET Pids
      /\ Alive' = Alive /\ TreeType
  BY <1>1 DEF TreeInv, Phased, Alive
<1>3. entries' \in Seq(Alive) /\ \A p \in Alive : \E i \in DOMAIN entries' : entries'[i] = p
  BY <1>1, <1>2, ListingOfPids
<1>4. SteadyRead'
  <2>1. \A p \in Alive : ppid[p] = 0 \/ ppid[p] \in Alive
    BY DEF TreeInv, Forest, Ranks
  <2>2. QED
    BY <1>1, <1>2, <1>3, <2>1 DEF SteadyRead
<1>5. TreeType'
  <2>1. entries' \in Seq(Pids)
    BY <1>2, <1>3
  <2>2. exits' \in BOOLEAN
    BY <1>1, Zenon
  <2>3. QED
    BY <1>1, <1>2, <2>1, <2>2 DEF TreeType
<1>6. Forest' /\ NoneItsOwn' /\ Phased' /\ LeftBehind'
  BY <1>1, <1>2 DEF TreeInv, Forest, Ranks, NoneItsOwn, Phased, LeftBehind
<1>7. Once' /\ Grounded' /\ DepthsWait' /\ DepthShowsParent'
  BY <1>2
  DEF Once, Grounded, DepthsWait, DepthShowsParent, Visited, Waiting
<1>8. QED
  BY <1>4, <1>5, <1>6, <1>7 DEF TreeInv

\* A link that is read is not one to the process itself.
LEMMA ReadKeeps == TreeInv /\ ReadStat => TreeInv'
<1> SUFFICES ASSUME TreeInv, ReadStat PROVE TreeInv'
  OBVIOUS
<1> DEFINE e == Head(entries)
<1>1. /\ pc = "read" /\ entries # <<>> /\ procs' = [procs EXCEPT ![e] = ppid[e]]
      /\ entries' = Tail(entries)
      /\ UNCHANGED <<ppid, pc, root, stack, nodes, steady, exits>>
  BY DEF ReadStat
<1>2. /\ TreeType /\ stack' = <<>> /\ nodes' = <<>> /\ Alive' = Alive
  BY <1>1 DEF TreeInv, Phased, Alive
<1>3. /\ e \in Pids /\ e = entries[1] /\ entries' \in Seq(Pids)
      /\ DOMAIN entries = 1..Len(entries) /\ Len(entries) \in Nat \ {0}
      /\ DOMAIN entries' = 1..(Len(entries) - 1)
      /\ \A i \in DOMAIN entries' : entries'[i] = entries[i + 1]
  <2>1. entries \in Seq(Pids)
    BY <1>2 DEF TreeType
  <2>2. QED
    BY <1>1, <2>1
<1> HIDE DEF e
<1>4. procs' \in Links /\ \A p \in Pids : procs'[p] = IF p = e THEN ppid[e] ELSE procs[p]
  BY <1>1, <1>2, <1>3 DEF TreeType, Links
<1>5. ppid[e] # e
  <2>1. CASE e \in Alive
    <3>1. PICK rank : Ranks(rank)
      BY DEF TreeInv, Forest
    <3>2. e # 0 /\ rank[e] \in Nat
      BY <1>3, <3>1 DEF Pids, Ranks
    <3>3. QED
      BY <2>1, <3>1, <3>2 DEF Ranks
  <2>2. CASE e \notin Alive
    BY <1>3, <2>2, PidsAssumption DEF Alive, Pids
  <2>3. QED
    BY <2>1, <2>2
<1>6. NoneItsOwn'
  BY <1>4, <1>5 DEF TreeInv, NoneItsOwn
<1>7. SteadyRead'
  <2> SUFFICES ASSUME ~exits, NEW p \in steady
               PROVE  /\ p \in Alive
                      /\ ppid[p] = 0 \/ ppid[p] \in steady
                      /\ \/ \E i \in DOMAIN entries' : entries'[i] = p
                         \/ procs'[p] = ppid[p]
    BY <1>1, <1>2 DEF SteadyRead
  <2>1. /\ p \in Alive /\ p \in Pids
        /\ ppid[p] = 0 \/ ppid[p] \in steady
        /\ \/ \E i \in DOMAIN entries : entries[i] = p
           \/ procs[p] = ppid[p]
    BY <1>1 DEF TreeInv, SteadyRead, Alive
  <2>2. CASE p = e
    BY <1>4, <2>1, <2>2
  <2>3. CASE p # e /\ procs[p] = ppid[p]
    BY <1>4, <2>1, <2>3
  <2>4. ASSUME p # e, NEW i \in DOMAIN entries, entries[i] = p
        PROVE  \E j \in DOMAIN entries' : entries'[j] = p
    <3>1. i # 1
      BY <1>3, <2>4
    <3>2. i - 1 \in DOMAIN entries' /\ i - 1 + 1 = i
      BY <1>3, <3>1
    <3>3. QED
      BY <1>3, <2>4, <3>2
  <2>5. QED
    BY <2>1, <2>2, <2>3, <2>4
<1>8. TreeType'
  BY <1>1, <1>2, <1>3, <1>4 DEF TreeType
<1>9. Forest' /\ Phased' /\ LeftBehind'
  BY <1>1, <1>2 DEF TreeInv, Forest, Ranks, Phased, LeftBehind
<1>10. Once' /\ Grounded' /\ DepthsWait' /\ DepthShowsParent'
  BY <1>2
  DEF Once, Grounded, DepthsWait, DepthShowsParent, Visited, Waiting
<1>11. QED
  BY <1>6, <1>7, <1>8, <1>9, <1>10 DEF TreeInv

\* The walk begins with calls for its starting points.
LEMMA StartKeeps == TreeInv /\ StartWalk => TreeInv'
<1> SUFFICES ASSUME TreeInv, StartWalk PROVE TreeInv'
  OBVIOUS
<1>1. /\ pc = "read" /\ entries = <<>> /\ pc' = "walk"
      /\ stack' \in CallsOf(Start, 0)
      /\ UNCHANGED <<ppid, root, entries, procs, nodes, steady, exits>>
  BY DEF StartWalk, Start
<1>2. nodes = <<>> /\ TreeType
  BY <1>1 DEF TreeInv, Phased
<1>3. Start \in SUBSET Pids
  BY DEF Start, roots, Read
<1>4. /\ stack' \in Seq(WalkCall)
      /\ \A i \in DOMAIN stack' : stack'[i].pid \in Start /\ stack'[i].depth = 0
      /\ \A i, j \in DOMAIN stack' : stack'[i].pid = stack'[j].pid => i = j
      /\ \A p \in Start : \E i \in DOMAIN stack' : stack'[i].pid = p
  BY <1>1, <1>3, CallsOfSet
<1>5. Start' = Start /\ Visited' = {} /\ Waiting' = Start
  <2>1. Read' = Read /\ roots' = roots
    BY <1>1 DEF Read, roots
  <2>2. Start' = Start
    BY <1>1, <2>1 DEF Start
  <2>3. Visited' = {} /\ Waiting' = Start
    BY <1>1, <1>2, <1>4 DEF Visited, Waiting
  <2>4. QED
    BY <2>2, <2>3
<1>6. Once' /\ Grounded' /\ LeftBehind'
  BY <1>1, <1>2, <1>4, <1>5 DEF Once, Grounded, LeftBehind
<1>7. DepthsWait' /\ DepthShowsParent'
  BY <1>1, <1>2, <1>4 DEF DepthsWait, DepthShowsParent
<1>8. Alive' = Alive
  BY <1>1 DEF Alive
<1>9. Forest' /\ NoneItsOwn' /\ Phased' /\ SteadyRead'
  BY <1>1, <1>2, <1>8 DEF TreeInv, Forest, Ranks, NoneItsOwn, Phased, SteadyRead
<1>10. TreeType'
  BY <1>1, <1>2, <1>4 DEF TreeType
<1>11. QED
  BY <1>6, <1>7, <1>9, <1>10 DEF TreeInv

\* The walk ends with nothing that waits, and the answer clears the reader.
LEMMA EndKeeps == TreeInv /\ (WalkEnds \/ Answered \/ UNCHANGED vars) => TreeInv'
<1>1. ASSUME TreeInv, WalkEnds PROVE TreeInv'
  <2>1. /\ pc = "walk" /\ stack = <<>> /\ pc' = "done"
        /\ UNCHANGED <<ppid, root, entries, procs, stack, nodes, steady, exits>>
    BY <1>1 DEF WalkEnds
  <2>2. /\ Visited' = Visited /\ Waiting' = Waiting /\ Read' = Read /\ Alive' = Alive
        /\ \A p : childrenMap(p)' = childrenMap(p)
    BY <2>1 DEF Visited, Waiting, Read, childrenMap, Alive
  <2>3. Start' = Start
    <3>1. roots' = roots
      BY <2>1, <2>2 DEF roots
    <3>2. QED
      BY <2>1, <2>2, <3>1 DEF Start
  <2>4. TreeType' /\ Forest' /\ NoneItsOwn' /\ Phased' /\ SteadyRead'
    BY <1>1, <2>1, <2>2
    DEF TreeInv, TreeType, Forest, Ranks, NoneItsOwn, Phased, SteadyRead
  <2>5. Once' /\ Grounded' /\ LeftBehind'
    BY <1>1, <2>1, <2>2, <2>3 DEF TreeInv, Once, Grounded, LeftBehind
  <2>6. DepthsWait' /\ DepthShowsParent'
    BY <1>1, <2>1 DEF TreeInv, DepthsWait, DepthShowsParent
  <2>7. QED
    BY <2>4, <2>5, <2>6 DEF TreeInv
<1>2. ASSUME TreeInv, Answered PROVE TreeInv'
  <2>1. /\ pc = "done" /\ pc' = "idle" /\ root' = 0 /\ procs' = Unread
        /\ nodes' = <<>> /\ steady' = {} /\ exits' = FALSE
        /\ UNCHANGED <<ppid, entries, stack>>
    BY <1>2 DEF Answered
  <2>2. stack' = <<>> /\ Alive' = Alive
    BY <1>2, <2>1 DEF TreeInv, Phased, Alive
  <2>3. exits' \in BOOLEAN
    BY <2>1, Zenon
  <2>4. TreeType'
    BY <1>2, <2>1, <2>3, PidsAssumption DEF TreeInv, TreeType, Links, Unread
  <2>5. NoneItsOwn'
    BY <2>1, PidsAssumption DEF NoneItsOwn, Unread, Pids
  <2>6. Forest' /\ Phased' /\ SteadyRead' /\ LeftBehind'
    BY <1>2, <2>1, <2>2 DEF TreeInv, Forest, Ranks, Phased, SteadyRead, LeftBehind
  <2>7. Once' /\ Grounded' /\ DepthsWait' /\ DepthShowsParent'
    BY <2>1, <2>2
    DEF Once, Grounded, DepthsWait, DepthShowsParent, Visited, Waiting
  <2>8. QED
    BY <2>4, <2>5, <2>6, <2>7 DEF TreeInv
<1>3. ASSUME TreeInv, UNCHANGED vars PROVE TreeInv'
  <2>1. UNCHANGED reader /\ UNCHANGED <<ppid, steady, exits, pc, root, entries, procs, stack, nodes>>
    BY <1>3 DEF vars, reader
  <2>2. Alive' = Alive
    BY <2>1 DEF Alive
  <2>3. TreeType' /\ Forest' /\ SteadyRead'
    BY <1>3, <2>1, <2>2 DEF TreeInv, TreeType, Forest, Ranks, SteadyRead
  <2>4. QED
    BY <1>3, <2>1, <2>3, ReaderKeeps DEF TreeInv
<1>4. QED
  BY <1>1, <1>2, <1>3
\* A call of walk visits a process and puts the calls for its children before
\* those that wait.  A child is neither visited nor waiting yet: it would be
\* there because its parent is visited, and only this call visits its parent.
LEMMA WalkKeeps == TreeInv /\ Walk => TreeInv'
<1> SUFFICES ASSUME TreeInv, Walk PROVE TreeInv'
  OBVIOUS
<1> DEFINE call == Head(stack)
           p == call.pid
           d == call.depth
           S == childrenMap(p)
           node == [pid |-> p, ppid |-> procs[p], depth |-> d, leaf |-> S = {}]
           n == Len(nodes)
<1>1. /\ pc = "walk" /\ stack # <<>> /\ nodes' = Append(nodes, node)
      /\ \E children \in CallsOf(S, d + 1) : stack' = children \o Tail(stack)
      /\ UNCHANGED <<ppid, pc, root, entries, procs, steady, exits>>
  BY DEF Walk, Deeper
<1>2. /\ TreeType /\ Once /\ Grounded /\ LeftBehind /\ DepthsWait
      /\ DepthShowsParent /\ NoneItsOwn
  BY DEF TreeInv
<1>3. /\ stack \in Seq(WalkCall) /\ nodes \in Seq(Node) /\ procs \in Links
      /\ root \in 0..MaxPid
  BY <1>2 DEF TreeType
<1>4. call = stack[1] /\ call \in WalkCall /\ 1 \in DOMAIN stack
  BY <1>1, <1>3
<1>5. p \in Pids /\ d \in Nat /\ p \in Int /\ p # 0
  BY <1>4 DEF WalkCall, Pids
<1>6. S \in SUBSET Pids
  BY DEF childrenMap, Read
<1> HIDE DEF S
<1>7. PICK new \in CallsOf(S, d + 1) : stack' = new \o Tail(stack)
  BY <1>1
<1>8. /\ new \in Seq(WalkCall)
      /\ \A i \in DOMAIN new : new[i].pid \in S /\ new[i].depth = d + 1
      /\ \A i, j \in DOMAIN new : new[i].pid = new[j].pid => i = j
      /\ \A q \in S : \E i \in DOMAIN new : new[i].pid = q
  <2> DEFINE e == d + 1
  <2>1. e \in Nat
    BY <1>5
  <2>2. new \in CallsOf(S, e)
    OBVIOUS
  <2> HIDE DEF e
  <2>3. /\ new \in Seq(WalkCall)
        /\ \A i \in DOMAIN new : new[i].pid \in S /\ new[i].depth = e
        /\ \A i, j \in DOMAIN new : new[i].pid = new[j].pid => i = j
        /\ \A q \in S : \E i \in DOMAIN new : new[i].pid = q
    BY <1>6, <2>1, <2>2, CallsOfSet
  <2>4. QED
    BY <2>3 DEF e
<1>9. /\ stack' \in Seq(WalkCall) /\ Len(stack') = Len(new) + (Len(stack) - 1)
      /\ Len(new) \in Nat /\ Len(stack) \in Nat \ {0}
      /\ DOMAIN new = 1..Len(new) /\ DOMAIN stack = 1..Len(stack)
      /\ DOMAIN stack' = 1..Len(stack')
      /\ \A i \in DOMAIN new : i \in DOMAIN stack' /\ stack'[i] = new[i]
      /\ \A i \in DOMAIN stack \ {1} :
            /\ i - 1 + Len(new) \in DOMAIN stack'
            /\ stack'[i - 1 + Len(new)] = stack[i]
      /\ \A i \in DOMAIN stack' \ DOMAIN new :
            /\ i - Len(new) + 1 \in DOMAIN stack \ {1}
            /\ stack'[i] = stack[i - Len(new) + 1]
  <2>1. stack # <<>> /\ stack' = new \o Tail(stack)
    BY <1>1, <1>7
  <2>2. stack \in Seq(WalkCall) /\ new \in Seq(WalkCall)
    BY <1>3, <1>8
  <2>3. QED
    BY <2>1, <2>2, PutBefore
<1>10. node \in Node
  <2>1. (S = {}) \in BOOLEAN
    OBVIOUS
  <2>2. procs[p] \in (0..MaxPid) \cup {Gone}
    BY <1>3, <1>5 DEF Links
  <2> DEFINE b == S = {}
  <2>3. b \in BOOLEAN
    BY <2>1
  <2> HIDE DEF b
  <2>4. node = [pid |-> p, ppid |-> procs[p], depth |-> d, leaf |-> b]
    BY DEF b
  <2>5. QED
    BY <1>5, <2>2, <2>3, <2>4 DEF Node
<1>11. /\ nodes' \in Seq(Node) /\ n \in Nat /\ Len(nodes') = n + 1
       /\ DOMAIN nodes = 1..n /\ DOMAIN nodes' = 1..(n + 1)
       /\ \A i \in 1..n : nodes'[i] = nodes[i]
       /\ nodes'[n + 1] = node
  BY <1>1, <1>3, <1>10
<1>12. node.pid = p /\ node.ppid = procs[p] /\ node.depth = d
  OBVIOUS
<1> HIDE DEF node
<1>13. Visited' = Visited \cup {p} /\ p \in Waiting /\ p \notin Visited
  <2>1. p \in Waiting /\ p \notin Visited
    BY <1>2, <1>4 DEF Waiting, Once
  <2>2. Visited' = {nodes'[i].pid : i \in 1..(n + 1)}
    BY <1>11 DEF Visited
  <2>3. Visited = {nodes[i].pid : i \in 1..n}
    BY <1>11 DEF Visited
  <2>4. ASSUME NEW q \in Visited' PROVE q \in Visited \cup {p}
    <3>1. PICK i \in 1..(n + 1) : q = nodes'[i].pid
      BY <2>2
    <3>2. CASE i = n + 1
      BY <1>11, <1>12, <3>1, <3>2
    <3>3. CASE i # n + 1
      <4>1. i \in 1..n
        BY <1>11, <3>3
      <4>2. QED
        BY <1>11, <2>3, <3>1, <4>1
    <3>4. QED
      BY <3>2, <3>3
  <2>5. ASSUME NEW q \in Visited PROVE q \in Visited'
    <3>1. PICK i \in 1..n : q = nodes[i].pid
      BY <2>3
    <3>2. i \in 1..(n + 1) /\ q = nodes'[i].pid
      BY <1>11, <3>1
    <3>3. QED
      BY <2>2, <3>2
  <2>6. p \in Visited'
    <3>1. n + 1 \in 1..(n + 1)
      BY <1>11
    <3>2. QED
      BY <1>11, <1>12, <2>2, <3>1
  <2>7. QED
    BY <2>1, <2>4, <2>5, <2>6
<1>14. Waiting' = S \cup (Waiting \ {p})
  <2>1. ASSUME NEW i \in DOMAIN stack' PROVE stack'[i].pid \in S \cup (Waiting \ {p})
    <3>1. CASE i \in DOMAIN new
      BY <1>8, <1>9, <3>1
    <3>2. CASE i \notin DOMAIN new
      <4> DEFINE j == i - Len(new) + 1
      <4>1. j \in DOMAIN stack /\ j # 1 /\ stack'[i] = stack[j]
        BY <1>9, <3>2
      <4> HIDE DEF j
      <4>2. stack[j].pid # stack[1].pid
        BY <1>2, <1>4, <4>1 DEF Once
      <4>3. QED
        BY <1>4, <4>1, <4>2 DEF Waiting
    <3>3. QED
      BY <3>1, <3>2
  <2>2. ASSUME NEW q \in S PROVE q \in Waiting'
    BY <1>8, <1>9 DEF Waiting
  <2>3. ASSUME NEW q \in Waiting, q # p PROVE q \in Waiting'
    <3>1. PICK i \in DOMAIN stack : q = stack[i].pid
      BY DEF Waiting
    <3>2. i # 1
      BY <1>4, <2>3, <3>1
    <3>3. i - 1 + Len(new) \in DOMAIN stack' /\ stack'[i - 1 + Len(new)].pid = q
      BY <1>9, <3>1, <3>2
    <3>4. QED
      BY <3>3 DEF Waiting
  <2>4. \A q \in Waiting' : \E i \in DOMAIN stack' : q = stack'[i].pid
    BY DEF Waiting
  <2>5. QED
    BY <2>1, <2>2, <2>3, <2>4
<1>15. /\ Read' = Read /\ Start' = Start /\ Alive' = Alive
       /\ \A q : childrenMap(q)' = childrenMap(q)
  <2>1. /\ Read' = Read /\ Alive' = Alive
    BY <1>1 DEF Read, Alive
  <2>2. roots' = roots
    BY <1>1, <2>1 DEF roots
  <2>3. QED
    BY <1>1, <2>1, <2>2 DEF Start, childrenMap
<1>16. /\ \A q \in S : q \in Read /\ procs[q] = p /\ q # root /\ q # p
       /\ S \cap (Visited \cup Waiting) = {}
  <2>1. ASSUME NEW q \in S
        PROVE  q \in Read /\ procs[q] = p /\ q # root /\ q # p
    <3>1. q \in Read /\ procs[q] = p /\ q # root /\ q \in Pids
      BY <1>6, <2>1 DEF childrenMap, S
    <3>2. procs[q] # q
      BY <1>2, <3>1 DEF NoneItsOwn
    <3>3. QED
      BY <3>1, <3>2
  <2>2. ASSUME NEW q \in S, q \in Visited \cup Waiting PROVE FALSE
    <3>1. q \in Start \/ procs[q] \in Visited
      BY <1>2, <2>2 DEF Grounded
    <3>2. procs[q] \notin Visited
      BY <1>13, <2>1, <2>2
    <3>3. q \notin Start
      BY <1>5, <2>1, <2>2 DEF Start, roots
    <3>4. QED
      BY <3>1, <3>2, <3>3
  <2>3. QED
    BY <2>1, <2>2
<1>17. Once'
  <2>1. ASSUME NEW i \in DOMAIN nodes', NEW j \in DOMAIN nodes',
               nodes'[i].pid = nodes'[j].pid
        PROVE  i = j
    <3>1. \A k \in 1..n : nodes'[k].pid = nodes[k].pid /\ nodes[k].pid \in Visited
      BY <1>11 DEF Visited
    <3>2. nodes'[n + 1].pid = p
      BY <1>11, <1>12
    <3>3. (i \in 1..n \/ i = n + 1) /\ (j \in 1..n \/ j = n + 1)
      BY <1>11, <2>1
    <3>4. CASE i \in 1..n /\ j \in 1..n
      BY <1>2, <1>11, <2>1, <3>1, <3>4 DEF Once
    <3>5. QED
      BY <1>13, <2>1, <3>1, <3>2, <3>3, <3>4
  <2>2. ASSUME NEW i \in DOMAIN stack', NEW j \in DOMAIN stack',
               stack'[i].pid = stack'[j].pid
        PROVE  i = j
    <3>1. \A k \in DOMAIN stack' \ DOMAIN new :
            /\ k - Len(new) + 1 \in DOMAIN stack
            /\ stack'[k].pid = stack[k - Len(new) + 1].pid
            /\ stack'[k].pid \in Waiting
      BY <1>9 DEF Waiting
    <3>2. \A k \in DOMAIN new : stack'[k].pid = new[k].pid /\ stack'[k].pid \notin Waiting
      BY <1>8, <1>9, <1>16
    <3>3. CASE i \in DOMAIN new /\ j \in DOMAIN new
      BY <1>8, <2>2, <3>2, <3>3
    <3>4. CASE i \notin DOMAIN new /\ j \notin DOMAIN new
      <4>1. i - Len(new) + 1 = j - Len(new) + 1
        BY <1>2, <2>2, <3>1, <3>4 DEF Once
      <4>2. QED
        BY <1>9, <2>2, <4>1
    <3>5. QED
      BY <2>2, <3>1, <3>2, <3>3, <3>4
  <2>3. Visited' \cap Waiting' = {}
    BY <1>2, <1>13, <1>14, <1>16 DEF Once
  <2>4. QED
    BY <2>1, <2>2, <2>3 DEF Once
<1>18. Grounded'
  <2>1. procs' = procs
    BY <1>1
  <2>2. \A q \in Visited' \cup Waiting' : q \in Start' \/ procs'[q] \in Visited'
    BY <1>2, <1>13, <1>14, <1>15, <1>16, <2>1 DEF Grounded
  <2>3. QED
    BY <2>2 DEF Grounded
<1>19. LeftBehind'
  <2>1. /\ Start \subseteq Visited \cup Waiting
        /\ \A q \in Visited : childrenMap(q) \subseteq Visited \cup Waiting
    BY <1>1, <1>2 DEF LeftBehind
  <2>2. Visited \cup Waiting \cup S \subseteq Visited' \cup Waiting'
    BY <1>13, <1>14
  <2>3. \A q \in Visited' : childrenMap(q) \subseteq Visited' \cup Waiting'
    BY <1>13, <2>1, <2>2 DEF S
  <2>4. QED
    BY <1>15, <2>1, <2>2, <2>3 DEF LeftBehind
<1>20. /\ \A i \in DOMAIN stack : stack[i].depth \in Nat /\ d >= stack[i].depth
       /\ \A i \in DOMAIN nodes : nodes[i].depth \in Nat
  <2>1. \A i \in DOMAIN stack : stack[i].depth \in Nat /\ 1 <= i
    <3>1. \A i \in DOMAIN stack : stack[i] \in WalkCall
      BY <1>3
    <3>2. QED
      BY <1>9, <3>1 DEF WalkCall
  <2>2. \A i \in DOMAIN stack : d >= stack[i].depth
    BY <1>2, <1>4, <2>1 DEF DepthsWait
  <2>3. \A i \in DOMAIN nodes : nodes[i].depth \in Nat
    <3>1. \A i \in DOMAIN nodes : nodes[i] \in Node
      BY <1>3
    <3>2. QED
      BY <3>1 DEF Node
  <2>4. QED
    BY <2>1, <2>2, <2>3
<1>21. DepthsWait'
  <2>1. ASSUME NEW i \in DOMAIN stack', stack'[i].depth > 0
        PROVE  \E j \in DOMAIN nodes' :
                  /\ nodes'[j].depth = stack'[i].depth - 1
                  /\ nodes'[j].pid = procs'[stack'[i].pid]
                  /\ \A k \in j + 1..Len(nodes') : nodes'[k].depth >= stack'[i].depth
    <3>1. CASE i \in DOMAIN new
      <4>1. stack'[i].depth = d + 1 /\ procs'[stack'[i].pid] = p
        BY <1>1, <1>8, <1>9, <1>16, <3>1
      <4>2. n + 1 \in DOMAIN nodes' /\ n + 2..Len(nodes') = {}
        BY <1>11
      <4>3. /\ nodes'[n + 1].depth = stack'[i].depth - 1
            /\ nodes'[n + 1].pid = procs'[stack'[i].pid]
        BY <1>5, <1>11, <1>12, <4>1
      <4>4. \A k \in n + 1 + 1..Len(nodes') : nodes'[k].depth >= stack'[i].depth
        BY <1>11
      <4>5. QED
        BY <4>2, <4>3, <4>4
    <3>2. CASE i \notin DOMAIN new
      <4>1. PICK m \in DOMAIN stack : stack'[i] = stack[m]
        BY <1>9, <3>2
      <4>2. PICK j \in DOMAIN nodes :
                /\ nodes[j].depth = stack[m].depth - 1
                /\ nodes[j].pid = procs[stack[m].pid]
                /\ \A k \in j + 1..Len(nodes) : nodes[k].depth >= stack[m].depth
        BY <1>2, <2>1, <4>1 DEF DepthsWait
      <4>3. j \in DOMAIN nodes' /\ nodes'[j] = nodes[j] /\ j \in 1..n
        BY <1>11
      <4>4. ASSUME NEW k \in j + 1..Len(nodes') PROVE nodes'[k].depth >= stack[m].depth
        <5>1. CASE k = n + 1
          BY <1>11, <1>12, <1>20, <5>1
        <5>2. CASE k # n + 1
          <6>1. k \in j + 1..n /\ k \in 1..n
            BY <1>11, <4>3, <5>2
          <6>2. QED
            BY <1>11, <4>2, <6>1
        <5>3. QED
          BY <5>1, <5>2
      <4>5. QED
        BY <1>1, <4>1, <4>2, <4>3, <4>4
    <3>3. QED
      BY <3>1, <3>2
  <2>2. ASSUME NEW i \in DOMAIN stack', NEW j \in DOMAIN stack', i <= j
        PROVE  stack'[i].depth >= stack'[j].depth
    <3>1. \A k \in DOMAIN stack' \ DOMAIN new :
            /\ k - Len(new) + 1 \in DOMAIN stack
            /\ stack'[k].depth = stack[k - Len(new) + 1].depth
            /\ stack'[k].depth \in Nat /\ d >= stack'[k].depth
      BY <1>9, <1>20
    <3>2. \A k \in DOMAIN new : stack'[k].depth = d + 1
      BY <1>8, <1>9
    <3>3. CASE i \in DOMAIN new
      BY <1>5, <2>2, <3>1, <3>2, <3>3
    <3>4. CASE i \notin DOMAIN new
      <4>1. j \notin DOMAIN new
        BY <1>9, <2>2, <3>4
      <4>2. i - Len(new) + 1 <= j - Len(new) + 1
        BY <1>9, <2>2
      <4>3. QED
        BY <1>2, <2>2, <3>1, <3>4, <4>1, <4>2 DEF DepthsWait
    <3>5. QED
      BY <3>3, <3>4
  <2>3. QED
    BY <2>1, <2>2 DEF DepthsWait
<1>22. DepthShowsParent'
  <2> SUFFICES ASSUME NEW i \in DOMAIN nodes', nodes'[i].depth > 0
               PROVE  \E j \in 1..i - 1 :
                        /\ nodes'[j].depth = nodes'[i].depth - 1
                        /\ nodes'[j].pid = nodes'[i].ppid
                        /\ \A k \in j + 1..i - 1 : nodes'[k].depth >= nodes'[i].depth
    BY DEF DepthShowsParent
  <2>1. CASE i = n + 1
    <3>1. PICK j \in DOMAIN nodes :
              /\ nodes[j].depth = stack[1].depth - 1
              /\ nodes[j].pid = procs[stack[1].pid]
              /\ \A k \in j + 1..Len(nodes) : nodes[k].depth >= stack[1].depth
      BY <1>2, <1>4, <1>11, <1>12, <2>1 DEF DepthsWait
    <3>2. /\ i - 1 = n /\ j \in 1..n /\ nodes'[j] = nodes[j]
          /\ \A k \in j + 1..n : nodes'[k] = nodes[k]
      BY <1>11, <2>1
    <3>3. nodes'[i].depth = stack[1].depth /\ nodes'[i].ppid = procs[stack[1].pid]
      BY <1>4, <1>11, <1>12, <2>1
    <3>4. QED
      BY <3>1, <3>2, <3>3
  <2>2. CASE i # n + 1
    <3>1. i \in 1..n /\ nodes'[i] = nodes[i]
      BY <1>11, <2>2
    <3>2. PICK j \in 1..i - 1 :
              /\ nodes[j].depth = nodes[i].depth - 1
              /\ nodes[j].pid = nodes[i].ppid
              /\ \A k \in j + 1..i - 1 : nodes[k].depth >= nodes[i].depth
      BY <1>2, <1>11, <3>1 DEF DepthShowsParent
    <3>3. nodes'[j] = nodes[j] /\ \A k \in j + 1..i - 1 : nodes'[k] = nodes[k]
      BY <1>11, <3>1
    <3>4. QED
      BY <3>1, <3>2, <3>3
  <2>3. QED
    BY <2>1, <2>2
<1>23. Forest' /\ NoneItsOwn' /\ Phased' /\ SteadyRead'
  BY <1>1, <1>15 DEF TreeInv, Forest, Ranks, NoneItsOwn, Phased, SteadyRead
<1>24. TreeType'
  BY <1>1, <1>2, <1>9, <1>11 DEF TreeType
<1>25. QED
  BY <1>17, <1>18, <1>19, <1>21, <1>22, <1>23, <1>24 DEF TreeInv

\* Every step keeps the invariant.
LEMMA NextTreeInv == TreeInv /\ [Next]_vars => TreeInv'
<1> SUFFICES ASSUME TreeInv, [Next]_vars PROVE TreeInv'
  OBVIOUS
<1>1. ASSUME NEW parent \in 0..MaxPid, NEW child \in Pids, Fork(parent, child)
      PROVE  TreeInv'
  BY <1>1, ForkKeeps
<1>2. ASSUME NEW p \in Pids, Exit(p) PROVE TreeInv'
  BY <1>2, ExitKeeps
<1>3. ASSUME NEW r \in 0..MaxPid, ListProc(r) PROVE TreeInv'
  BY <1>3, ListKeeps
<1>4. CASE ReadStat
  BY <1>4, ReadKeeps
<1>5. CASE StartWalk
  BY <1>5, StartKeeps
<1>6. CASE Walk
  BY <1>6, WalkKeeps
<1>7. CASE WalkEnds \/ Answered \/ UNCHANGED vars
  BY <1>7, EndKeeps
<1>8. QED
  BY <1>1, <1>2, <1>3, <1>4, <1>5, <1>6, <1>7 DEF Next

-----------------------------------------------------------------------------
(* The theorems on the process tree.                                       *)

\* The invariant holds however processes fork, exit and reuse pids while /proc
\* is read, for any number of pids.
THEOREM TreeInvariant == Spec => []TreeInv
<1>1. QED
  BY InitTreeInv, NextTreeInv, PTL DEF Spec

\* walk (tools/process.go) visits no process twice, although it keeps no set of
\* the visited and the links that it follows may form a cycle.
THEOREM VisitedOnce == Spec => []NoPidTwice
<1>1. TreeInv => NoPidTwice
  BY DEF TreeInv, Once, NoPidTwice
<1>2. QED
  BY <1>1, TreeInvariant, PTL

\* The flat list that flattenTree makes tells the parent of every node.
THEOREM DepthsTell == Spec => []DepthShowsParent
<1>1. TreeInv => DepthShowsParent
  BY DEF TreeInv
<1>2. QED
  BY <1>1, TreeInvariant, PTL

\* If one that was there throughout is missing, so is its parent, and that one has a
\* lower rank: none is missing.
LEMMA SteadyVisited == TreeInv => SteadyListed
<1> SUFFICES ASSUME TreeInv, pc = "done", root = 0, ~exits,
                    NEW q \in steady, q \notin Visited
             PROVE  FALSE
  BY DEF SteadyListed, Visited
<1>1. /\ \A p \in steady : /\ p \in Alive /\ procs[p] = ppid[p]
                           /\ ppid[p] = 0 \/ ppid[p] \in steady
      /\ stack = <<>>
  BY DEF TreeInv, SteadyRead, Phased
<1>2. Waiting = {}
  BY <1>1 DEF Waiting
<1>3. roots \subseteq Visited /\ \A p \in Visited : childrenMap(p) \subseteq Visited
  BY <1>2 DEF TreeInv, LeftBehind, Start
<1>4. PICK rank : Ranks(rank)
  BY DEF TreeInv, Forest
<1> DEFINE Missing == steady \ Visited
           R == {rank[p] : p \in Missing}
<1>5. \A p \in Missing : rank[p] \in Nat /\ p \in Pids
  BY <1>1, <1>4 DEF Ranks, Alive
<1>6. R \subseteq Nat /\ R # {}
  BY <1>5
<1>7. PICK r \in R : \A e \in R : <<e, r>> \notin OpToRel(<, Nat)
  <2>1. IsWellFoundedOn(OpToRel(<, Nat), Nat)
    BY NatLessThanWellFounded
  <2> HIDE DEF R
  <2>2. QED
    BY <1>6, <2>1, WFMin
<1>8. PICK p \in Missing : r = rank[p]
  BY <1>7
<1>9. /\ p \in Alive /\ p \in Pids /\ procs[p] = ppid[p]
      /\ p # 0 /\ p \in Read /\ p \notin Visited
  BY <1>1, <1>5, <1>8 DEF Read, Alive, Pids
<1>10. ppid[p] # 0
  BY <1>3, <1>9 DEF roots
<1>11. ppid[p] \in steady /\ rank[ppid[p]] < rank[p]
  BY <1>1, <1>4, <1>8, <1>9, <1>10 DEF Ranks
<1>12. ppid[p] \notin Visited
  <2>1. p \in childrenMap(ppid[p])
    BY <1>9 DEF childrenMap
  <2>2. QED
    BY <1>3, <1>9, <2>1
<1>13. rank[ppid[p]] \in R /\ rank[ppid[p]] \in Nat /\ rank[p] \in Nat
  BY <1>5, <1>8, <1>11, <1>12
<1>14. <<rank[ppid[p]], r>> \in OpToRel(<, Nat)
  BY <1>8, <1>11, <1>13 DEF OpToRel
<1>15. QED
  BY <1>7, <1>13, <1>14

\* "When pid is omitted, returns all processes rooted at init" (docs/tools.md): a
\* full tree has every process that lived while /proc was read, unless one exited
\* meanwhile.
THEOREM SteadyAreListed == Spec => []SteadyListed
<1>1. QED
  BY SteadyVisited, TreeInvariant, PTL

-----------------------------------------------------------------------------
(* The rankings and the descriptors: what is to be shown.                  *)

\* Between two calls nothing is left of the last one.
Between == rtool = None => rout = <<>> /\ got = <<>> /\ left = {}

\* What a pid or a descriptor is now is among what it has been during the call.
HistoryOf(now, set) ==
    /\ DOMAIN now = set /\ DOMAIN was = set
    /\ \A x \in set : IsFiniteSet(was[x]) /\ now[x] \in was[x]

\* The descriptors: what was got was there, and what was not got is known not to
\* have been open all along.
FdsInv ==
    rtool = "process_fds" =>
        /\ HistoryOf(fd, Fds)
        /\ DOMAIN got \subseteq Fds /\ left \subseteq Fds
        /\ \A f \in DOMAIN got : got[f] \in was[f] \ {None}
        /\ readable => \A f \in Fds \ DOMAIN got : None \in was[f]
        /\ rout # <<>> => rout = [fds |-> Ascending(DOMAIN got),
                                  count |-> Cardinality(DOMAIN got)]

Shares == [cpu : Nat, mem : Nat]

\* The answer of get_process_info, made of the rankings of what was got.
RankedAnswer ==
    \E byCPU \in Ranked("cpu"), byMemory \in Ranked("mem") :
        rout = CASE rargs.sort = "both" -> [cpu |-> byCPU, mem |-> byMemory]
                 [] rargs.sort = "memory" -> [mem |-> byMemory]
                 [] OTHER -> [cpu |-> byCPU]

\* The rankings: a process that is neither got nor still to be read, or has other
\* figures than its own, was not there all along.
RankInv ==
    rtool = "process_info" =>
        /\ HistoryOf(life, Owners)
        /\ use \in [Owners -> Shares] /\ rargs \in RankArgs
        /\ DOMAIN got \subseteq Owners /\ left \subseteq Owners
        /\ \A p \in Owners \ (DOMAIN got \cup left) : None \in was[p]
        /\ \A p \in DOMAIN got :
              got[p] \in Shares /\ (got[p] = use[p] \/ None \in was[p])
        /\ rout # <<>> => left = {} /\ RankedAnswer

\* The answer of get_network_connections: the groups are made of the list as it
\* was cut.
ConnsAnswer ==
    LET list == Truncated(Named, rargs.max)
    IN rout = [list |-> list,
               groups |-> IF rargs.grouped THEN Groups(list) ELSE <<>>]

\* The connections: an owner whose name is not got, and not still to be read, was
\* away for a moment, and a name that is got was its own for a moment.
ConnsInv ==
    rtool = "connections" =>
        /\ HistoryOf(life, Owners)
        /\ rargs.max \in Nat /\ rows \in Seq(Conns)
        /\ DOMAIN got \subseteq Owners /\ left \subseteq Owners
        /\ \A p \in DOMAIN got : got[p] \in was[p]
        /\ \A i \in DOMAIN rows :
              LET p == rows[i].pid
              IN p # 0 => p \in left \cup DOMAIN got \/ None \in was[p]
        /\ rout # <<>> => left = {} /\ ConnsAnswer

\* The inductive invariant of the reads.
ReadsInv == Between /\ FdsInv /\ RankInv /\ ConnsInv

-----------------------------------------------------------------------------
(* The rankings and the descriptors: the steps.                            *)

\* A change is added to the history.
LEMMA HistoryGrows ==
    ASSUME NEW now, NEW next, NEW set, NEW x \in set, NEW value,
           HistoryOf(now, set), next = [now EXCEPT ![x] = value],
           was' = [was EXCEPT ![x] = @ \cup {value}]
    PROVE  /\ DOMAIN next = set /\ DOMAIN was' = set
           /\ \A y \in set : IsFiniteSet(was'[y]) /\ next[y] \in was'[y]
           /\ \A y \in set : was[y] \subseteq was'[y]
<1>1. /\ DOMAIN now = set /\ DOMAIN was = set
      /\ \A y \in set : IsFiniteSet(was[y]) /\ now[y] \in was[y]
  BY DEF HistoryOf
<1>2. DOMAIN next = set /\ DOMAIN was' = set
  BY <1>1
<1>3. /\ next[x] = value /\ was'[x] = was[x] \cup {value}
      /\ \A y \in set \ {x} : next[y] = now[y] /\ was'[y] = was[y]
  BY <1>1
<1>4. IsFiniteSet(was'[x])
  BY <1>1, <1>3, FS_AddElement
<1>5. QED
  BY <1>1, <1>2, <1>3, <1>4

\* The descriptors, as they are opened, closed and read.
LEMMA FdsKept == ReadsInv /\ [RNext]_rvars => FdsInv'
<1> SUFFICES ASSUME ReadsInv, [RNext]_rvars, rtool' = "process_fds"
             PROVE  FdsInv'
  BY DEF FdsInv
<1>1. ASSUME NEW table \in [Fds -> Targets \cup {None}], NEW allowed \in BOOLEAN,
             OpenFiles(table, allowed)
      PROVE  FdsInv'
  <2>1. /\ rtool = None /\ fd' = table /\ readable' = allowed
        /\ got' = IF allowed THEN [f \in OpenFds(table) |-> table[f]] ELSE <<>>
        /\ was' = [f \in Fds |-> {table[f]}] /\ left' = left /\ rout' = rout
    BY <1>1 DEF OpenFiles
  <2>2. left' = {} /\ rout' = <<>>
    BY <2>1 DEF ReadsInv, Between
  <2>3. HistoryOf(fd, Fds)'
    <3>1. \A f \in Fds : IsFiniteSet({table[f]})
      BY FS_Singleton
    <3>2. QED
      BY <2>1, <3>1 DEF HistoryOf
  <2>4. /\ DOMAIN got' \subseteq Fds
        /\ \A f \in DOMAIN got' : got'[f] \in was'[f] \ {None}
        /\ readable' => \A f \in Fds \ DOMAIN got' : None \in was'[f]
    <3>1. CASE allowed
      BY <2>1, <3>1 DEF OpenFds
    <3>2. CASE ~allowed
      BY <2>1, <3>2
    <3>3. QED
      BY <3>1, <3>2
  <2>5. QED
    BY <2>2, <2>3, <2>4 DEF FdsInv
<1>2. CASE rtool = "process_fds"
  <2>1. /\ HistoryOf(fd, Fds)
        /\ DOMAIN got \subseteq Fds /\ left \subseteq Fds
        /\ \A f \in DOMAIN got : got[f] \in was[f] \ {None}
        /\ readable => \A f \in Fds \ DOMAIN got : None \in was[f]
        /\ rout # <<>> => rout = [fds |-> Ascending(DOMAIN got),
                                  count |-> Cardinality(DOMAIN got)]
    BY <1>2 DEF ReadsInv, FdsInv
  <2>2. ASSUME NEW f \in Fds, NEW target, FdChanges(f, target) PROVE FdsInv'
    <3>1. /\ rout = <<>> /\ fd' = [fd EXCEPT ![f] = target]
          /\ was' = [was EXCEPT ![f] = @ \cup {target}]
          /\ UNCHANGED <<readable, left, got, rout>>
      BY <2>2 DEF FdChanges, Reading
    <3>2. /\ HistoryOf(fd, Fds)' /\ \A g \in Fds : was[g] \subseteq was'[g]
      <4>1. /\ DOMAIN fd' = Fds /\ DOMAIN was' = Fds
            /\ \A g \in Fds : IsFiniteSet(was'[g]) /\ fd'[g] \in was'[g]
            /\ \A g \in Fds : was[g] \subseteq was'[g]
        BY <2>1, <3>1, HistoryGrows
      <4>2. QED
        BY <4>1 DEF HistoryOf
    <3>3. QED
      BY <2>1, <3>1, <3>2 DEF FdsInv
  <2>3. CASE ReadFdDir
    <3>1. /\ rout = <<>> /\ left' \subseteq Fds
          /\ UNCHANGED <<fd, was, readable, got, rout>>
      BY <2>3 DEF ReadFdDir, Reading, OpenFds, machine
    <3>2. HistoryOf(fd, Fds)'
      BY <2>1, <3>1 DEF HistoryOf
    <3>3. QED
      BY <2>1, <3>1, <3>2 DEF FdsInv
  <2>4. ASSUME NEW f \in Fds, ReadLink(f) PROVE FdsInv'
    <3>1. /\ rout = <<>> /\ left' = left \ {f}
          /\ got' = IF fd[f] = None THEN got ELSE With(got, f, fd[f])
          /\ UNCHANGED <<fd, was, readable, rout>>
      BY <2>4 DEF ReadLink, Reading, machine
    <3>2. HistoryOf(fd, Fds)'
      BY <2>1, <3>1 DEF HistoryOf
    <3>3. /\ DOMAIN got' \subseteq Fds /\ DOMAIN got \subseteq DOMAIN got'
          /\ \A g \in DOMAIN got' : got'[g] \in was'[g] \ {None}
      <4>1. CASE fd[f] = None
        BY <2>1, <3>1, <4>1
      <4>2. CASE fd[f] # None
        <5>1. got' = With(got, f, fd[f]) /\ fd[f] \in was[f] /\ was' = was
          BY <2>1, <3>1, <4>2 DEF HistoryOf
        <5>2. /\ DOMAIN got' = DOMAIN got \cup {f} /\ got'[f] = fd[f]
              /\ \A g \in DOMAIN got \ {f} : got'[g] = got[g]
          BY <5>1 DEF With
        <5>3. QED
          BY <2>1, <4>2, <5>1, <5>2
      <4>3. QED
        BY <4>1, <4>2
    <3>4. QED
      BY <2>1, <3>1, <3>2, <3>3 DEF FdsInv
  <2>5. CASE GatherProcessFDs
    <3>1. /\ rout' = [fds |-> Ascending(DOMAIN got), count |-> Cardinality(DOMAIN got)]
          /\ UNCHANGED <<fd, was, readable, left, got>>
      BY <2>5 DEF GatherProcessFDs, machine
    <3>2. HistoryOf(fd, Fds)'
      BY <2>1, <3>1 DEF HistoryOf
    <3>3. QED
      BY <2>1, <3>1, <3>2 DEF FdsInv
  <2>6. CASE UNCHANGED rvars
    <3>1. UNCHANGED <<fd, was, readable, left, got, rout>>
      BY <2>6 DEF rvars, machine
    <3>2. HistoryOf(fd, Fds)'
      BY <2>1, <3>1 DEF HistoryOf
    <3>3. QED
      BY <2>1, <3>1, <3>2 DEF FdsInv
  <2>7. rtool # None
    BY <1>2 DEF None
  <2>8. QED
    BY <1>2, <2>2, <2>3, <2>4, <2>5, <2>6, <2>7
    DEF RNext, ProcessChanges, ListConnections, ListProcesses, resolveProcessNames,
        ReadProcess, OpenFiles, GatherNetworkConnections, GatherProcessInfo,
        ListFails, Answer, Reading, None
<1>3. CASE rtool # "process_fds"
  BY <1>1, <1>3
  DEF RNext, ProcessChanges, FdChanges, ListConnections, ListProcesses,
      resolveProcessNames, ReadProcess, ReadLink, ReadFdDir,
      GatherNetworkConnections, GatherProcessInfo, GatherProcessFDs, ListFails,
      Answer, Reading, None, rvars
<1>4. QED
  BY <1>2, <1>3

\* The figures, as processes exit, pids are used again and files are read.
LEMMA RanksKept == ReadsInv /\ [RNext]_rvars => RankInv'
<1> SUFFICES ASSUME ReadsInv, [RNext]_rvars, rtool' = "process_info"
             PROVE  RankInv'
  BY DEF RankInv
<1>1. ASSUME NEW args \in RankArgs, NEW figures \in [Owners -> [cpu : Figures, mem : Figures]],
             ListProcesses(args, AtFirst, figures)
      PROVE  RankInv'
  <2>1. /\ rtool = None /\ rargs' = args /\ life' = AtFirst /\ use' = figures
        /\ left' = {p \in Owners : AtFirst[p] # None}
        /\ was' = [p \in Owners |-> {AtFirst[p]}] /\ got' = got /\ rout' = rout
    BY <1>1 DEF ListProcesses
  <2>2. got' = <<>> /\ rout' = <<>> /\ DOMAIN got' = {}
    BY <2>1 DEF ReadsInv, Between
  <2>3. HistoryOf(life, Owners)'
    <3>1. \A p \in Owners : IsFiniteSet({AtFirst[p]})
      BY FS_Singleton
    <3>2. DOMAIN AtFirst = Owners
      BY DEF AtFirst
    <3>3. QED
      BY <2>1, <3>1, <3>2 DEF HistoryOf
  <2>4. use' \in [Owners -> Shares]
    BY <2>1, ReadsAssumption DEF Shares
  <2>5. \A p \in Owners \ left' : None \in was'[p]
    BY <2>1
  <2>6. QED
    BY <2>1, <2>2, <2>3, <2>4, <2>5 DEF RankInv
<1>2. CASE rtool = "process_info"
  <2>1. /\ HistoryOf(life, Owners)
        /\ use \in [Owners -> Shares] /\ rargs \in RankArgs
        /\ DOMAIN got \subseteq Owners /\ left \subseteq Owners
        /\ \A p \in Owners \ (DOMAIN got \cup left) : None \in was[p]
        /\ \A p \in DOMAIN got :
              got[p] \in Shares /\ (got[p] = use[p] \/ None \in was[p])
        /\ rout # <<>> => left = {} /\ RankedAnswer
    BY <1>2 DEF ReadsInv, RankInv
  <2>2. ASSUME NEW p \in Owners, NEW program, ProcessChanges(p, program)
        PROVE  RankInv'
    <3>1. /\ rout = <<>> /\ life' = [life EXCEPT ![p] = program]
          /\ was' = [was EXCEPT ![p] = @ \cup {program}]
          /\ UNCHANGED <<rargs, use, left, got, rout>>
      BY <2>2 DEF ProcessChanges, Reading
    <3>2. /\ HistoryOf(life, Owners)' /\ \A q \in Owners : was[q] \subseteq was'[q]
      <4>1. /\ DOMAIN life' = Owners /\ DOMAIN was' = Owners
            /\ \A q \in Owners : IsFiniteSet(was'[q]) /\ life'[q] \in was'[q]
            /\ \A q \in Owners : was[q] \subseteq was'[q]
        BY <2>1, <3>1, HistoryGrows
      <4>2. QED
        BY <4>1 DEF HistoryOf
    <3>3. QED
      BY <2>1, <3>1, <3>2 DEF RankInv
  <2>3. ASSUME NEW p \in Owners, ReadProcess(p) PROVE RankInv'
    <3> DEFINE share == IF life[p] = None THEN NoUse[p] ELSE use[p]
    <3>1. /\ rout = <<>> /\ left' = left \ {p} /\ got' = With(got, p, share)
          /\ UNCHANGED <<rargs, life, use, was, rout>>
      BY <2>3 DEF ReadProcess, Reading, machine
    <3>2. HistoryOf(life, Owners)'
      BY <2>1, <3>1 DEF HistoryOf
    <3>3. share \in Shares /\ (share = use[p] \/ None \in was[p])
      <4>1. NoUse[p] \in Shares /\ use[p] \in Shares
        BY <2>1 DEF NoUse, Shares
      <4>2. life[p] \in was[p]
        BY <2>1 DEF HistoryOf
      <4>3. QED
        BY <4>1, <4>2
    <3> HIDE DEF share
    <3>4. /\ DOMAIN got' = DOMAIN got \cup {p} /\ got'[p] = share
          /\ \A q \in DOMAIN got \ {p} : got'[q] = got[q]
      BY <3>1 DEF With
    <3>5. \A q \in DOMAIN got' :
              got'[q] \in Shares /\ (got'[q] = use'[q] \/ None \in was'[q])
      BY <2>1, <3>1, <3>3, <3>4
    <3>6. \A q \in Owners \ (DOMAIN got' \cup left') : None \in was'[q]
      BY <2>1, <3>1, <3>4
    <3>7. QED
      BY <2>1, <3>1, <3>2, <3>4, <3>5, <3>6 DEF RankInv
  <2>4. CASE GatherProcessInfo
    <3>1. left = {} /\ UNCHANGED <<rargs, life, use, was, left, got>>
      BY <2>4 DEF GatherProcessInfo, machine
    <3>2. RankedAnswer'
      <4>1. \A key : Ranked(key)' = Ranked(key)
        BY <3>1 DEF Ranked
      <4>2. QED
        BY <2>4, <3>1, <4>1 DEF GatherProcessInfo, RankedAnswer
    <3>3. HistoryOf(life, Owners)'
      BY <2>1, <3>1 DEF HistoryOf
    <3>4. QED
      BY <2>1, <3>1, <3>2, <3>3 DEF RankInv
  <2>5. CASE UNCHANGED rvars
    <3>1. UNCHANGED <<rargs, life, use, was, left, got, rout>>
      BY <2>5 DEF rvars, machine
    <3>2. RankedAnswer => RankedAnswer'
      <4>1. \A key : Ranked(key)' = Ranked(key)
        BY <3>1 DEF Ranked
      <4>2. QED
        BY <3>1, <4>1 DEF RankedAnswer
    <3>3. HistoryOf(life, Owners)'
      BY <2>1, <3>1 DEF HistoryOf
    <3>4. QED
      BY <2>1, <3>1, <3>2, <3>3 DEF RankInv
  <2>6. QED
    BY <1>2, <2>2, <2>3, <2>4, <2>5
    DEF RNext, FdChanges, ListConnections, ListProcesses, resolveProcessNames,
        OpenFiles, ReadFdDir, ReadLink, GatherNetworkConnections,
        GatherProcessFDs, ListFails, Answer, Reading, None
<1>3. CASE rtool # "process_info"
  BY <1>1, <1>3
  DEF RNext, ProcessChanges, FdChanges, ListConnections, resolveProcessNames,
      ReadProcess, OpenFiles, ReadLink, ReadFdDir, GatherNetworkConnections,
      GatherProcessInfo, GatherProcessFDs, ListFails, Answer, Reading, None, rvars
<1>4. QED
  BY <1>2, <1>3

\* What a loop keeps of a slice: the elements at the places that it keeps, in
\* their order, and all of them.
LEMMA SelectedSlice ==
    ASSUME NEW T, NEW s \in Seq(T), NEW places \in SUBSET DOMAIN s
    PROVE  /\ Selected(s, places) \in Seq(T)
           /\ \A n \in DOMAIN Selected(s, places) :
                 \E i \in places : Selected(s, places)[n] = s[i]
           /\ \A i \in places :
                 \E n \in DOMAIN Selected(s, places) : Selected(s, places)[n] = s[i]
<1> DEFINE order == Ascending(places)
<1>1. DOMAIN s = 1..Len(s) /\ Len(s) \in Nat
  OBVIOUS
<1>2. places \in SUBSET Nat /\ IsFiniteSet(places)
  <2>1. IsFiniteSet(1..Len(s))
    BY <1>1, FS_Interval
  <2>2. QED
    BY <1>1, <2>1, FS_Subset
<1>3. order \in SetToSeqs(places)
  BY <1>2, AscendingListing
<1> HIDE DEF order
<1>4. /\ order \in Seq(places) /\ DOMAIN order = 1..Cardinality(places)
      /\ Cardinality(places) \in Nat
      /\ \A i \in places : \E n \in DOMAIN order : order[n] = i
  BY <1>2, <1>3, ListingOfSet
<1> DEFINE kept == Selected(s, places)
<1>5. kept = [n \in DOMAIN order |-> s[order[n]]]
  BY DEF Selected, order
<1>6. \A n \in DOMAIN order : order[n] \in places /\ s[order[n]] \in T
  BY <1>4
<1> HIDE DEF kept
<1>7. kept \in Seq(T)
  <2>1. PICK m \in Nat : DOMAIN order = 1..m
    BY <1>4
  <2>2. kept \in [1..m -> T]
    BY <1>5, <1>6, <2>1
  <2>3. QED
    BY <2>1, <2>2
<1>8. \A n \in DOMAIN kept : \E i \in places : kept[n] = s[i]
  BY <1>5, <1>6
<1>9. \A i \in places : \E n \in DOMAIN kept : kept[n] = s[i]
  BY <1>4, <1>5
<1>10. QED
  BY <1>7, <1>8, <1>9 DEF kept

\* The connections, as processes exit and their names are read.
LEMMA ConnsKept == ReadsInv /\ [RNext]_rvars => ConnsInv'
<1> SUFFICES ASSUME ReadsInv, [RNext]_rvars, rtool' = "connections"
             PROVE  ConnsInv'
  BY DEF ConnsInv
<1>1. ASSUME NEW args \in ConnArgs, NEW conns \in BoundedSeq(Conns, MaxConns),
             ListConnections(args, AtFirst, conns)
      PROVE  ConnsInv'
  <2> DEFINE places == {i \in DOMAIN conns : Matches(conns[i], args)}
  <2>1. /\ rtool = None
        /\ rargs' = [args EXCEPT !.max = clampVal(@, 0, MostConns)]
        /\ life' = AtFirst /\ rows' = Selected(conns, places)
        /\ left' = {rows'[i].pid : i \in DOMAIN rows'} \ {0}
        /\ was' = [p \in Owners |-> {AtFirst[p]}]
        /\ got' = got /\ rout' = rout
    BY <1>1 DEF ListConnections
  <2>2. got' = <<>> /\ rout' = <<>> /\ DOMAIN got' = {}
    BY <2>1 DEF ReadsInv, Between
  <2>3. HistoryOf(life, Owners)'
    <3>1. \A p \in Owners : IsFiniteSet({AtFirst[p]})
      BY FS_Singleton
    <3>2. DOMAIN AtFirst = Owners
      BY DEF AtFirst
    <3>3. QED
      BY <2>1, <3>1, <3>2 DEF HistoryOf
  <2>4. rargs'.max \in Nat
    <3>1. clampVal(args.max, 0, MostConns) \in Nat
      BY ReadsAssumption DEF clampVal
    <3>2. QED
      BY <2>1, <3>1, ReadsAssumption
  <2>5. conns \in Seq(Conns)
    <3>1. PICK m \in 0..MaxConns : conns \in [1..m -> Conns]
      BY DEF BoundedSeq, SeqOf
    <3>2. m \in Nat
      BY ReadsAssumption
    <3>3. QED
      BY <3>1, <3>2
  <2>6. rows' \in Seq(Conns)
    BY <2>1, <2>5, SelectedSlice
  <2>7. left' \subseteq Owners
    <3>1. \A i \in DOMAIN rows' : rows'[i] \in Conns
      BY <2>6
    <3>2. \A c \in Conns : c.pid \in Owners \cup {0}
      BY DEF Conns
    <3>3. QED
      BY <2>1, <3>1, <3>2
  <2>8. \A i \in DOMAIN rows' : rows'[i].pid # 0 => rows'[i].pid \in left'
    BY <2>1
  <2>9. QED
    BY <2>2, <2>3, <2>4, <2>6, <2>7, <2>8 DEF ConnsInv
<1>2. CASE rtool = "connections"
  <2>1. /\ HistoryOf(life, Owners)
        /\ rargs.max \in Nat /\ rows \in Seq(Conns)
        /\ DOMAIN got \subseteq Owners /\ left \subseteq Owners
        /\ \A p \in DOMAIN got : got[p] \in was[p]
        /\ \A i \in DOMAIN rows : rows[i].pid # 0 =>
              rows[i].pid \in left \cup DOMAIN got \/ None \in was[rows[i].pid]
        /\ rout # <<>> => left = {} /\ ConnsAnswer
    BY <1>2 DEF ReadsInv, ConnsInv
  <2>2. \A i \in DOMAIN rows : rows[i].pid # 0 => rows[i].pid \in Owners
    <3>1. \A i \in DOMAIN rows : rows[i] \in Conns
      BY <2>1
    <3>2. QED
      BY <3>1 DEF Conns
  <2>3. ASSUME NEW p \in Owners, NEW program, ProcessChanges(p, program)
        PROVE  ConnsInv'
    <3>1. /\ rout = <<>> /\ life' = [life EXCEPT ![p] = program]
          /\ was' = [was EXCEPT ![p] = @ \cup {program}]
          /\ UNCHANGED <<rargs, rows, left, got, rout>>
      BY <2>3 DEF ProcessChanges, Reading
    <3>2. /\ HistoryOf(life, Owners)' /\ \A q \in Owners : was[q] \subseteq was'[q]
      <4>1. /\ DOMAIN life' = Owners /\ DOMAIN was' = Owners
            /\ \A q \in Owners : IsFiniteSet(was'[q]) /\ life'[q] \in was'[q]
            /\ \A q \in Owners : was[q] \subseteq was'[q]
        BY <2>1, <3>1, HistoryGrows
      <4>2. QED
        BY <4>1 DEF HistoryOf
    <3>3. QED
      BY <2>1, <2>2, <3>1, <3>2 DEF ConnsInv
  <2>4. ASSUME NEW p \in Owners, resolveProcessNames(p) PROVE ConnsInv'
    <3>1. /\ rout = <<>> /\ left' = left \ {p}
          /\ got' = IF life[p] = None THEN got ELSE With(got, p, life[p])
          /\ UNCHANGED <<rargs, rows, life, was, rout>>
      BY <2>4 DEF resolveProcessNames, Reading, machine
    <3>2. HistoryOf(life, Owners)' /\ life[p] \in was[p]
      BY <2>1, <3>1 DEF HistoryOf
    <3>3. /\ DOMAIN got \subseteq DOMAIN got' /\ DOMAIN got' \subseteq Owners
          /\ \A q \in DOMAIN got' : got'[q] \in was[q]
          /\ p \in DOMAIN got' \/ None \in was[p]
      <4>1. CASE life[p] = None
        BY <2>1, <3>1, <3>2, <4>1
      <4>2. CASE life[p] # None
        <5>1. /\ DOMAIN got' = DOMAIN got \cup {p} /\ got'[p] = life[p]
              /\ \A q \in DOMAIN got \ {p} : got'[q] = got[q]
          BY <3>1, <4>2 DEF With
        <5>2. QED
          BY <2>1, <3>2, <5>1
      <4>3. QED
        BY <4>1, <4>2
    <3>4. QED
      BY <2>1, <3>1, <3>2, <3>3 DEF ConnsInv
  <2>5. CASE GatherNetworkConnections
    <3>1. left = {} /\ UNCHANGED <<rargs, rows, life, was, left, got>>
      BY <2>5 DEF GatherNetworkConnections, machine
    <3>2. ConnsAnswer'
      <4>1. Named' = Named /\ \A list : Groups(list)' = Groups(list)
        BY <3>1 DEF Named, Groups, NameOf
      <4>2. QED
        BY <2>5, <3>1, <4>1 DEF GatherNetworkConnections, ConnsAnswer
    <3>3. HistoryOf(life, Owners)'
      BY <2>1, <3>1 DEF HistoryOf
    <3>4. QED
      BY <2>1, <3>1, <3>2, <3>3 DEF ConnsInv
  <2>6. CASE UNCHANGED rvars
    <3>1. UNCHANGED <<rargs, rows, life, was, left, got, rout>>
      BY <2>6 DEF rvars, machine
    <3>2. ConnsAnswer => ConnsAnswer'
      <4>1. Named' = Named /\ \A list : Groups(list)' = Groups(list)
        BY <3>1 DEF Named, Groups, NameOf
      <4>2. QED
        BY <3>1, <4>1 DEF ConnsAnswer
    <3>3. HistoryOf(life, Owners)'
      BY <2>1, <3>1 DEF HistoryOf
    <3>4. QED
      BY <2>1, <3>1, <3>2, <3>3 DEF ConnsInv
  <2>7. QED
    BY <1>2, <2>3, <2>4, <2>5, <2>6
    DEF RNext, FdChanges, ListConnections, ListProcesses, ReadProcess, OpenFiles,
        ReadFdDir, ReadLink, GatherProcessInfo, GatherProcessFDs, ListFails, Answer,
        Reading, None
<1>3. CASE rtool # "connections"
  BY <1>1, <1>3
  DEF RNext, ProcessChanges, FdChanges, ListProcesses, resolveProcessNames,
      ReadProcess, OpenFiles, ReadLink, ReadFdDir, GatherNetworkConnections,
      GatherProcessInfo, GatherProcessFDs, ListFails, Answer, Reading, None, rvars
<1>4. QED
  BY <1>2, <1>3

\* Every call clears what it has read when it is answered.
LEMMA BetweenKept == ReadsInv /\ [RNext]_rvars => Between'
<1> SUFFICES ASSUME ReadsInv, [RNext]_rvars, rtool' = None PROVE Between'
  BY DEF Between
<1>1. CASE rtool = None
  <2>1. rout = <<>> /\ got = <<>> /\ left = {}
    BY <1>1 DEF ReadsInv, Between
  <2>2. QED
    BY <1>1, <2>1
    DEF RNext, ProcessChanges, FdChanges, ListConnections, ListProcesses,
        resolveProcessNames, ReadProcess, OpenFiles, ReadFdDir, ReadLink,
        GatherNetworkConnections, GatherProcessInfo, GatherProcessFDs, ListFails,
        Answer, Reading, None, rvars, Between
<1>2. CASE rtool # None
  <2>1. Answer
    BY <1>2
    DEF RNext, ProcessChanges, FdChanges, ListConnections, ListProcesses,
        resolveProcessNames, ReadProcess, OpenFiles, ReadFdDir, ReadLink,
        GatherNetworkConnections, GatherProcessInfo, GatherProcessFDs, ListFails,
        Reading, None, rvars
  <2>2. QED
    BY <2>1 DEF Answer, Between
<1>3. QED
  BY <1>1, <1>2

-----------------------------------------------------------------------------
(* The rankings and the descriptors: the theorems.                         *)

\* The invariant holds however the machine changes between the reads.
THEOREM ReadsInvariant == RSpec => []ReadsInv
<1>1. RInit => ReadsInv
  <2>1. RInit => rtool \notin {"process_fds", "process_info", "connections"}
    BY DEF RInit, None
  <2>2. QED
    BY <2>1 DEF RInit, ReadsInv, Between, FdsInv, RankInv, ConnsInv
<1>2. ReadsInv /\ [RNext]_rvars => ReadsInv'
  BY FdsKept, RanksKept, ConnsKept, BetweenKept DEF ReadsInv
<1>3. QED
  BY <1>1, <1>2, PTL DEF RSpec

\* What was there all along was nothing else.
LEMMA SteadyIsSome ==
    ASSUME NEW x, IsFiniteSet(was[x]), Steady(x)
    PROVE  None \notin was[x]
<1>1. PICK y : was[x] = {y}
  BY FS_Singleton DEF Steady
<1>2. QED
  BY <1>1 DEF Steady

\* GatherProcessFDs (tools/process.go): whatever is opened and closed between the two
\* listings that it merges, a descriptor that was open all along is listed once, and
\* one that is listed was open at some moment of the call.
THEOREM DescriptorsOnce == RSpec => []FdsListedOnce
<1>1. ReadsInv => FdsListedOnce
  <2> SUFFICES ASSUME ReadsInv, rtool = "process_fds", rout # <<>>
               PROVE  /\ rout.count = Len(rout.fds)
                      /\ \A i \in DOMAIN rout.fds :
                            /\ i > 1 => rout.fds[i - 1] < rout.fds[i]
                            /\ got[rout.fds[i]] \in was[rout.fds[i]] \ {None}
                      /\ readable => \A f \in Fds : Steady(f) => f \in DOMAIN got
    BY DEF FdsListedOnce, Ended
  <2>1. /\ HistoryOf(fd, Fds) /\ DOMAIN got \subseteq Fds
        /\ \A f \in DOMAIN got : got[f] \in was[f] \ {None}
        /\ readable => \A f \in Fds \ DOMAIN got : None \in was[f]
        /\ rout = [fds |-> Ascending(DOMAIN got), count |-> Cardinality(DOMAIN got)]
    BY DEF ReadsInv, FdsInv
  <2> DEFINE s == Ascending(DOMAIN got)
  <2>2. rout.fds = s /\ rout.count = Cardinality(DOMAIN got)
    BY <2>1
  <2>3. DOMAIN got \in SUBSET Nat /\ IsFiniteSet(DOMAIN got)
    BY <2>1, ReadsAssumption, FS_Subset
  <2>4. s \in SetToSeqs(DOMAIN got) /\ \A i, j \in DOMAIN s : i < j => s[i] < s[j]
    BY <2>3, AscendingListing
  <2> HIDE DEF s
  <2>5. /\ s \in Seq(DOMAIN got) /\ DOMAIN s = 1..Cardinality(DOMAIN got)
        /\ Cardinality(DOMAIN got) \in Nat
    BY <2>3, <2>4, ListingOfSet
  <2>6. Len(s) = Cardinality(DOMAIN got) /\ \A i \in DOMAIN s : s[i] \in DOMAIN got
    BY <2>5
  <2>7. \A i \in DOMAIN s : i > 1 => s[i - 1] < s[i]
    <3> SUFFICES ASSUME NEW i \in DOMAIN s, i > 1 PROVE s[i - 1] < s[i]
      OBVIOUS
    <3>1. i - 1 \in DOMAIN s /\ i - 1 < i
      BY <2>5
    <3>2. QED
      BY <2>4, <3>1
  <2>8. readable => \A f \in Fds : Steady(f) => f \in DOMAIN got
    <3>1. \A f \in Fds : IsFiniteSet(was[f])
      BY <2>1 DEF HistoryOf
    <3>2. QED
      BY <2>1, <3>1, SteadyIsSome
  <2>9. QED
    BY <2>1, <2>2, <2>6, <2>7, <2>8
<1>2. QED
  BY <1>1, ReadsInvariant, PTL

\* One ranking: what is cut off has no more than what is left.
LEMMA RankingCut ==
    ASSUME NEW key \in {"cpu", "mem"}, NEW ranking \in Ranked(key), NEW p \in DOMAIN got,
           IsFiniteSet(DOMAIN got), \A q \in DOMAIN got : got[q] \in Shares,
           rargs.limit \in Nat \ {0}, \A i \in DOMAIN ranking : ranking[i] # p
    PROVE  /\ Len(ranking) = rargs.limit
           /\ \A i \in DOMAIN ranking :
                 ranking[i] \in DOMAIN got /\ got[ranking[i]][key] >= got[p][key]
<1> DEFINE most == rargs.limit
<1>1. PICK t \in SetToSeqs(DOMAIN got) :
          /\ ranking = Truncated(t, most)
          /\ \A i, j \in DOMAIN t : i < j => got[t[i]][key] >= got[t[j]][key]
  BY DEF Ranked
<1>2. /\ t \in Seq(DOMAIN got) /\ Len(t) \in Nat /\ DOMAIN t = 1..Len(t)
      /\ \E k \in DOMAIN t : t[k] = p
  <2>1. t \in Seq(DOMAIN got) /\ \E k \in DOMAIN t : t[k] = p
    BY ListingOfSet
  <2>2. QED
    BY <2>1
<1>3. PICK k \in DOMAIN t : t[k] = p
  BY <1>2
<1>4. ranking # t
  BY <1>3
<1>5. most < Len(t) /\ ranking = SubSeq(t, 1, most) /\ most \in Nat \ {0}
  BY <1>1, <1>2, <1>4 DEF Truncated
<1>6. Len(ranking) = most /\ DOMAIN ranking = 1..most /\ \A i \in 1..most : ranking[i] = t[i]
  BY <1>2, <1>5
<1>7. k > most
  <2>1. k \in Nat \ {0} /\ most \in Nat
    BY <1>2, <1>5
  <2>2. k \notin 1..most
    BY <1>3, <1>6
  <2>3. QED
    BY <2>1, <2>2
<1>8. \A i \in 1..most : i \in DOMAIN t /\ i < k
  BY <1>2, <1>5, <1>7
<1>9. QED
  BY <1>1, <1>2, <1>3, <1>6, <1>8

\* GatherProcessInfo (tools/process.go): for any number of processes that come and go
\* while their figures are read, no process that was there all along is left out of
\* a ranking in favour of one with a smaller share.
THEOREM RankingsAreRight == RSpec => []RankingsHold
<1>1. ReadsInv => RankingsHold
  <2> SUFFICES ASSUME ReadsInv, rtool = "process_info", rout # <<>>
               PROVE  RankingsHold
    BY DEF RankingsHold, Ended
  <2>1. /\ HistoryOf(life, Owners)
        /\ rargs \in RankArgs /\ DOMAIN got \subseteq Owners /\ left = {}
        /\ \A p \in Owners \ (DOMAIN got \cup left) : None \in was[p]
        /\ \A p \in DOMAIN got :
              got[p] \in Shares /\ (got[p] = use[p] \/ None \in was[p])
        /\ RankedAnswer
    BY DEF ReadsInv, RankInv
  <2>2. \A p \in Owners : Steady(p) => p \in DOMAIN got /\ got[p] = use[p]
    <3>1. \A p \in Owners : IsFiniteSet(was[p])
      BY <2>1 DEF HistoryOf
    <3>2. QED
      BY <2>1, <3>1, SteadyIsSome
  <2>3. rargs.limit \in Nat \ {0} /\ IsFiniteSet(DOMAIN got)
    BY <2>1, ReadsAssumption, FS_Subset
  <2>4. PICK byCPU \in Ranked("cpu"), byMemory \in Ranked("mem") :
            rout = CASE rargs.sort = "both" -> [cpu |-> byCPU, mem |-> byMemory]
                     [] rargs.sort = "memory" -> [mem |-> byMemory]
                     [] OTHER -> [cpu |-> byCPU]
    BY <2>1 DEF RankedAnswer
  <2>5. DOMAIN rout = CASE rargs.sort = "both" -> {"cpu", "mem"}
                        [] rargs.sort = "memory" -> {"mem"}
                        [] OTHER -> {"cpu"}
    BY <2>4
  <2>6. \A key \in DOMAIN rout : key \in {"cpu", "mem"} /\ rout[key] \in Ranked(key)
    BY <2>4
  <2>7. ASSUME NEW key \in DOMAIN rout, NEW p \in Owners,
               Steady(p), p \notin {rout[key][i] : i \in DOMAIN rout[key]}
        PROVE  /\ Len(rout[key]) = rargs.limit
               /\ \A i \in DOMAIN rout[key] :
                     Steady(rout[key][i]) => use[rout[key][i]][key] >= use[p][key]
    <3> DEFINE ranking == rout[key]
    <3>1. key \in {"cpu", "mem"} /\ ranking \in Ranked(key) /\ p \in DOMAIN got
      BY <2>2, <2>6, <2>7
    <3>2. \A i \in DOMAIN ranking : ranking[i] # p
      BY <2>7
    <3>3. \A q \in DOMAIN got : got[q] \in Shares
      BY <2>1
    <3> HIDE DEF ranking
    <3>4. /\ Len(ranking) = rargs.limit
          /\ \A i \in DOMAIN ranking :
                ranking[i] \in DOMAIN got /\ got[ranking[i]][key] >= got[p][key]
      BY <2>3, <3>1, <3>2, <3>3, RankingCut
    <3>5. \A i \in DOMAIN ranking : Steady(ranking[i]) =>
              use[ranking[i]] = got[ranking[i]] /\ use[p] = got[p]
      BY <2>1, <2>2, <2>7, <3>4
    <3>6. QED
      BY <3>4, <3>5 DEF ranking
  <2>8. QED
    BY <2>5, <2>7 DEF RankingsHold
<1>2. QED
  BY <1>1, ReadsInvariant, PTL

\* A list of connections with the names of their owners, cut to a number.
LEMMA NamedList ==
    ASSUME rows \in Seq(Conns), NEW most \in Nat, NEW list, list = Truncated(Named, most)
    PROVE  /\ DOMAIN list \in SUBSET DOMAIN rows /\ IsFiniteSet(DOMAIN list)
           /\ \A i \in DOMAIN list : list[i] = Named[i]
           /\ list \in Seq({Named[i] : i \in DOMAIN rows})
<1> DEFINE T == {Named[i] : i \in DOMAIN rows}
<1>1. /\ DOMAIN rows = 1..Len(rows) /\ Len(rows) \in Nat
      /\ DOMAIN Named = DOMAIN rows
  BY DEF Named
<1>2. Named \in Seq(T) /\ Len(Named) = Len(rows)
  <2>1. Named \in [1..Len(rows) -> T]
    BY <1>1 DEF Named
  <2>2. QED
    BY <1>1, <2>1
<1> HIDE DEF T
<1>3. CASE list = Named
  BY <1>1, <1>2, <1>3, FS_Interval DEF T
<1>4. CASE list = SubSeq(Named, 1, most) /\ Len(Named) > most
  <2>1. /\ list \in Seq(T) /\ DOMAIN list = 1..most
        /\ \A i \in 1..most : list[i] = Named[i]
    BY <1>1, <1>2, <1>4
  <2>2. \A i \in 1..most : i \in 1..Len(rows)
    BY <1>1, <1>2, <1>4
  <2>3. IsFiniteSet(1..most)
    BY FS_Interval
  <2>4. QED
    BY <1>1, <2>1, <2>2, <2>3 DEF T
<1>5. QED
  BY <1>3, <1>4 DEF Truncated

\* The groups of such a list: one for each pid in it, in ascending order, with its
\* connections, of which there is one at least.
LEMMA GroupsOfList ==
    ASSUME rows \in Seq(Conns), NEW most \in Nat, NEW list, list = Truncated(Named, most)
    PROVE  /\ \A k \in DOMAIN Groups(list) :
                 LET g == Groups(list)[k]
                 IN /\ g.conns # <<>>
                    /\ g.conns = Selected(list, PlacesOf(list, g.pid))
                    /\ \A i \in DOMAIN g.conns : g.conns[i].name = g.name
                    /\ k > 1 => Groups(list)[k - 1].pid < g.pid
           /\ \A i \in DOMAIN list :
                 \E k \in DOMAIN Groups(list) : Groups(list)[k].pid = list[i].pid
<1> DEFINE T == {Named[i] : i \in DOMAIN rows}
           owners == {list[i].pid : i \in DOMAIN list}
           pids == Ascending(owners)
           groups == Groups(list)
<1>1. /\ DOMAIN list \in SUBSET DOMAIN rows /\ IsFiniteSet(DOMAIN list)
      /\ \A i \in DOMAIN list : list[i] = Named[i]
  BY NamedList
<1>2. \A i \in DOMAIN rows : rows[i].pid \in Owners \cup {0}
  <2>1. \A i \in DOMAIN rows : rows[i] \in Conns
    OBVIOUS
  <2>2. QED
    BY <2>1 DEF Conns
<1>3. \A i \in DOMAIN rows : Named[i].pid = rows[i].pid
                            /\ Named[i].name = NameOf(Named[i].pid)
  BY DEF Named
<1>4. list \in Seq(T)
  BY NamedList
<1>5. /\ \A i \in DOMAIN list : list[i].name = NameOf(list[i].pid)
      /\ owners \subseteq Owners \cup {0}
  BY <1>1, <1>2, <1>3
<1> HIDE DEF T
<1>6. owners \in SUBSET Nat /\ IsFiniteSet(owners)
  <2>1. IsFiniteSet(Owners \cup {0}) /\ Owners \cup {0} \subseteq Nat
    BY ReadsAssumption, FS_AddElement
  <2>2. QED
    BY <1>5, <2>1, FS_Subset
<1>7. pids \in SetToSeqs(owners) /\ \A i, j \in DOMAIN pids : i < j => pids[i] < pids[j]
  BY <1>6, AscendingListing
<1>8. groups = [k \in DOMAIN pids |->
                   [pid |-> pids[k], name |-> NameOf(pids[k]),
                    conns |-> Selected(list, PlacesOf(list, pids[k]))]]
  BY DEF Groups
<1> HIDE DEF pids, owners, groups
<1>9. /\ \A k \in DOMAIN pids : pids[k] \in owners
      /\ \A p \in owners : \E k \in DOMAIN pids : pids[k] = p
      /\ DOMAIN pids = 1..Cardinality(owners) /\ Cardinality(owners) \in Nat
  BY <1>6, <1>7, ListingOfSet
<1>10. /\ DOMAIN groups = DOMAIN pids
       /\ \A k \in DOMAIN groups :
             /\ groups[k].pid = pids[k] /\ groups[k].name = NameOf(pids[k])
             /\ groups[k].conns = Selected(list, PlacesOf(list, pids[k]))
  BY <1>8
<1>11. ASSUME NEW k \in DOMAIN groups
       PROVE  /\ groups[k].conns # <<>>
              /\ \A i \in DOMAIN groups[k].conns :
                    groups[k].conns[i].name = groups[k].name
  <2> DEFINE places == PlacesOf(list, pids[k])
             kept == Selected(list, places)
  <2>1. places \in SUBSET DOMAIN list /\ \A i \in places : list[i].pid = pids[k]
    BY DEF PlacesOf
  <2>2. PICK i \in DOMAIN list : list[i].pid = pids[k]
    BY <1>9, <1>10 DEF owners
  <2>3. i \in places
    BY <2>2 DEF PlacesOf
  <2> HIDE DEF places
  <2>4. /\ \A n \in DOMAIN kept : \E j \in places : kept[n] = list[j]
        /\ \A j \in places : \E n \in DOMAIN kept : kept[n] = list[j]
    BY <1>4, <2>1, SelectedSlice
  <2>5. groups[k].conns = kept /\ groups[k].name = NameOf(pids[k])
    BY <1>10 DEF places
  <2> HIDE DEF kept
  <2>6. \A n \in DOMAIN kept : kept[n].name = NameOf(pids[k])
    BY <1>5, <2>1, <2>4
  <2>7. kept # <<>>
    BY <2>3, <2>4
  <2>8. QED
    BY <2>5, <2>6, <2>7
<1>12. \A k \in DOMAIN groups : k > 1 => groups[k - 1].pid < groups[k].pid
  <2> SUFFICES ASSUME NEW k \in DOMAIN groups, k > 1
               PROVE  groups[k - 1].pid < groups[k].pid
    OBVIOUS
  <2>1. k - 1 \in DOMAIN pids /\ k \in DOMAIN pids /\ k - 1 < k
    BY <1>9, <1>10
  <2>2. QED
    BY <1>7, <1>10, <2>1
<1>13. ASSUME NEW i \in DOMAIN list
       PROVE  \E k \in DOMAIN groups : groups[k].pid = list[i].pid
  <2>1. list[i].pid \in owners
    BY DEF owners
  <2>2. PICK k \in DOMAIN pids : pids[k] = list[i].pid
    BY <1>9, <2>1
  <2>3. QED
    BY <1>10, <2>2
<1>14. QED
  BY <1>10, <1>11, <1>12, <1>13 DEF groups

\* GatherNetworkConnections (tools/network.go): for any number of connections and of
\* processes that come and go while their names are read, and wherever the list is
\* cut, the groups are those of the connections shown, each connection in the one
\* of its owner, and a name that is told is one the owner had during the call.
THEOREM OwnersAreToldOnce == RSpec => []OwnersToldOnce
<1>1. ReadsInv => OwnersToldOnce
  <2> SUFFICES ASSUME ReadsInv, rtool = "connections", rout # <<>>
               PROVE  OwnersToldOnce
    BY DEF OwnersToldOnce, Ended
  <2>1. /\ HistoryOf(life, Owners)
        /\ rargs.max \in Nat /\ rows \in Seq(Conns) /\ left = {}
        /\ \A p \in DOMAIN got : got[p] \in was[p]
        /\ \A i \in DOMAIN rows : rows[i].pid # 0 =>
              rows[i].pid \in DOMAIN got \/ None \in was[rows[i].pid]
        /\ ConnsAnswer
    BY DEF ReadsInv, ConnsInv
  <2> DEFINE list == Truncated(Named, rargs.max)
  <2>2. /\ rout.list = list
        /\ rargs.grouped => rout.groups = Groups(list)
    BY <2>1 DEF ConnsAnswer
  <2>3. /\ DOMAIN list \in SUBSET DOMAIN rows
        /\ \A i \in DOMAIN list : list[i] = Named[i]
    BY <2>1, NamedList
  <2>4. \A i \in DOMAIN rows : Named[i].pid = rows[i].pid
                              /\ Named[i].name = NameOf(rows[i].pid)
    BY DEF Named
  <2>5. rargs.grouped =>
          /\ \A k \in DOMAIN Groups(list) :
                LET g == Groups(list)[k]
                IN /\ g.conns # <<>>
                   /\ g.conns = Selected(list, PlacesOf(list, g.pid))
                   /\ \A i \in DOMAIN g.conns : g.conns[i].name = g.name
                   /\ k > 1 => Groups(list)[k - 1].pid < g.pid
          /\ \A i \in DOMAIN list :
                \E k \in DOMAIN Groups(list) : Groups(list)[k].pid = list[i].pid
    BY <2>1, GroupsOfList
  <2> HIDE DEF list
  <2>6. ASSUME NEW i \in DOMAIN list, list[i].pid > 0
        PROVE  list[i].name \in was[list[i].pid]
    <3>1. /\ list[i].pid = rows[i].pid /\ list[i].name = NameOf(rows[i].pid)
          /\ rows[i].pid # 0 /\ i \in DOMAIN rows
      BY <2>3, <2>4, <2>6
    <3>2. QED
      BY <2>1, <3>1 DEF NameOf
  <2>7. QED
    BY <2>2, <2>5, <2>6 DEF OwnersToldOnce
<1>2. QED
  BY <1>1, ReadsInvariant, PTL

-----------------------------------------------------------------------------
(* The docker tools: what is to be shown.                                  *)

SecretFields == CommandFields \cup {EnvField, BareEnv}

\* The inductive invariant: the client is open while fn runs, the body of the log
\* while it is read, and nothing that was collected so far is a secret.
DockerInv ==
    /\ dtool \in Tool \cup {"none"}
    /\ dpc \in {"idle", "dial", "ask", "stream", "dial again", "ask again", "done"}
    /\ dpc \in {"ask", "ask again", "stream"} => clients = 1
    /\ dpc \notin {"ask", "ask again", "stream"} => clients = 0
    /\ dpc = "stream" => streams = 1
    /\ dpc # "stream" => streams = 0
    /\ NothingDisclosed

\* Whether a set of facts gives nothing away.
Harmless(facts) == \A f \in facts : f.field \in SecretFields => f.value = Redacted

\* What is kept without a secret field, or masked, gives nothing away.
LEMMA KeptIsHarmless ==
    ASSUME NEW facts, NEW fields, fields \cap SecretFields = {}
    PROVE  Harmless(Kept(facts, fields))
BY DEF Harmless, Kept

LEMMA MaskedIsHarmless ==
    ASSUME NEW t, NEW facts \in Replies(t), NEW fields
    PROVE  Harmless(Masked(facts, fields))
<1>1. \A f \in facts : \E x, v : f = [field |-> x, value |-> v]
  BY DEF Replies
<1>2. ASSUME NEW g \in Masked(facts, fields) PROVE g.value = Redacted
  <2>1. PICK f \in facts : g = [f EXCEPT !.value = Redacted]
    BY DEF Masked, Kept
  <2>2. PICK x, v : f = [field |-> x, value |-> v]
    BY <1>1
  <2>3. QED
    BY <2>1, <2>2
<1>3. QED
  BY <1>2 DEF Harmless

\* So is every answer about an object.
LEMMA AnswersAreHarmless ==
    ASSUME NEW t \in Tool \ {"logs", "info"}, NEW facts \in Replies(t)
    PROVE  Harmless(AnswerOf(t, facts))
<1>1. \A fields : Harmless(Masked(facts, fields))
  BY MaskedIsHarmless
<1>2. \A fields : fields \cap SecretFields = {} => Harmless(Kept(facts, fields))
  BY KeptIsHarmless
<1>3. ASSUME NEW A, NEW B, Harmless(A), Harmless(B) PROVE Harmless(A \cup B)
  BY <1>3 DEF Harmless
<1>4. Harmless(redactSensitiveEnv(facts))
  BY <1>1 DEF redactSensitiveEnv
<1>5. Harmless(GatherContainerDetail(facts))
  <2> DEFINE fields == ContainerFields \ (CommandFields \cup {EnvField, BareEnv})
             kept == Kept(facts, fields)
             masked == Masked(facts, {"path"})
             environment == redactSensitiveEnv(facts)
  <2>1. fields \cap SecretFields = {}
    BY DEF SecretFields
  <2>2. Harmless(kept) /\ Harmless(masked) /\ Harmless(environment)
    BY <1>1, <1>2, <1>4, <2>1
  <2>3. GatherContainerDetail(facts) = (kept \cup environment) \cup masked
    BY DEF GatherContainerDetail
  <2> HIDE DEF fields, kept, masked, environment
  <2>4. Harmless(kept \cup environment)
    BY <1>3, <2>2
  <2>5. QED
    BY <1>3, <2>2, <2>3, <2>4
<1>6. Harmless(GatherImageHistory(facts))
  <2> DEFINE fields == LayerFields \ {"created_by"}
             kept == Kept(facts, fields)
             masked == Masked(facts, {"created_by"})
  <2>1. fields \cap SecretFields = {}
    BY DEF SecretFields, LayerFields, CommandFields, EnvField, BareEnv
  <2>2. Harmless(kept) /\ Harmless(masked)
    BY <1>1, <1>2, <2>1
  <2>3. GatherImageHistory(facts) = kept \cup masked
    BY DEF GatherImageHistory
  <2> HIDE DEF fields, kept, masked
  <2>4. QED
    BY <1>3, <2>2, <2>3
<1>7. Harmless(GatherImageDetail(facts))
  <2> DEFINE fields == ImageFields \ {EnvField, BareEnv, "entrypoint", "cmd"}
             kept == Kept(facts, fields)
             environment == redactSensitiveEnv(facts)
  <2>1. fields \cap SecretFields = {}
    BY DEF SecretFields, ImageFields, CommandFields, EnvField, BareEnv
  <2>2. Harmless(kept) /\ Harmless(environment)
    BY <1>2, <1>4, <2>1
  <2>3. GatherImageDetail(facts) = kept \cup environment
    BY DEF GatherImageDetail
  <2> HIDE DEF fields, kept, environment
  <2>4. QED
    BY <1>3, <2>2, <2>3
<1>8. /\ Harmless(GatherContainerTop(facts))
      /\ Harmless(GatherContainerDiff(facts))
      /\ Harmless(GatherDockerNetworks(facts))
      /\ Harmless(GatherDockerVolumes(facts))
      /\ Harmless(GatherDockerSystemInfo(facts))
      /\ Harmless(GatherDockerDiskUsage(facts))
  <2>1. /\ {"pid", "ppid", "user", "stat", "comm"} \cap SecretFields = {}
        /\ {"kind", "path_changed"} \cap SecretFields = {}
        /\ {"id", "name", "driver", "labels"} \cap SecretFields = {}
        /\ {"name", "driver", "size", "labels"} \cap SecretFields = {}
        /\ {"id", "server_version", "runtimes"} \cap SecretFields = {}
        /\ {"total_size", "reclaimable"} \cap SecretFields = {}
    BY DEF SecretFields, CommandFields, EnvField, BareEnv
  <2>2. QED
    BY <1>2, <2>1
    DEF GatherContainerTop, GatherContainerDiff, GatherDockerNetworks,
        GatherDockerVolumes, GatherDockerSystemInfo, GatherDockerDiskUsage
<1>9. t \in {"details", "top", "diff", "history", "image", "networks", "volumes",
             "system_info", "disk_usage"}
  BY DEF Tool, WithId
<1>10. QED
  BY <1>5, <1>6, <1>7, <1>8, <1>9 DEF AnswerOf

-----------------------------------------------------------------------------
(* The docker tools: the steps and the theorems.                           *)

\* A failure gives nothing away, and neither does a list of containers or images.
LEMMA ListsAreHarmless ==
    ASSUME NEW facts
    PROVE  /\ Harmless(Failure) /\ Harmless({})
           /\ Harmless(ListDockerContainers(facts))
           /\ Harmless(ListDockerImages(facts))
<1>1. /\ {"id", "name", "image", "status"} \cap SecretFields = {}
      /\ {"repository", "tag", "id", "size"} \cap SecretFields = {}
      /\ "error" \notin SecretFields
  BY DEF SecretFields, CommandFields, EnvField, BareEnv
<1>2. Harmless(Failure) /\ Harmless({})
  BY <1>1 DEF Harmless, Failure
<1>3. /\ Harmless(ListDockerContainers(facts))
      /\ Harmless(ListDockerImages(facts))
  BY <1>1, KeptIsHarmless DEF ListDockerContainers, ListDockerImages
<1>4. QED
  BY <1>2, <1>3

\* Every step keeps the invariant: what opens a client comes when none is open, and
\* what leaves fn closes it.
LEMMA NextDockerInv == DockerInv /\ [DNext]_dvars => DockerInv'
<1> SUFFICES ASSUME DockerInv, [DNext]_dvars PROVE DockerInv'
  OBVIOUS
<1>1. Harmless(dout) /\ (NothingDisclosed' <=> Harmless(dout'))
  BY DEF DockerInv, NothingDisclosed, Harmless, SecretFields
<1>2. /\ dtool \in Tool \cup {"none"}
      /\ dpc \in {"idle", "dial", "ask", "stream", "dial again", "ask again", "done"}
      /\ dpc \in {"ask", "ask again", "stream"} => clients = 1
      /\ dpc \notin {"ask", "ask again", "stream"} => clients = 0
      /\ dpc = "stream" => streams = 1
      /\ dpc # "stream" => streams = 0
  BY DEF DockerInv
<1>3. Harmless(Failure) /\ Harmless({})
  BY ListsAreHarmless
<1>4. ASSUME NEW t \in Tool, NEW id, NEW tail, Handle(t, id, tail)
      PROVE  DockerInv'
  BY <1>1, <1>2, <1>3, <1>4 DEF Handle, DockerInv
<1>5. CASE DaemonGone
  BY <1>1, <1>2, <1>5 DEF DaemonGone, DockerInv
<1>6. CASE Dial
  <2>1. CASE /\ ~gone /\ clients' = clients + 1
             /\ dpc' = IF dpc = "dial" THEN "ask" ELSE "ask again"
             /\ UNCHANGED dout
    <3>1. /\ dpc \in {"dial", "dial again"} /\ dpc' \in {"ask", "ask again"}
          /\ UNCHANGED <<dtool, streams>>
      BY <1>6, <2>1 DEF Dial
    <3>2. clients = 0 /\ streams' = 0
      BY <1>2, <3>1
    <3>3. clients' = 1
      <4>1. clients' = clients + 1
        BY <2>1
      <4>2. QED
        BY <3>2, <4>1
    <3>4. QED
      BY <1>1, <1>2, <2>1, <3>1, <3>2, <3>3 DEF DockerInv
  <2>2. CASE dpc' = "done" /\ dout' = Failure /\ UNCHANGED clients
    BY <1>1, <1>2, <1>3, <1>6, <2>2 DEF Dial, DockerInv
  <2>3. QED
    BY <1>6, <2>1, <2>2 DEF Dial
<1>7. CASE AskFails
  <2>1. /\ dpc \in {"ask", "ask again"} /\ dpc' = "done" /\ dout' = Failure
        /\ UNCHANGED <<dtool, streams>>
    BY <1>7 DEF AskFails, withDockerClient
  <2>2. clients = 1 /\ streams' = 0
    BY <1>2, <2>1
  <2>3. clients' = 0
    <3>1. clients' = clients - 1
      BY <1>7 DEF AskFails, withDockerClient
    <3>2. QED
      BY <2>2, <3>1
  <2>4. QED
    BY <1>1, <1>2, <1>3, <2>1, <2>2, <2>3 DEF DockerInv
<1>8. CASE OpenLogs
  BY <1>1, <1>2, <1>8 DEF OpenLogs, DockerInv
<1>9. CASE GatherContainerLogs
  <2>1. /\ dpc = "stream" /\ clients = 1 /\ streams = 1 /\ dtool' = dtool
    BY <1>2, <1>9 DEF GatherContainerLogs
  <2>2. CASE /\ dout' = dout \cup {[field |-> "line", value |-> logTail]}
             /\ UNCHANGED <<dpc, clients, streams>>
    <3>1. "line" \notin SecretFields
      BY DEF SecretFields, CommandFields, EnvField, BareEnv
    <3>2. Harmless(dout')
      BY <1>1, <2>2, <3>1 DEF Harmless
    <3>3. QED
      BY <1>1, <1>2, <2>1, <2>2, <3>2 DEF DockerInv
  <2>3. CASE streams' = streams - 1 /\ withDockerClient(dout, "done")
    BY <1>1, <1>2, <2>1, <2>3 DEF withDockerClient, DockerInv
  <2>4. CASE streams' = streams - 1 /\ withDockerClient(Failure, "done")
    BY <1>1, <1>2, <1>3, <2>1, <2>4 DEF withDockerClient, DockerInv
  <2>5. QED
    BY <1>9, <2>2, <2>3, <2>4 DEF GatherContainerLogs
<1>10. CASE DReturn
  BY <1>1, <1>2, <1>3, <1>10 DEF DReturn, DockerInv
<1>11. ASSUME dtool \notin {"none", "logs"}, NEW facts \in Replies(dtool), AskObject(facts)
       PROVE  DockerInv'
  <2>1. dtool \in Tool \ {"logs", "info"}
    BY <1>2, <1>11 DEF AskObject
  <2>2. Harmless(AnswerOf(dtool, facts))
    BY <2>1, AnswersAreHarmless
  <2>3. /\ dpc = "ask" /\ clients' = clients - 1 /\ dpc' = "done"
        /\ dout' = AnswerOf(dtool, facts) /\ dtool' = dtool /\ streams' = streams
    BY <1>11 DEF AskObject, withDockerClient
  <2>4. QED
    BY <1>1, <1>2, <2>2, <2>3 DEF DockerInv
<1>12. ASSUME NEW facts, GatherDockerInfo(facts) PROVE DockerInv'
  <2>1. /\ Harmless(ListDockerContainers(facts))
        /\ Harmless(ListDockerImages(facts))
    BY ListsAreHarmless
  <2>2. dtool' = dtool /\ streams' = streams /\ dpc \in {"ask", "ask again"}
    BY <1>12 DEF GatherDockerInfo
  <2>3. clients = 1 /\ streams = 0
    BY <1>2, <2>2
  <2>4. clients' = 0
    <3>1. clients' = clients - 1
      BY <1>12 DEF GatherDockerInfo, withDockerClient
    <3>2. QED
      BY <2>3, <3>1
  <2>5. CASE /\ dpc = "ask"
             /\ withDockerClient(ListDockerContainers(facts), "dial again")
    BY <1>1, <1>2, <2>1, <2>2, <2>3, <2>4, <2>5 DEF withDockerClient, DockerInv
  <2>6. CASE /\ dpc = "ask again"
             /\ withDockerClient(dout \cup ListDockerImages(facts), "done")
    <3>1. Harmless(dout \cup ListDockerImages(facts))
      BY <1>1, <2>1 DEF Harmless
    <3>2. QED
      BY <1>1, <1>2, <2>2, <2>3, <2>4, <2>6, <3>1 DEF withDockerClient, DockerInv
  <2>7. QED
    BY <1>12, <2>5, <2>6 DEF GatherDockerInfo
<1>13. CASE UNCHANGED dvars
  BY <1>1, <1>2, <1>13 DEF dvars, DockerInv
<1>14. QED
  BY <1>4, <1>5, <1>6, <1>7, <1>8, <1>9, <1>10, <1>11, <1>12, <1>13 DEF DNext

\* The invariant holds for any values, logs and tails, wherever a call is cut.
THEOREM DockerInvariant == DSpec => []DockerInv
<1>1. DInit => DockerInv
  <2>1. DInit => NothingDisclosed
    BY DEF DInit, NothingDisclosed
  <2>2. QED
    BY <2>1 DEF DInit, DockerInv
<1>2. QED
  BY <1>1, NextDockerInv, PTL DEF DSpec

\* withDockerClient: neither a client nor the body of a log outlives its call, and no
\* call holds two clients at once.
THEOREM EverythingIsClosed == DSpec => []NothingHeld
<1>1. DockerInv => NothingHeld
  <2> SUFFICES ASSUME DockerInv PROVE NothingHeld
    OBVIOUS
  <2>1. /\ clients \in {0, 1} /\ streams \in {0, 1}
        /\ streams = 1 => clients = 1
        /\ dpc \in {"idle", "done"} => clients = 0 /\ streams = 0
    BY DEF DockerInv
  <2>2. QED
    BY <2>1 DEF NothingHeld
<1>2. QED
  BY <1>1, DockerInvariant, PTL

\* "Environment values and raw command arguments are omitted" (docs/tools.md): no
\* answer of a docker tool has one, whatever the daemon tells.
THEOREM SecretsStay == DSpec => []NothingDisclosed
<1>1. DockerInv => NothingDisclosed
  BY DEF DockerInv
<1>2. QED
  BY <1>1, DockerInvariant, PTL

-----------------------------------------------------------------------------
(* The manual pages.                                                       *)

Glyphs == [char : Chars, style : Styles]

\* The lines that a client with these arguments is to have.
WantedLines == Filtered(ContextLines(asked.context))

\* The clean-up: the buffer has the characters of the glyphs that are done, and one
\* byte more between a byte and the backspace behind it.
CleanInv ==
    /\ line \in Seq(Glyphs)
    /\ pos \in [glyph : Nat \ {0}, byte : Nat \ {0}] /\ pos.glyph <= Len(line) + 1
    /\ IF Clean THEN pos.byte = 1 ELSE pos.byte <= Len(Bytes(line[pos.glyph]))
    /\ shown \in Seq(Chars \cup {Underscore})
    /\ Len(shown) = pos.glyph - IF pos.byte \in {2, 4} THEN 0 ELSE 1
    /\ \A i \in 1..pos.glyph - 1 : shown[i] = line[i].char

\* The pages: the client has what was wanted up to the next offset, and goes on
\* from within the text.
PagedInv ==
    /\ page \in [len : Nat, hits : SUBSET Nat, search : BOOLEAN]
    /\ asked \in [max : Int, context : Int, from : Nat]
    /\ mpc = "asking" =>
         /\ offset \in Nat /\ asked.from <= offset
         /\ offset = 0 \/ offset < Len(WantedLines)
         /\ had = SubSeq(WantedLines, asked.from + 1, offset)
    /\ mpc = "done" => had = SubSeq(WantedLines, asked.from + 1, Len(WantedLines))

\* The inductive invariant of a page that is read.
ManInv ==
    /\ mpc \in {"free", "asking", "done"} /\ CleanInv /\ PagedInv
    /\ mpc = "free" => pos = FirstByte /\ shown = <<>> /\ had = <<>>

\* The bytes of a glyph: every second one is a backspace, and the last one the
\* character.
LEMMA BytesOfGlyph ==
    ASSUME NEW g \in Glyphs
    PROVE  /\ Len(Bytes(g)) \in {1, 3, 5} /\ Bytes(g)[Len(Bytes(g))] = g.char
           /\ \A b \in 1..Len(Bytes(g)) :
                 IF b \in {2, 4} THEN Bytes(g)[b] = BS
                 ELSE Bytes(g)[b] \in (Chars \cup {Underscore}) \ {BS}
<1>1. g.style \in Styles /\ g.char \in Chars /\ BS \notin Chars \cup {Underscore}
  BY ManAssumption DEF Glyphs, BS, Underscore
<1> DEFINE c == g.char
           u == Underscore
<1>2. CASE g.style = "plain"
  <2>1. Bytes(g) = <<c>>
    BY <1>2 DEF Bytes
  <2> HIDE DEF c, u
  <2>2. Len(Bytes(g)) = 1 /\ Bytes(g)[1] = c
    BY <2>1
  <2>3. QED
    BY <1>1, <2>2 DEF c
<1>3. CASE g.style = "bold"
  <2>1. Bytes(g) = <<c, BS, c>>
    BY <1>3 DEF Bytes
  <2> HIDE DEF c, u
  <2>2. Len(Bytes(g)) = 3 /\ Bytes(g)[1] = c /\ Bytes(g)[2] = BS /\ Bytes(g)[3] = c
    BY <2>1
  <2>3. QED
    BY <1>1, <2>2 DEF c
<1>4. CASE g.style = "underlined"
  <2>1. Bytes(g) = <<u, BS, c>>
    BY <1>4 DEF Bytes
  <2> HIDE DEF c, u
  <2>2. Len(Bytes(g)) = 3 /\ Bytes(g)[1] = u /\ Bytes(g)[2] = BS /\ Bytes(g)[3] = c
    BY <2>1
  <2>3. QED
    BY <1>1, <2>2 DEF c, u
<1>5. CASE g.style = "both"
  <2>1. Bytes(g) = <<u, BS, c, BS, c>>
    BY <1>5 DEF Bytes
  <2> HIDE DEF c, u
  <2>2. /\ Len(Bytes(g)) = 5 /\ Bytes(g)[1] = u /\ Bytes(g)[2] = BS
        /\ Bytes(g)[3] = c /\ Bytes(g)[4] = BS /\ Bytes(g)[5] = c
    BY <2>1
  <2>3. QED
    BY <1>1, <2>2 DEF c, u
<1>6. QED
  BY <1>1, <1>2, <1>3, <1>4, <1>5 DEF Styles

\* What is left of a sequence without its last element.
LEMMA FrontOf ==
    ASSUME NEW T, NEW s \in Seq(T), s # <<>>
    PROVE  /\ Front(s) \in Seq(T) /\ Len(Front(s)) = Len(s) - 1
           /\ \A i \in 1..Len(s) - 1 : Front(s)[i] = s[i]
<1>1. PICK m \in Nat : m = Len(s) - 1
  OBVIOUS
<1>2. Front(s) = SubSeq(s, 1, m) /\ m <= Len(s) /\ Len(s) \in Nat
  BY <1>1 DEF Front
<1>3. /\ SubSeq(s, 1, m) \in Seq(T) /\ Len(SubSeq(s, 1, m)) = m
      /\ \A i \in 1..m : SubSeq(s, 1, m)[i] = s[i]
  BY <1>1, <1>2
<1>4. QED
  BY <1>1, <1>2, <1>3

\* One byte: a plain one is added, a backspace takes the one before it away, and
\* that is there.
LEMMA CleanKept == ManInv /\ cleanManOutput => CleanInv' /\ mpc' = mpc
<1> SUFFICES ASSUME ManInv, cleanManOutput PROVE CleanInv' /\ mpc' = mpc
  OBVIOUS
<1> DEFINE g == line[pos.glyph]
           n == Len(Bytes(g))
           b == pos.byte
<1>1. /\ line \in Seq(Glyphs) /\ pos.glyph \in Nat \ {0} /\ b \in Nat \ {0}
      /\ pos.glyph <= Len(line) /\ b <= n
      /\ pos = [glyph |-> pos.glyph, byte |-> b]
      /\ shown \in Seq(Chars \cup {Underscore})
      /\ Len(shown) = pos.glyph - IF b \in {2, 4} THEN 0 ELSE 1
      /\ \A i \in 1..pos.glyph - 1 : shown[i] = line[i].char
  BY DEF ManInv, CleanInv, cleanManOutput, Clean
<1>2. /\ pos' = Place(b + 1) /\ line' = line
      /\ shown' = IF Backspace THEN Front(shown) ELSE Append(shown, Byte)
      /\ mpc' = IF Backspace /\ shown = <<>> THEN "panicked" ELSE mpc
  BY DEF cleanManOutput
<1>3. g \in Glyphs
  BY <1>1
<1>4. /\ n \in {1, 3, 5} /\ Bytes(g)[n] = g.char
      /\ IF b \in {2, 4} THEN Byte = BS
         ELSE Byte \in (Chars \cup {Underscore}) \ {BS}
  <2>1. b \in 1..n
    BY <1>1, <1>3, BytesOfGlyph
  <2>2. QED
    BY <1>3, <2>1, BytesOfGlyph DEF Byte
<1>5. Backspace <=> b \in {2, 4}
  BY <1>1, <1>4 DEF Backspace, FirstByte
<1>6. pos' = IF b < n THEN [glyph |-> pos.glyph, byte |-> b + 1]
            ELSE [glyph |-> pos.glyph + 1, byte |-> 1]
  BY <1>1, <1>2, <1>4 DEF Place
<1> HIDE DEF g, n, b
<1>7. CASE b \in {2, 4}
  <2>1. shown' = Front(shown) /\ Len(shown) = pos.glyph /\ b < n /\ mpc' = mpc /\ shown # <<>>
    <3>1. Len(shown) = pos.glyph /\ b < n
      BY <1>1, <1>4, <1>7
    <3>2. shown # <<>>
      BY <1>1, <3>1
    <3>3. QED
      BY <1>2, <1>5, <1>7, <3>1, <3>2
  <2>2. /\ shown' \in Seq(Chars \cup {Underscore}) /\ Len(shown') = pos.glyph - 1
        /\ \A i \in 1..pos.glyph - 1 : shown'[i] = shown[i]
    BY <1>1, <2>1, FrontOf
  <2>3. pos' = [glyph |-> pos.glyph, byte |-> b + 1] /\ b + 1 <= n /\ b + 1 \in {3, 5}
    BY <1>1, <1>4, <1>6, <1>7, <2>1
  <2>4. pos'.glyph = pos.glyph /\ pos'.byte = b + 1 /\ pos' \in [glyph : Nat \ {0}, byte : Nat \ {0}]
    BY <1>1, <2>3
  <2>5. QED
    <3>1. ~Clean' /\ pos'.byte <= Len(Bytes(line'[pos'.glyph]))
      BY <1>1, <1>2, <2>3, <2>4 DEF Clean, n, g
    <3>2. Len(shown') = pos'.glyph - 1 /\ pos'.byte \notin {2, 4}
      BY <2>2, <2>3, <2>4
    <3>3. \A i \in 1..pos'.glyph - 1 : shown'[i] = line'[i].char
      BY <1>1, <1>2, <2>2, <2>4
    <3>4. CleanInv'
      BY <1>1, <1>2, <2>2, <2>4, <3>1, <3>2, <3>3 DEF CleanInv
    <3>5. QED
      BY <2>1, <3>4
<1>8. CASE b \notin {2, 4}
  <2>1. shown' = Append(shown, Byte) /\ mpc' = mpc /\ Len(shown) = pos.glyph - 1
    BY <1>1, <1>2, <1>5, <1>8
  <2>2. /\ shown' \in Seq(Chars \cup {Underscore}) /\ Len(shown') = pos.glyph
        /\ \A i \in 1..pos.glyph - 1 : shown'[i] = shown[i]
        /\ shown'[pos.glyph] = Byte
    BY <1>1, <1>4, <1>8, <2>1
  <2>3. CASE b < n
    <3>1. pos' = [glyph |-> pos.glyph, byte |-> b + 1] /\ b + 1 <= n /\ b + 1 \in {2, 4}
      BY <1>1, <1>4, <1>6, <1>8, <2>3
    <3>2. pos'.glyph = pos.glyph /\ pos'.byte = b + 1 /\ pos' \in [glyph : Nat \ {0}, byte : Nat \ {0}]
      BY <1>1, <3>1
    <3>3. ~Clean' /\ pos'.byte <= Len(Bytes(line'[pos'.glyph]))
      BY <1>1, <1>2, <3>1, <3>2 DEF Clean, n, g
    <3>4. /\ Len(shown') = pos'.glyph - IF pos'.byte \in {2, 4} THEN 0 ELSE 1
          /\ pos'.glyph <= Len(line') + 1
      BY <1>1, <1>2, <2>2, <3>1, <3>2
    <3>5. \A i \in 1..pos'.glyph - 1 : shown'[i] = line'[i].char
      BY <1>1, <1>2, <2>2, <3>2
    <3>6. CleanInv'
      BY <1>1, <1>2, <2>2, <3>2, <3>3, <3>4, <3>5 DEF CleanInv
    <3>7. QED
      BY <2>1, <3>6
  <2>4. CASE b = n
    <3>1. pos' = [glyph |-> pos.glyph + 1, byte |-> 1]
      BY <1>4, <1>6, <2>4
    <3>2. /\ pos'.glyph = pos.glyph + 1 /\ pos'.byte = 1
          /\ pos' \in [glyph : Nat \ {0}, byte : Nat \ {0}]
      BY <1>1, <3>1
    <3>3. shown'[pos.glyph] = line[pos.glyph].char
      BY <1>4, <2>2, <2>4 DEF Byte, g, b
    <3>4. \A i \in 1..pos.glyph : shown'[i] = line[i].char
      BY <1>1, <2>2, <3>3
    <3>5. IF Clean' THEN pos'.byte = 1 ELSE pos'.byte <= Len(Bytes(line'[pos'.glyph]))
      <4>1. CASE Clean'
        BY <3>2, <4>1
      <4>2. CASE ~Clean'
        <5>1. PICK next : next = line[pos.glyph + 1]
          OBVIOUS
        <5>2. next \in Glyphs /\ line'[pos'.glyph] = next
          BY <1>1, <1>2, <3>2, <4>2, <5>1 DEF Clean
        <5>3. PICK m : m = Len(Bytes(next)) /\ m \in {1, 3, 5}
          BY <5>2, BytesOfGlyph
        <5>4. pos'.byte <= m
          BY <3>2, <5>3
        <5>5. QED
          BY <4>2, <5>2, <5>3, <5>4
      <4>3. QED
        BY <4>1, <4>2
    <3>6. QED
      BY <1>1, <1>2, <2>1, <2>2, <3>2, <3>4, <3>5 DEF CleanInv
  <2>5. QED
    BY <1>1, <1>4, <2>3, <2>4
<1>9. QED
  BY <1>7, <1>8

\* The parts of a sequence: two that follow each other, one of another, all of it.
LEMMA PartsJoin ==
    ASSUME NEW T, NEW s \in Seq(T), NEW i \in Nat, NEW j \in Nat, NEW k \in Nat,
           i <= j, j <= k, k <= Len(s)
    PROVE  SubSeq(s, i + 1, j) \o SubSeq(s, j + 1, k) = SubSeq(s, i + 1, k)
<1> DEFINE a == SubSeq(s, i + 1, j)
           b == SubSeq(s, j + 1, k)
           c == SubSeq(s, i + 1, k)
           p == j - i
           q == k - j
<1>1. /\ Len(s) \in Nat /\ j <= Len(s) /\ \A n \in 1..Len(s) : s[n] \in T
      /\ p \in Nat /\ q \in Nat /\ k - i = p + q
  OBVIOUS
<1>2. a \in Seq(T) /\ Len(a) = p /\ \A n \in 1..p : a[n] = s[i + n]
  BY <1>1
<1>3. b \in Seq(T) /\ Len(b) = q /\ \A n \in 1..q : b[n] = s[j + n]
  BY <1>1
<1>4. c \in Seq(T) /\ Len(c) = p + q /\ \A n \in 1..p + q : c[n] = s[i + n]
  BY <1>1
<1>5. \A n \in 1..q : j + n = i + (p + n)
  OBVIOUS
<1> HIDE DEF a, b, c, p, q
<1>6. /\ a \o b \in Seq(T) /\ Len(a \o b) = p + q
      /\ \A n \in 1..p + q : (a \o b)[n] = IF n <= p THEN a[n] ELSE b[n - p]
  BY <1>2, <1>3, ConcatProperties
<1>7. ASSUME NEW n \in 1..p + q PROVE (a \o b)[n] = c[n]
  <2>1. CASE n <= p
    <3>1. n \in 1..p
      BY <1>1, <2>1
    <3>2. QED
      BY <1>2, <1>4, <1>6, <2>1, <3>1
  <2>2. CASE ~(n <= p)
    <3>1. n - p \in 1..q /\ p + (n - p) = n
      BY <1>1, <2>2
    <3>2. b[n - p] = s[i + n]
      BY <1>3, <1>5, <3>1
    <3>3. QED
      BY <1>4, <1>6, <2>2, <3>2
  <2>3. QED
    BY <2>1, <2>2
<1>8. a \o b = c
  BY <1>4, <1>6, <1>7, SeqEqual
<1>9. QED
  BY <1>8 DEF a, b, c

\* A part is cut at the same place as the whole.
LEMMA PartOfPart ==
    ASSUME NEW T, NEW s \in Seq(T), NEW i \in Nat, NEW m \in Nat, i + m <= Len(s)
    PROVE  /\ SubSeq(SubSeq(s, i + 1, Len(s)), 1, m) = SubSeq(s, i + 1, i + m)
           /\ Len(SubSeq(s, i + 1, Len(s))) = Len(s) - i
<1> DEFINE a == SubSeq(s, i + 1, Len(s))
           b == SubSeq(s, i + 1, i + m)
<1>1. Len(s) \in Nat /\ m <= Len(s) - i
  OBVIOUS
<1>2. /\ a \in Seq(T) /\ Len(a) = Len(s) - i
      /\ \A n \in 1..Len(s) - i : a[n] = s[i + n]
  BY <1>1
<1>3. /\ b \in Seq(T) /\ Len(b) = m
      /\ \A n \in 1..m : b[n] = s[i + n]
  BY <1>1
<1> HIDE DEF a, b
<1>4. /\ SubSeq(a, 1, m) \in Seq(T) /\ Len(SubSeq(a, 1, m)) = m
      /\ \A n \in 1..m : SubSeq(a, 1, m)[n] = a[n]
  BY <1>1, <1>2
<1>5. \A n \in 1..m : SubSeq(a, 1, m)[n] = b[n]
  BY <1>1, <1>2, <1>3, <1>4
<1>6. SubSeq(a, 1, m) = b
  BY <1>3, <1>4, <1>5, SeqEqual
<1>7. QED
  BY <1>2, <1>6 DEF a, b

\* The numbers of some lines of a page.
LEMMA LineNumbers ==
    ASSUME NEW n \in Nat, NEW S \in SUBSET (1..n)
    PROVE  Ascending(S) \in Seq(Nat)
<1>1. S \in SUBSET Nat /\ IsFiniteSet(S)
  <2>1. IsFiniteSet(1..n) /\ 1..n \in SUBSET Nat
    BY FS_Interval
  <2>2. IsFiniteSet(S)
    BY <2>1, FS_Subset
  <2>3. QED
    BY <2>1, <2>2
<1>2. PICK s : s = Ascending(S)
  OBVIOUS
<1>3. s \in Seq(S)
  <2>1. s \in SetToSeqs(S)
    BY <1>1, <1>2, AscendingListing
  <2>2. QED
    BY <1>1, <2>1, ListingOfSet
<1>4. s \in Seq(Nat)
  <2>1. /\ s \in [1..Len(s) -> S] /\ Len(s) \in Nat
    BY <1>3
  <2>2. s \in [1..Len(s) -> Nat]
    BY <1>1, <2>1
  <2>3. QED
    BY <2>1, <2>2
<1>5. QED
  BY <1>2, <1>4

\* A page is opened: nothing of it is there yet.
LEMMA OpenKept ==
    ASSUME ManInv, NEW p \in [len : Nat, hits : SUBSET Nat, search : BOOLEAN],
           NEW a \in [max : Int, context : Int, from : Nat], NEW l \in Seq(Glyphs),
           OpenPage(p, a, l)
    PROVE  ManInv'
<1>1. /\ mpc' = "asking" /\ page' = p /\ asked' = a /\ offset' = a.from
      /\ a.from = 0 \/ a.from < Len(Filtered(ContextLines(a.context)))'
      /\ line' = l /\ pos' = FirstByte /\ shown' = <<>> /\ had' = <<>>
  BY DEF OpenPage, ManInv
<1>2. CleanInv'
  <2>1. Len(l) \in Nat /\ FirstByte.glyph = 1 /\ FirstByte.byte = 1
        /\ FirstByte \in [glyph : Nat \ {0}, byte : Nat \ {0}]
    BY DEF FirstByte
  <2>2. Len(l) >= 1 => 1 <= Len(Bytes(l[1]))
    <3> SUFFICES ASSUME Len(l) >= 1 PROVE 1 <= Len(Bytes(l[1]))
      OBVIOUS
    <3>1. PICK g \in Glyphs : g = l[1]
      OBVIOUS
    <3>2. PICK m : m = Len(Bytes(g)) /\ m \in {1, 3, 5}
      BY BytesOfGlyph
    <3>3. 1 <= m
      BY <3>2
    <3>4. QED
      BY <3>1, <3>2, <3>3
  <2>3. IF Clean' THEN pos'.byte = 1 ELSE pos'.byte <= Len(Bytes(line'[pos'.glyph]))
    BY <1>1, <2>1, <2>2 DEF Clean
  <2>4. QED
    BY <1>1, <2>1, <2>3 DEF CleanInv
<1>3. PICK all \in Seq(Nat) : all = WantedLines'
  <2>1. PICK S \in SUBSET (1..page'.len) : WantedLines' = Ascending(S)
    BY DEF WantedLines, Filtered
  <2>2. page'.len \in Nat
    BY <1>1
  <2>3. QED
    BY <2>1, <2>2, LineNumbers
<1>4. a.from = 0 \/ a.from < Len(all)
  BY <1>1, <1>3 DEF WantedLines, Filtered, ContextLines
<1>5. had' = SubSeq(all, a.from + 1, a.from)
  BY <1>1, <1>3
<1>6. PagedInv'
  <2>1. /\ asked'.from = a.from /\ offset' = a.from /\ a.from \in Nat
        /\ mpc' = "asking" /\ page' = p /\ asked' = a
    BY <1>1
  <2>2. QED
    BY <1>3, <1>4, <1>5, <2>1 DEF PagedInv
<1>7. QED
  BY <1>1, <1>2, <1>6 DEF ManInv

\* A call: the client gets the lines behind those that it has.
LEMMA CallKept == ManInv /\ HandleGetManPage => ManInv'
<1> SUFFICES ASSUME ManInv, HandleGetManPage PROVE ManInv'
  OBVIOUS
<1> DEFINE most == clampZero(asked.max, DefaultLines, MostLines)
           reply == GatherManPage(most, ContextLines(asked.context), offset)
<1>1. /\ mpc = "asking" /\ had' = had \o reply.lines /\ offset' = offset + most
      /\ mpc' = IF reply.truncated THEN "asking" ELSE "done"
      /\ UNCHANGED <<page, asked, line, pos, shown>>
  BY DEF HandleGetManPage
<1>2. /\ page \in [len : Nat, hits : SUBSET Nat, search : BOOLEAN]
      /\ asked \in [max : Int, context : Int, from : Nat]
      /\ offset \in Nat /\ asked.from <= offset
      /\ offset = 0 \/ offset < Len(WantedLines)
      /\ had = SubSeq(WantedLines, asked.from + 1, offset)
  BY <1>1 DEF ManInv, PagedInv
<1>3. PICK all \in Seq(Nat) : all = WantedLines
  <2>1. PICK S \in SUBSET (1..page.len) : WantedLines = Ascending(S)
    BY DEF WantedLines, Filtered
  <2>2. page.len \in Nat
    BY <1>2
  <2>3. QED
    BY <2>1, <2>2, LineNumbers
<1>4. PICK m \in Nat \ {0} : m = most
  <2>1. PICK x \in Int : x = asked.max
    BY <1>2
  <2>2. clampZero(x, DefaultLines, MostLines) \in Nat \ {0}
    BY ManAssumption DEF clampZero
  <2>3. QED
    BY <2>1, <2>2
<1>5. PICK f \in Nat : f = asked.from
  BY <1>2
<1>6. PICK o \in Nat : o = offset /\ f <= o /\ o <= Len(all) /\ (o = 0 \/ o < Len(all))
  BY <1>2, <1>3, <1>5
<1> DEFINE n == Len(all)
           rest == SubSeq(all, o + 1, n)
<1>7. n \in Nat
  OBVIOUS
<1>8. reply = Capped(rest, m)
  <2>1. rest = IF 0 < o /\ o < n THEN SubSeq(all, o + 1, n) ELSE all
    BY <1>6
  <2>2. QED
    BY <1>3, <1>4, <1>6, <2>1 DEF GatherManPage, WantedLines
<1> HIDE DEF reply, most
<1>9. WantedLines' = all
  BY <1>1, <1>3 DEF WantedLines, Filtered, ContextLines
<1>10. CleanInv'
  BY <1>1 DEF ManInv, CleanInv, Clean
<1>11. Len(rest) = n - o
  BY <1>6
<1>12. CASE n - o > m
  <2>1. reply.lines = SubSeq(rest, 1, m) /\ reply.truncated
    BY <1>8, <1>11, <1>12 DEF Capped
  <2>2. reply.lines = SubSeq(all, o + 1, o + m) /\ o + m < n
    <3>1. o + m < n /\ o + m <= Len(all)
      BY <1>7, <1>12
    <3>2. QED
      BY <2>1, <3>1, PartOfPart
  <2>3. had' = SubSeq(all, f + 1, o + m)
    <3>1. o + m \in Nat /\ o <= o + m /\ o + m <= Len(all)
      BY <1>7, <2>2
    <3>2. SubSeq(all, f + 1, o) \o SubSeq(all, o + 1, o + m) = SubSeq(all, f + 1, o + m)
      BY <1>6, <3>1, PartsJoin
    <3>3. QED
      BY <1>1, <1>2, <1>3, <1>5, <1>6, <2>2, <3>2
  <2>4. mpc' = "asking" /\ offset' = o + m /\ asked' = asked /\ page' = page
    BY <1>1, <1>4, <1>6, <2>1
  <2>5. /\ offset' \in Nat /\ asked'.from <= offset' /\ offset' < Len(WantedLines')
        /\ had' = SubSeq(WantedLines', asked'.from + 1, offset')
    BY <1>5, <1>6, <1>9, <2>2, <2>3, <2>4
  <2>6. PagedInv'
    BY <1>2, <2>4, <2>5 DEF PagedInv
  <2>7. QED
    BY <1>10, <2>4, <2>6 DEF ManInv
<1>13. CASE ~(n - o > m)
  <2>1. reply.lines = rest /\ ~reply.truncated
    BY <1>8, <1>11, <1>13 DEF Capped
  <2>2. had' = SubSeq(all, f + 1, n)
    <3>1. n <= Len(all) /\ f <= o /\ o <= n
      BY <1>6, <1>7
    <3>2. SubSeq(all, f + 1, o) \o SubSeq(all, o + 1, n) = SubSeq(all, f + 1, n)
      BY <1>7, <3>1, PartsJoin
    <3>3. QED
      BY <1>1, <1>2, <1>3, <1>5, <1>6, <2>1, <3>2
  <2>3. mpc' = "done" /\ asked' = asked /\ page' = page
    BY <1>1, <2>1
  <2>4. had' = SubSeq(WantedLines', asked'.from + 1, Len(WantedLines'))
    BY <1>5, <1>9, <2>2, <2>3
  <2>5. PagedInv'
    BY <1>2, <2>3, <2>4 DEF PagedInv
  <2>6. QED
    BY <1>10, <2>3, <2>5 DEF ManInv
<1>14. QED
  BY <1>12, <1>13

\* Every step of the tool and of its client keeps the invariant.
LEMMA NextManInv == ManInv /\ [MNext]_mvars => ManInv'
<1> SUFFICES ASSUME ManInv, [MNext]_mvars PROVE ManInv'
  OBVIOUS
<1>1. ASSUME NEW n \in 1..MaxPage, NEW p \in PagesOf(n),
             NEW a \in [max : MaxLinesArgs, context : ContextArgs, from : Offsets],
             OpenPage(p, a, <<>>)
      PROVE  ManInv'
  <2>1. p \in [len : Nat, hits : SUBSET Nat, search : BOOLEAN]
    <3>1. n \in Nat /\ 1..n \subseteq Nat
      BY ManAssumption
    <3>2. CASE p \in [len : {n}, hits : SUBSET (1..n), search : {TRUE}]
      <4>1. \A h \in SUBSET (1..n) : h \in SUBSET Nat
        BY <3>1
      <4>2. QED
        BY <3>1, <3>2, <4>1
    <3>3. CASE p = [len |-> n, hits |-> {}, search |-> FALSE]
      BY <3>1, <3>3
    <3>4. QED
      BY <3>2, <3>3 DEF PagesOf
  <2>2. a \in [max : Int, context : Int, from : Nat]
    BY ManAssumption
  <2>3. <<>> \in Seq(Glyphs)
    OBVIOUS
  <2>4. QED
    BY <1>1, <2>1, <2>2, <2>3, OpenKept
<1>2. ASSUME NEW l \in BoundedSeq([char : Chars, style : Styles], MaxGlyphs),
             OpenPage([NoPage EXCEPT !.len = 1], NoArgs, l)
      PROVE  ManInv'
  <2>1. [NoPage EXCEPT !.len = 1] \in [len : Nat, hits : SUBSET Nat, search : BOOLEAN]
    BY DEF NoPage
  <2>2. NoArgs \in [max : Int, context : Int, from : Nat]
    BY DEF NoArgs
  <2>3. l \in Seq(Glyphs)
    <3>1. PICK m \in 0..MaxGlyphs : l \in [1..m -> Glyphs]
      BY DEF BoundedSeq, SeqOf, Glyphs
    <3>2. m \in Nat
      BY ManAssumption
    <3>3. QED
      BY <3>1, <3>2
  <2>4. QED
    BY <1>2, <2>1, <2>2, <2>3, OpenKept
<1>3. CASE cleanManOutput
  <2>1. CleanInv' /\ mpc' = mpc
    BY <1>3, CleanKept
  <2>2. mpc = "asking" /\ UNCHANGED <<page, asked, offset, had>>
    BY <1>3 DEF cleanManOutput
  <2>3. WantedLines' = WantedLines
    BY <2>2 DEF WantedLines, Filtered, ContextLines
  <2>4. PagedInv'
    BY <2>1, <2>2, <2>3 DEF ManInv, PagedInv
  <2>5. QED
    BY <2>1, <2>2, <2>4 DEF ManInv
<1>4. CASE HandleGetManPage
  BY <1>4, CallKept
<1>5. CASE ClosePage
  <2>1. /\ mpc' = "free" /\ page' = NoPage /\ asked' = NoArgs /\ had' = <<>>
        /\ line' = <<>> /\ pos' = FirstByte /\ shown' = <<>>
    BY <1>5 DEF ClosePage
  <2>2. CleanInv'
    BY <2>1 DEF CleanInv, Clean, FirstByte
  <2>3. PagedInv'
    BY <2>1 DEF PagedInv, NoPage, NoArgs
  <2>4. QED
    BY <2>1, <2>2, <2>3 DEF ManInv
<1>6. CASE UNCHANGED mvars
  <2>1. UNCHANGED <<page, asked, offset, had, line, pos, shown, mpc>>
    BY <1>6 DEF mvars
  <2>2. WantedLines' = WantedLines
    BY <2>1 DEF WantedLines, Filtered, ContextLines
  <2>3. QED
    BY <2>1, <2>2 DEF ManInv, CleanInv, PagedInv, Clean
<1>7. QED
  BY <1>1, <1>2, <1>3, <1>4, <1>5, <1>6 DEF MNext

\* The invariant holds for pages and lines of any length.
THEOREM ManInvariant == MSpec => []ManInv
<1>1. MInit => ManInv
  <2> SUFFICES ASSUME MInit PROVE ManInv
    OBVIOUS
  <2>1. CleanInv
    BY DEF MInit, CleanInv, Clean, FirstByte
  <2>2. PagedInv
    BY DEF MInit, PagedInv, NoPage, NoArgs
  <2>3. QED
    BY <2>1, <2>2 DEF MInit, ManInv
<1>2. QED
  BY <1>1, NextManInv, PTL DEF MSpec

\* cleanManOutput (tools/man.go): for lines of any length, in any mixture of styles,
\* what is shown is the characters of the line, and the buffer is never cut below
\* nothing, which would be a panic.
THEOREM LinesAreCleaned == MSpec => []CleanedText
<1>1. ManInv => CleanedText
  <2> SUFFICES ASSUME ManInv, Clean
               PROVE  shown = [i \in DOMAIN line |-> line[i].char]
    BY DEF ManInv, CleanedText
  <2>1. /\ line \in Seq(Glyphs) /\ pos.glyph \in Nat /\ pos.glyph <= Len(line) + 1
        /\ pos.byte = 1 /\ shown \in Seq(Chars \cup {Underscore})
        /\ Len(shown) = pos.glyph - IF pos.byte \in {2, 4} THEN 0 ELSE 1
        /\ \A i \in 1..pos.glyph - 1 : shown[i] = line[i].char
    BY DEF ManInv, CleanInv
  <2>2. pos.glyph = Len(line) + 1 /\ Len(shown) = Len(line)
    BY <2>1 DEF Clean
  <2>3. \A i \in 1..Len(line) : shown[i] = line[i].char
    BY <2>1, <2>2
  <2>4. QED
    BY <2>1, <2>2, <2>3
<1>2. QED
  BY <1>1, ManInvariant, PTL

\* GatherManPage (tools/man.go): for pages of any length, any limit and any context,
\* the answers of a client that goes on where it stopped make up what it asked for,
\* each line once.
THEOREM PagesAreWhole == MSpec => []PagesRebuildText
<1>1. ManInv => PagesRebuildText
  <2> SUFFICES ASSUME ManInv, mpc = "done" PROVE had = Wished
    BY DEF PagesRebuildText
  <2> DEFINE reach == IF asked.context > 0 THEN asked.context ELSE 2
             wanted == {i \in 1..page.len :
                          page.search => \E h \in page.hits : h - i \in -reach..reach}
  <2>1. /\ page \in [len : Nat, hits : SUBSET Nat, search : BOOLEAN]
        /\ asked \in [max : Int, context : Int, from : Nat]
        /\ had = SubSeq(WantedLines, asked.from + 1, Len(WantedLines))
    BY DEF ManInv, PagedInv
  <2>2. reach \in Int
    BY <2>1
  <2>3. page.search => ContextLines(asked.context) = reach
    BY <2>1 DEF ContextLines
  <2> HIDE DEF reach
  <2>4. \A i \in 1..page.len, h \in page.hits :
            h - i \in -reach..reach <=> i \in h - reach..h + reach
    <3>1. \A i \in 1..page.len, h \in page.hits : i \in Int /\ h \in Int
      BY <2>1
    <3>2. QED
      BY <2>2, <3>1
  <2>5. WantedLines = Ascending(wanted)
    BY <2>3, <2>4 DEF WantedLines, Filtered
  <2>6. QED
    BY <2>1, <2>5 DEF Wished, reach
<1>2. QED
  BY <1>1, ManInvariant, PTL

-----------------------------------------------------------------------------
(* Routes and variables.                                                   *)

\* The keys of a route that are printed with a value of their own, or "src".
PrintedKeys == Keys \cup {"src"}

\* The route: the loop has taken the keys before its word, each with its value, and
\* is past a key only where that is one it does not know.
RouteInv ==
    text = "route" =>
        LET keys == Printed(given)
        IN /\ word \in Nat \ {0, 1} /\ word <= 2 * Len(keys) + 2
           /\ word % 2 = 1 => keys[word \div 2] = "src"
           /\ DOMAIN answer = Keys \cup {"type"} /\ answer["type"] = Absent
           /\ \A k \in Keys :
                 answer[k] = IF \E j \in DOMAIN keys : keys[j] = k /\ 2 * j < word
                             THEN given[k] ELSE Absent

EnvInv ==
    text = "env" =>
        /\ given.env \in SUBSET EnvPairs
        /\ answer = GatherEnvironmentVariables(given.env, given.search)

\* The inductive invariant of the texts.
ListingsInv == RouteInv /\ EnvInv

\* Every key with a value is printed.
LEMMA PrintedRoute ==
    ASSUME NEW route
    PROVE  /\ Printed(route) \in Seq(PrintedKeys)
           /\ \A k \in Keys : route[k] # Absent =>
                 \E j \in DOMAIN Printed(route) : Printed(route)[j] = k
<1> DEFINE order == <<"via", "dev", "proto", "scope", "src", "metric", "mtu">>
           places == {i \in DOMAIN order : order[i] = "src" \/ route[order[i]] # Absent}
<1>1. /\ order \in Seq(PrintedKeys) /\ DOMAIN order = 1..7
      /\ order[1] = "via" /\ order[2] = "dev" /\ order[3] = "proto"
      /\ order[4] = "scope" /\ order[6] = "metric" /\ order[7] = "mtu"
  BY DEF PrintedKeys, Keys
<1>2. Printed(route) = Selected(order, places)
  BY DEF Printed
<1> HIDE DEF order
<1>3. places \in SUBSET DOMAIN order
  OBVIOUS
<1>4. /\ Selected(order, places) \in Seq(PrintedKeys)
      /\ \A i \in places : \E n \in DOMAIN Selected(order, places) :
            Selected(order, places)[n] = order[i]
  BY <1>1, <1>3, SelectedSlice
<1>5. \A k \in Keys : \E i \in DOMAIN order : order[i] = k
  <2>1. {1, 2, 3, 4, 6, 7} \subseteq DOMAIN order
    BY <1>1
  <2>2. QED
    BY <1>1, <2>1 DEF Keys
<1>6. \A k \in Keys : route[k] # Absent => \E i \in places : order[i] = k
  BY <1>5
<1> HIDE DEF places
<1>7. QED
  BY <1>2, <1>4, <1>6

\* The words of a route.
LEMMA WordsOfRoute ==
    ASSUME NEW route, NEW keys, keys = Printed(route)
    PROVE  /\ keys \in Seq(PrintedKeys) /\ Len(keys) \in Nat
           /\ Len(Words(route)) = 2 * Len(keys) + 1
           /\ \A j \in 1..Len(keys) :
                 /\ Words(route)[2 * j] = keys[j]
                 /\ keys[j] = "src" => Words(route)[2 * j + 1] = "10.0.0.1"
                 /\ keys[j] # "src" => Words(route)[2 * j + 1] = route[keys[j]]
<1> DEFINE value(key) == IF key = "src" THEN "10.0.0.1" ELSE route[key]
           words == Words(route)
<1>1. keys \in Seq(PrintedKeys) /\ Len(keys) \in Nat
  BY PrintedRoute
<1>2. words = [i \in 1..2 * Len(keys) + 1 |->
                 IF i = 1 THEN "10.0.0.0/8"
                 ELSE IF i % 2 = 0 THEN keys[i \div 2] ELSE value(keys[i \div 2])]
  BY DEF Words
<1> HIDE DEF words
<1>3. Len(words) = 2 * Len(keys) + 1
  BY <1>1, <1>2
<1>4. ASSUME NEW j \in 1..Len(keys)
      PROVE  words[2 * j] = keys[j] /\ words[2 * j + 1] = value(keys[j])
  <2>1. /\ 2 * j \in 2..2 * Len(keys) + 1 /\ 2 * j + 1 \in 2..2 * Len(keys) + 1
        /\ (2 * j) % 2 = 0 /\ (2 * j + 1) % 2 = 1
        /\ (2 * j) \div 2 = j /\ (2 * j + 1) \div 2 = j
    BY <1>1
  <2>2. \A i \in 2..2 * Len(keys) + 1 :
           words[i] = IF i % 2 = 0 THEN keys[i \div 2] ELSE value(keys[i \div 2])
    BY <1>1, <1>2
  <2>3. QED
    BY <2>1, <2>2
<1>5. QED
  BY <1>1, <1>3, <1>4 DEF words

\* One word: a key is taken with the word after it, which is skipped, whatever it
\* looks like.
LEMMA WordKept == RouteInv /\ RouteEntry => RouteInv'
<1> SUFFICES ASSUME RouteInv, RouteEntry PROVE RouteInv'
  OBVIOUS
<1>1. PICK keys : keys = Printed(given)
  OBVIOUS
<1>2. PICK words : words = Words(given)
  OBVIOUS
<1>3. PICK n : n = Len(keys)
  OBVIOUS
<1>4. /\ word \in Nat \ {0, 1} /\ word <= 2 * n + 2
      /\ word % 2 = 1 => keys[word \div 2] = "src"
      /\ DOMAIN answer = Keys \cup {"type"} /\ answer["type"] = Absent
      /\ \A k \in Keys :
            answer[k] = IF \E j \in DOMAIN keys : keys[j] = k /\ 2 * j < word
                        THEN given[k] ELSE Absent
  BY <1>1, <1>3 DEF RouteInv, RouteEntry
<1>5. /\ word <= Len(words) /\ answer' = Entry(words)
      /\ word' = word + IF Keyed(words) THEN 2 ELSE 1
      /\ UNCHANGED <<text, given>>
  BY <1>2 DEF RouteEntry
<1>6. /\ keys \in Seq(PrintedKeys) /\ n \in Nat /\ Len(words) = 2 * n + 1
      /\ \A j \in 1..n :
            /\ words[2 * j] = keys[j]
            /\ keys[j] = "src" => words[2 * j + 1] = "10.0.0.1"
            /\ keys[j] # "src" => words[2 * j + 1] = given[keys[j]]
  BY <1>1, <1>2, <1>3, WordsOfRoute
<1>7. DOMAIN keys = 1..n
  BY <1>3, <1>6
<1>8. word \in 2..2 * n + 1
  BY <1>4, <1>5, <1>6
<1>9. "src" \notin Keys \cup Types /\ "10.0.0.1" \notin Keys \cup Types /\ "type" \notin Keys
  BY DEF Keys, Types
<1>10. Printed(given)' = keys
  BY <1>1, <1>5
<1>11. SUFFICES
          /\ word' \in Nat \ {0, 1} /\ word' <= 2 * n + 2
          /\ word' % 2 = 1 => keys[word' \div 2] = "src"
          /\ DOMAIN answer' = Keys \cup {"type"} /\ answer'["type"] = Absent
          /\ \A k \in Keys :
                answer'[k] = IF \E j \in DOMAIN keys : keys[j] = k /\ 2 * j < word'
                             THEN given[k] ELSE Absent
  BY <1>3, <1>5, <1>10 DEF RouteInv
<1>12. CASE word % 2 = 0
  <2>1. PICK j \in 1..n : word = 2 * j
    <3>1. word \div 2 \in 1..n /\ word = 2 * (word \div 2)
      BY <1>6, <1>8, <1>12
    <3>2. QED
      BY <3>1
  <2>2. words[word] = keys[j] /\ keys[j] \in PrintedKeys
    BY <1>6, <1>7, <2>1
  <2>3. CASE keys[j] \in Keys
    <3>1. Keyed(words)
      BY <1>6, <1>8, <2>1, <2>2, <2>3 DEF Keyed
    <3>2. word' = 2 * j + 2 /\ word' % 2 = 0 /\ word' <= 2 * n + 2
      BY <1>5, <1>6, <2>1, <3>1
    <3>3. words[word + 1] = given[keys[j]]
      <4>1. keys[j] # "src"
        BY <1>9, <2>3
      <4>2. QED
        BY <1>6, <2>1, <4>1
    <3>4. answer' = [answer EXCEPT ![keys[j]] = given[keys[j]]]
      BY <1>5, <2>2, <3>1, <3>3 DEF Entry
    <3>5. ASSUME NEW k \in Keys
          PROVE  answer'[k] = IF \E i \in DOMAIN keys : keys[i] = k /\ 2 * i < word'
                              THEN given[k] ELSE Absent
      <4>1. CASE k = keys[j]
        <5>1. j \in DOMAIN keys /\ 2 * j < word'
          BY <1>7, <2>1, <3>2
        <5>2. QED
          BY <1>4, <3>4, <4>1, <5>1
      <4>2. CASE k # keys[j]
        <5>1. answer'[k] = answer[k]
          BY <1>4, <3>4, <4>2
        <5>2. \A i \in DOMAIN keys : keys[i] = k => (2 * i < word' <=> 2 * i < word)
          BY <1>6, <1>7, <2>1, <3>2, <4>2
        <5>3. QED
          BY <1>4, <5>1, <5>2
      <4>3. QED
        BY <4>1, <4>2
    <3>6. DOMAIN answer' = Keys \cup {"type"} /\ answer'["type"] = Absent
      BY <1>4, <1>9, <2>3, <3>4
    <3>7. word' \in Nat \ {0, 1}
      BY <2>1, <3>2
    <3>8. QED
      BY <3>2, <3>5, <3>6, <3>7
  <2>4. CASE keys[j] = "src"
    <3>1. ~Keyed(words) /\ Entry(words) = answer
      BY <1>9, <2>2, <2>4 DEF Keyed, Entry
    <3>2. word' = 2 * j + 1 /\ answer' = answer
      BY <1>5, <2>1, <3>1
    <3>3. word' <= 2 * n + 2 /\ word' \in Nat \ {0, 1} /\ word' \div 2 = j
      BY <1>6, <2>1, <3>2
    <3>4. \A i \in DOMAIN keys, k \in Keys :
              keys[i] = k => (2 * i < word' <=> 2 * i < word)
      BY <1>6, <1>7, <1>9, <2>1, <2>4, <3>2
    <3>5. QED
      BY <1>4, <2>4, <3>2, <3>3, <3>4
  <2>5. QED
    BY <2>2, <2>3, <2>4 DEF PrintedKeys
<1>13. CASE word % 2 = 1
  <2>1. PICK j \in 1..n : word = 2 * j + 1 /\ word \div 2 = j
    <3>1. word \div 2 \in 1..n /\ word = 2 * (word \div 2) + 1
      BY <1>6, <1>8, <1>13
    <3>2. QED
      BY <3>1
  <2>2. keys[j] = "src" /\ words[word] = "10.0.0.1"
    BY <1>4, <1>6, <1>13, <2>1
  <2>3. ~Keyed(words) /\ Entry(words) = answer
    BY <1>9, <2>2 DEF Keyed, Entry
  <2>4. word' = 2 * j + 2 /\ answer' = answer
    BY <1>5, <2>1, <2>3
  <2>5. word' <= 2 * n + 2 /\ word' \in Nat \ {0, 1} /\ word' % 2 = 0
    BY <1>6, <2>1, <2>4
  <2>6. \A i \in DOMAIN keys : 2 * i < word' <=> 2 * i < word
    <3>1. \A i \in Int : 2 * i < 2 * j + 2 <=> 2 * i < 2 * j + 1
      OBVIOUS
    <3>2. \A i \in DOMAIN keys : i \in Int
      BY <1>7
    <3>3. QED
      BY <2>1, <2>4, <3>1, <3>2
  <2>7. QED
    BY <1>4, <2>4, <2>5, <2>6
<1>14. QED
  BY <1>8, <1>12, <1>13

\* Every step keeps the invariant.
LEMMA NextListingsInv == ListingsInv /\ [LNext]_lvars => ListingsInv'
<1> SUFFICES ASSUME ListingsInv, [LNext]_lvars PROVE ListingsInv'
  OBVIOUS
<1>1. ASSUME NEW r \in Routes, Parse("route", r, 2, NoRoute) PROVE ListingsInv'
  <2>1. text' = "route" /\ given' = r /\ word' = 2 /\ answer' = NoRoute
    BY <1>1 DEF Parse
  <2>2. PICK keys : keys = Printed(given)'
    OBVIOUS
  <2>3. keys \in Seq(PrintedKeys)
    <3>1. keys = Printed(r)
      BY <2>1, <2>2 DEF Printed
    <3>2. QED
      BY <3>1, PrintedRoute
  <2>4. 2 <= 2 * Len(keys) + 2 /\ 2 % 2 # 1 /\ \A j \in DOMAIN keys : ~(2 * j < 2)
    BY <2>3
  <2>5. /\ DOMAIN answer' = Keys \cup {"type"}
        /\ \A k \in Keys \cup {"type"} : answer'[k] = Absent
    BY <2>1 DEF NoRoute
  <2>6. RouteInv'
    BY <2>1, <2>2, <2>4, <2>5 DEF RouteInv
  <2>7. QED
    BY <2>1, <2>6 DEF ListingsInv, EnvInv
<1>2. CASE RouteEntry
  <2>1. RouteInv' /\ text' = "route"
    BY <1>2, WordKept DEF ListingsInv, RouteEntry
  <2>2. QED
    BY <2>1 DEF ListingsInv, EnvInv
<1>3. ASSUME NEW env \in SUBSET EnvPairs, NEW s \in Searches,
             Parse("env", [env |-> env, search |-> s], 0,
                   GatherEnvironmentVariables(env, s))
      PROVE  ListingsInv'
  <2>1. /\ text' = "env" /\ given' = [env |-> env, search |-> s]
        /\ answer' = GatherEnvironmentVariables(env, s)
    BY <1>3 DEF Parse
  <2>2. EnvInv'
    BY <2>1 DEF EnvInv
  <2>3. QED
    BY <2>1, <2>2 DEF ListingsInv, RouteInv
<1>4. ASSUME NEW arrays, NEW from, NEW result, Parse("mdstat", arrays, from, result)
      PROVE  ListingsInv'
  BY <1>4 DEF Parse, ListingsInv, RouteInv, EnvInv
<1>5. CASE Clear
  BY <1>5 DEF Clear, ListingsInv, RouteInv, EnvInv
<1>6. CASE UNCHANGED lvars
  <2>1. UNCHANGED <<text, given, word, answer>>
    BY <1>6 DEF lvars
  <2>2. RouteInv'
    BY <2>1 DEF ListingsInv, RouteInv
  <2>3. EnvInv'
    BY <2>1 DEF ListingsInv, EnvInv
  <2>4. QED
    BY <2>2, <2>3 DEF ListingsInv
<1>7. QED
  BY <1>1, <1>2, <1>3, <1>4, <1>5, <1>6 DEF LNext

\* The invariant holds for any routes and any environment.
THEOREM ListingsInvariant == LSpec => []ListingsInv
<1>1. LInit => ListingsInv
  BY DEF LInit, ListingsInv, RouteInv, EnvInv
<1>2. QED
  BY <1>1, NextListingsInv, PTL DEF LSpec

\* GatherRoutingTable (tools/network.go): for any names of devices, gateways and
\* protocols, those of the keys and types among them, a route is read as it was
\* printed.
THEOREM RoutesAreReadBack == LSpec => []RoutesReadBack
<1>1. ListingsInv => RoutesReadBack
  <2> SUFFICES ASSUME RouteInv, text = "route", word > Len(Words(given))
               PROVE  (\A k \in Keys : answer[k] = given[k]) /\ answer["type"] = Absent
    BY DEF ListingsInv, RoutesReadBack
  <2>1. PICK keys : keys = Printed(given)
    OBVIOUS
  <2>2. /\ answer["type"] = Absent /\ word \in Nat
        /\ \A k \in Keys :
              answer[k] = IF \E j \in DOMAIN keys : keys[j] = k /\ 2 * j < word
                          THEN given[k] ELSE Absent
    BY <2>1 DEF RouteInv
  <2>3. /\ keys \in Seq(PrintedKeys) /\ Len(Words(given)) = 2 * Len(keys) + 1
        /\ \A k \in Keys : given[k] # Absent => \E j \in DOMAIN keys : keys[j] = k
    BY <2>1, WordsOfRoute, PrintedRoute
  <2>4. \A j \in DOMAIN keys : 2 * j < word
    BY <2>2, <2>3
  <2>5. QED
    BY <2>2, <2>3, <2>4
<1>2. QED
  BY <1>1, ListingsInvariant, PTL

\* A set of numbers has a least one.
LEMMA LeastOf ==
    ASSUME NEW T, T \subseteq Nat, T # {}
    PROVE  \E m \in T : \A k \in T : m <= k
<1>1. IsWellFoundedOn(OpToRel(<, Nat), Nat)
  BY NatLessThanWellFounded
<1>2. PICK m \in T : \A k \in T : <<k, m>> \notin OpToRel(<, Nat)
  BY <1>1, WFMin
<1>3. \A k \in T : m <= k
  <2>1. SUFFICES ASSUME NEW k \in T, k < m PROVE FALSE
    OBVIOUS
  <2>2. <<k, m>> \in OpToRel(<, Nat)
    BY <2>1 DEF OpToRel
  <2>3. QED
    BY <1>2, <2>2
<1>4. QED
  BY <1>3

\* GatherEnvironmentVariables (tools/system.go): for any environment, a variable that
\* matches is listed under its own name, and no value of a sensitive one is shown,
\* at whatever equals sign the pair is cut.
THEOREM VariablesAreListed == LSpec => []VariablesListed
<1>1. ListingsInv => VariablesListed
  <2> SUFFICES ASSUME EnvInv, text = "env", NEW p \in given.env
               PROVE  /\ Len(p) > 1 /\ given.search \in {Absent, p[1]} =>
                           p \in DOMAIN answer /\ answer[p].name = <<p[1]>>
                      /\ p \in DOMAIN answer /\ p[1] \in SensitiveWords =>
                           answer[p].value = <<Hidden>>
    BY DEF ListingsInv, VariablesListed
  <2> DEFINE T == {p[i] : i \in DOMAIN p}
             cuts == Cuts(p, given.search)
             cut == CHOOSE c \in cuts : \A d \in cuts : c <= d
  <2>1. p \in Seq(T) /\ p # <<>>
    BY EnvPairsAssumption DEF EnvInv
  <2>2. /\ DOMAIN answer = {q \in given.env : Cuts(q, given.search) # {}}
        /\ p \in DOMAIN answer => answer[p] = EnvironmentVariable(p, given.search)
    BY DEF EnvInv, GatherEnvironmentVariables
  <2>3. cuts \subseteq 1..Len(p) - 1 /\ Len(p) \in Nat /\ Len(p) >= 1
    BY <2>1 DEF Cuts
  <2>4. /\ EnvironmentVariable(p, given.search).name = SubSeq(p, 1, cut)
        /\ isSensitiveEnvVar(SubSeq(p, 1, cut)) =>
              EnvironmentVariable(p, given.search).value = <<Hidden>>
    BY DEF EnvironmentVariable
  <2>5. p \in DOMAIN answer => cut \in cuts /\ \A d \in cuts : cut <= d
    <3> SUFFICES ASSUME p \in DOMAIN answer
                 PROVE  \E c \in cuts : \A d \in cuts : c <= d
      OBVIOUS
    <3>1. cuts # {} /\ cuts \subseteq Nat
      BY <2>2, <2>3
    <3> HIDE DEF cuts
    <3>2. QED
      BY <3>1, LeastOf
  <2>6. ASSUME Len(p) > 1, given.search \in {Absent, p[1]}
        PROVE  p \in DOMAIN answer /\ answer[p].name = <<p[1]>>
    <3>1. 1 \in cuts
      BY <2>3, <2>6 DEF Cuts
    <3>2. p \in DOMAIN answer
      BY <2>2, <3>1
    <3>3. cut = 1
      <4>1. cut \in 1..Len(p) - 1 /\ cut <= 1
        BY <2>3, <2>5, <3>1, <3>2
      <4>2. QED
        BY <2>3, <4>1
    <3> HIDE DEF cut
    <3>4. SubSeq(p, 1, 1) = <<p[1]>>
      <4>1. PICK s : s = SubSeq(p, 1, 1)
        OBVIOUS
      <4>2. s \in Seq(T) /\ Len(s) = 1 /\ s[1] = p[1]
        BY <2>1, <2>3, <4>1
      <4>3. s = <<p[1]>>
        BY <4>2
      <4>4. QED
        BY <4>1, <4>3
    <3>5. QED
      BY <2>2, <2>4, <3>2, <3>3, <3>4
  <2>7. ASSUME p \in DOMAIN answer, p[1] \in SensitiveWords
        PROVE  answer[p].value = <<Hidden>>
    <3>1. cut \in Nat \ {0} /\ cut <= Len(p)
      BY <2>3, <2>5, <2>7
    <3> HIDE DEF cut
    <3>2. 1 \in DOMAIN SubSeq(p, 1, cut) /\ SubSeq(p, 1, cut)[1] = p[1]
      BY <2>1, <2>3, <3>1
    <3>3. isSensitiveEnvVar(SubSeq(p, 1, cut))
      BY <2>7, <3>2 DEF isSensitiveEnvVar
    <3>4. QED
      BY <2>2, <2>4, <2>7, <3>3
  <2>8. QED
    BY <2>6, <2>7
<1>2. QED
  BY <1>1, ListingsInvariant, PTL
=============================================================================
