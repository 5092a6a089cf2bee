------------------------- MODULE DockerStatsProofs -------------------------
(***************************************************************************)
(* Proofs about the fan-out of get_docker_container_stats, for any number  *)
(* of containers and any requests: however the goroutines of the           *)
(* containers interleave with each other, with the handler and with the    *)
(* deadline, the answer has its entries and no goroutine is left.          *)
(***************************************************************************)
EXTENDS DockerStats, FiniteSetTheorems, TLAPS

\* The listing as a sequence is as long as the set it is made from.
LEMMA ListingLength ==
    ASSUME NEW S, IsFiniteSet(S)
    PROVE  Len(SetToSeq(S)) = Cardinality(S) /\ Cardinality(S) \in Nat
<1> DEFINE n == Cardinality(S)
<1>1. n \in Nat /\ ExistsBijection(1..n, S)
  BY FS_CardinalityType
<1>2. \E f \in [1..n -> S] : IsInjective(f)
  <2>1. PICK f : f \in Bijection(1..n, S)
    BY <1>1 DEF ExistsBijection
  <2>2. QED
    BY <2>1 DEF Bijection, Injection, IsInjective
<1>3. SetToSeq(S) \in [1..n -> S]
  BY <1>2 DEF SetToSeq
<1>4. QED
  BY <1>1, <1>3

-----------------------------------------------------------------------------
Result == [id : Containers, ok : BOOLEAN]

\* The containers whose goroutine has not sent its result yet, those whose
\* result is in the channel, and those that have an entry.
Working == {c \in Containers : worker[c] \in {"sampling", "ok", "failed"}}

Queued == {ch[i].id : i \in DOMAIN ch}

Entered == {entries[i].id : i \in DOMAIN entries}

\* The running containers the filter kept.
Kept == {c \in listed : Wanted(c)}

StatsType ==
    /\ running \in SUBSET Containers /\ listed \in SUBSET Containers
    /\ pc \in {"free", "choose", "collect", "answered"}
    /\ reply \in {"none", "value", "error"}
    /\ worker \in [Containers -> {"none", "sampling", "ok", "failed", "gone"}]
    /\ ch \in Seq(Result) /\ entries \in Seq(Result)
    /\ errs \in Seq(Containers)
    /\ received \in Nat /\ Len(targets) \in Nat

\* The errors name the entries without a sample.
ErrorsNamed ==
    {errs[i] : i \in DOMAIN errs}
        = {entries[i].id : i \in {j \in DOMAIN entries : ~entries[j].ok}}

\* Before the listing there is nothing.
Fresh == pc \in {"free", "choose"} =>
             entries = <<>> /\ errs = <<>> /\ received = 0 /\ reply = "none"

\* While the handler collects, every result that was not received is in the
\* channel or still to be sent, counted as well as by name.
NothingLost ==
    pc = "collect" =>
        /\ Working \cup Queued \cup Entered = Kept
        /\ Cardinality(Working) + Len(ch) + received = Len(targets)
        /\ Len(entries) = received
        /\ ErrorsNamed
        /\ ~IsSingle(request)

\* Outside of it nothing is in flight.
Quiet == pc # "collect" => ch = <<>> /\ Working = {}

\* The inductive invariant.
StatsInv == /\ StatsType /\ Fresh /\ NothingLost /\ Quiet
            /\ OneEntryPerTarget

\* A subset of the containers is finite.
LEMMA WorkingFinite == IsFiniteSet(Working) /\ Cardinality(Working) \in Nat
  BY RequestsAssumption, FS_Subset, FS_CardinalityType DEF Working

\* Initially nothing is in flight.
LEMMA InitStatsInv == Init => StatsInv
<1> SUFFICES ASSUME Init PROVE StatsInv
  OBVIOUS
<1>1. StatsType
  BY DEF Init, StatsType, NoWorkers
<1>2. Working = {}
  BY DEF Init, Working, NoWorkers
<1>3. QED
  BY <1>1, <1>2
  DEF Init, StatsInv, Fresh, NothingLost, Quiet, OneEntryPerTarget

\* The listing: one goroutine is started for every container that is kept.
LEMMA ListKeeps == StatsInv /\ ListAndStart => StatsInv'
<1> SUFFICES ASSUME StatsInv, ListAndStart PROVE StatsInv'
  OBVIOUS
<1>1. /\ Working = {} /\ entries = <<>> /\ errs = <<>> /\ received = 0
      /\ StatsType
  BY DEF StatsInv, Quiet, Fresh, ListAndStart
<1>2. Kept' = {c \in running : Wanted(c)} /\ Kept' \in SUBSET Containers
  BY <1>1 DEF Kept, ListAndStart, Wanted, StatsType
<1>3. IsFiniteSet(Kept')
  BY <1>2, RequestsAssumption, FS_Subset
<1>4. Len(targets') = Cardinality(Kept') /\ Len(targets') \in Nat
  <2>1. targets' = SetToSeq(Kept')
    BY <1>2 DEF ListAndStart
  <2>2. QED
    BY <1>3, <2>1, ListingLength
<1>5. Working' = Kept'
  BY <1>1, <1>2 DEF Working, ListAndStart, StatsType
<1>6. StatsType'
  BY <1>1, <1>4 DEF StatsType, ListAndStart, Result
<1>7. NothingLost'
  <2>1. Queued' = {} /\ Entered' = {} /\ ErrorsNamed' /\ Len(ch') = 0
    BY <1>1 DEF Queued, Entered, ErrorsNamed, ListAndStart
  <2>2. /\ Len(entries') = received' /\ ~IsSingle(request)'
        /\ received' = 0
    BY <1>1 DEF ListAndStart, IsSingle
  <2>3. QED
    BY <1>4, <1>5, <2>1, <2>2 DEF NothingLost
<1>8. QED
  BY <1>6, <1>7 DEF StatsInv, Fresh, Quiet, OneEntryPerTarget, ListAndStart

\* A goroutine that has its sample, or its error, is still to send.
LEMMA SampledKeeps ==
    ASSUME StatsInv, NEW c \in Containers, Sampled(c) PROVE StatsInv'
<1>1. worker \in [Containers -> {"none", "sampling", "ok", "failed", "gone"}]
  BY DEF StatsInv, StatsType
<1>2. worker' = [worker EXCEPT ![c] = "ok"] \/ worker' = [worker EXCEPT ![c] = "failed"]
  BY DEF Sampled
<1>3. /\ worker' \in [Containers -> {"none", "sampling", "ok", "failed", "gone"}]
      /\ Working' = Working
  BY <1>1, <1>2 DEF Working, Sampled
<1>4. UNCHANGED <<running, request, pc, ctx, targets, ch, received, entries,
                  errs, reply, listed>>
  BY DEF Sampled
<1>5. StatsType' /\ Fresh' /\ Quiet'
  BY <1>3, <1>4 DEF StatsInv, StatsType, Fresh, Quiet
<1>6. /\ Queued' = Queued /\ Entered' = Entered /\ Kept' = Kept
      /\ ErrorsNamed' = ErrorsNamed /\ IsSingle(request)' = IsSingle(request)
      /\ OneEntryPerTarget' = OneEntryPerTarget
  BY <1>4 DEF Queued, Entered, Kept, Wanted, ErrorsNamed, IsSingle, OneEntryPerTarget
<1>7. NothingLost'
  BY <1>3, <1>4, <1>6 DEF StatsInv, NothingLost
<1>8. QED
  BY <1>5, <1>6, <1>7 DEF StatsInv

\* Sending takes a goroutine out and puts its result in.
LEMMA SendKeeps ==
    ASSUME StatsInv, NEW c \in Containers, Send(c) PROVE StatsInv'
<1> DEFINE b == (worker[c] = "ok")
           r == [id |-> c, ok |-> b]
<1>1. /\ StatsType /\ c \in Working /\ pc = "collect"
      /\ Working \cup Queued \cup Entered = Kept
      /\ Cardinality(Working) + Len(ch) + received = Len(targets)
  BY DEF StatsInv, StatsType, Quiet, NothingLost, Send, Working
<1>2. r \in Result /\ r.id = c
  <2>1. b \in BOOLEAN
    OBVIOUS
  <2> HIDE DEF b
  <2>2. QED
    BY <2>1 DEF Result
<1>3. ch' = Append(ch, r)
  BY DEF Send
<1> HIDE DEF r
<1>4. /\ ch' \in Seq(Result) /\ Len(ch') = Len(ch) + 1 /\ Len(ch) \in Nat
      /\ Queued' = Queued \cup {c}
  <2>1. ch \in Seq(Result)
    BY <1>1 DEF StatsType
  <2>2. /\ ch' \in Seq(Result) /\ Len(ch') = Len(ch) + 1 /\ Len(ch) \in Nat
        /\ DOMAIN ch = 1..Len(ch) /\ DOMAIN ch' = 1..(Len(ch) + 1)
        /\ \A i \in 1..Len(ch) : ch'[i] = ch[i]
        /\ ch'[Len(ch) + 1] = r
    BY <1>2, <1>3, <2>1
  <2>3. Queued' = Queued \cup {c}
    BY <1>2, <2>2 DEF Queued
  <2>4. QED
    BY <2>2, <2>3
<1>5. /\ worker' \in [Containers -> {"none", "sampling", "ok", "failed", "gone"}]
      /\ Working' = Working \ {c}
  BY <1>1 DEF Send, StatsType, Working
<1>6. Cardinality(Working') = Cardinality(Working) - 1
        /\ Cardinality(Working) \in Nat
  BY <1>1, <1>5, WorkingFinite, FS_RemoveElement
<1>7. UNCHANGED <<running, request, pc, ctx, targets, received, entries, errs,
                  reply, listed>>
  BY DEF Send
<1>8. StatsType'
  BY <1>1, <1>4, <1>5, <1>7 DEF StatsType
<1>9. NothingLost'
  <2>1. Entered' = Entered /\ Kept' = Kept /\ ErrorsNamed' = ErrorsNamed
          /\ IsSingle(request)' = IsSingle(request)
    BY <1>7 DEF Entered, Kept, Wanted, ErrorsNamed, IsSingle
  <2>2. Working' \cup Queued' \cup Entered' = Kept'
    BY <1>1, <1>4, <1>5, <2>1
  <2>3. Cardinality(Working') + Len(ch') + received' = Len(targets')
    BY <1>1, <1>4, <1>6, <1>7 DEF StatsType
  <2>4. QED
    BY <1>1, <1>7, <2>1, <2>2, <2>3 DEF StatsInv, NothingLost
<1>10. QED
  BY <1>1, <1>7, <1>8, <1>9 DEF StatsInv, Fresh, Quiet, OneEntryPerTarget

\* Receiving turns the first result of the channel into an entry.
LEMMA ReceiveKeeps == StatsInv /\ Receive => StatsInv'
<1> SUFFICES ASSUME StatsInv, Receive PROVE StatsInv'
  OBVIOUS
<1> DEFINE r == Head(ch)
<1>1. /\ StatsType /\ pc = "collect" /\ ch # <<>>
      /\ Working \cup Queued \cup Entered = Kept
      /\ Cardinality(Working) + Len(ch) + received = Len(targets)
      /\ Len(entries) = received /\ ErrorsNamed
  BY DEF StatsInv, NothingLost, Receive
<1>2. ch \in Seq(Result) /\ entries \in Seq(Result) /\ errs \in Seq(Containers)
        /\ received \in Nat /\ Len(targets) \in Nat
  BY <1>1 DEF StatsType
<1>3. UNCHANGED <<running, request, pc, ctx, targets, worker, reply, listed>>
  BY DEF Receive
<1>4. /\ r \in Result /\ ch' \in Seq(Result) /\ Len(ch') = Len(ch) - 1
      /\ Len(ch) \in Nat /\ Queued = Queued' \cup {r.id}
  <2>1. /\ r \in Result /\ r = ch[1] /\ ch' \in Seq(Result)
        /\ Len(ch) \in Nat \ {0} /\ Len(ch') = Len(ch) - 1
        /\ DOMAIN ch = 1..Len(ch) /\ DOMAIN ch' = 1..Len(ch')
        /\ \A i \in 1..Len(ch') : ch'[i] = ch[i + 1]
    BY <1>1, <1>2 DEF Receive
  <2>2. ASSUME NEW i \in DOMAIN ch
        PROVE  ch[i].id \in Queued' \cup {r.id}
    <3>1. CASE i = 1
      BY <2>1, <3>1
    <3>2. CASE i # 1
      <4>1. i - 1 \in DOMAIN ch' /\ ch'[i - 1] = ch[i]
        <5>1. i - 1 \in 1..Len(ch') /\ (i - 1) + 1 = i
          BY <2>1, <3>2
        <5>2. QED
          BY <2>1, <5>1
      <4>2. QED
        BY <4>1 DEF Queued
    <3>3. QED
      BY <3>1, <3>2
  <2>3. ASSUME NEW i \in DOMAIN ch' PROVE ch'[i].id \in Queued
    <3>1. i + 1 \in DOMAIN ch /\ ch'[i] = ch[i + 1]
      BY <2>1
    <3>2. QED
      BY <3>1 DEF Queued
  <2>4. r.id \in Queued
    BY <2>1 DEF Queued
  <2>5. Queued \subseteq Queued' \cup {r.id} /\ Queued' \subseteq Queued
    BY <2>2, <2>3 DEF Queued
  <2>6. QED
    BY <2>1, <2>4, <2>5
<1>5. /\ entries' \in Seq(Result) /\ Len(entries') = received'
      /\ received' = received + 1
      /\ DOMAIN entries = 1..received /\ DOMAIN entries' = 1..(received + 1)
      /\ \A i \in 1..received : entries'[i] = entries[i]
      /\ entries'[received + 1] = r
  BY <1>1, <1>2, <1>4 DEF Receive
<1>a. /\ \A i \in DOMAIN entries' : i \in DOMAIN entries \/ i = received + 1
      /\ \A i \in DOMAIN entries : i \in DOMAIN entries'
      /\ received + 1 \in DOMAIN entries'
      /\ \A i \in DOMAIN entries : entries'[i] = entries[i]
  BY <1>2, <1>5
<1>6. Entered' = Entered \cup {r.id}
  BY <1>5, <1>a, Zenon DEF Entered
<1>7. errs' \in Seq(Containers) /\ ErrorsNamed'
  <2>1. {entries'[i].id : i \in {j \in DOMAIN entries' : ~entries'[j].ok}}
            = {entries[i].id : i \in {j \in DOMAIN entries : ~entries[j].ok}}
                \cup (IF r.ok THEN {} ELSE {r.id})
    BY <1>5, <1>a, Zenon
  <2>2. CASE r.ok
    BY <1>1, <1>2, <2>1, <2>2 DEF Receive, ErrorsNamed
  <2>3. CASE ~r.ok
    <3>1. errs' = Append(errs, r.id) /\ r.id \in Containers
      BY <1>4, <2>3 DEF Receive, Result
    <3>2. /\ errs' \in Seq(Containers) /\ Len(errs) \in Nat
          /\ DOMAIN errs = 1..Len(errs) /\ DOMAIN errs' = 1..(Len(errs) + 1)
          /\ \A i \in 1..Len(errs) : errs'[i] = errs[i]
          /\ errs'[Len(errs) + 1] = r.id
      BY <1>2, <3>1
    <3>3. {errs'[i] : i \in DOMAIN errs'} = {errs[i] : i \in DOMAIN errs} \cup {r.id}
      BY <3>2
    <3>4. QED
      BY <1>1, <2>1, <2>3, <3>2, <3>3 DEF ErrorsNamed
  <2>4. QED
    BY <2>2, <2>3
<1>8. StatsType'
  BY <1>1, <1>3, <1>4, <1>5, <1>7 DEF StatsType
<1>9. NothingLost'
  <2>1. /\ Working' = Working /\ Kept' = Kept
        /\ IsSingle(request)' = IsSingle(request)
    BY <1>3 DEF Working, Kept, Wanted, IsSingle
  <2>2. Working' \cup Queued' \cup Entered' = Kept'
    BY <1>1, <1>4, <1>6, <2>1
  <2>3. Cardinality(Working') + Len(ch') + received' = Len(targets')
    BY <1>1, <1>2, <1>3, <1>4, <1>5, <2>1, WorkingFinite
  <2>4. QED
    BY <1>1, <1>3, <1>5, <1>7, <2>1, <2>2, <2>3 DEF StatsInv, NothingLost
<1>10. QED
  BY <1>1, <1>3, <1>8, <1>9 DEF StatsInv, Fresh, Quiet, OneEntryPerTarget

\* When the handler has received as often as it started goroutines, nothing is
\* in flight and every container that was kept has its entry.
LEMMA CollectedKeeps == StatsInv /\ Collected => StatsInv'
<1> SUFFICES ASSUME StatsInv, Collected PROVE StatsInv'
  OBVIOUS
<1>1. /\ StatsType /\ received = Len(targets)
      /\ Working \cup Queued \cup Entered = Kept
      /\ Cardinality(Working) + Len(ch) + received = Len(targets)
      /\ Len(entries) = received /\ ErrorsNamed
  BY DEF StatsInv, NothingLost, Collected
<1>2. ch \in Seq(Result) /\ received \in Nat
  BY <1>1 DEF StatsType
<1>3. ch = <<>> /\ Cardinality(Working) = 0
  BY <1>1, <1>2, WorkingFinite
<1>4. Working = {} /\ Queued = {}
  BY <1>3, WorkingFinite, FS_EmptySet DEF Queued
<1>5. UNCHANGED <<running, request, ctx, targets, worker, ch, received,
                  entries, errs, listed>> /\ pc' = "answered" /\ reply' = "value"
  BY DEF Collected, Answer
<1>6. StatsType' /\ Fresh' /\ NothingLost'
  BY <1>1, <1>5 DEF StatsType, Fresh, NothingLost
<1>7. Working' = {} /\ ch' = <<>>
  BY <1>3, <1>4, <1>5 DEF Working
<1>8. OneEntryPerTarget'
  <2>1. Entered = Kept
    BY <1>1, <1>4
  <2>2. Entered' = Kept' /\ ErrorsNamed' /\ Len(entries') = Len(targets')
    BY <1>1, <1>5, <2>1 DEF Entered, Kept, Wanted, ErrorsNamed
  <2>3. QED
    BY <2>2 DEF OneEntryPerTarget, Entered, Kept, ErrorsNamed
<1>9. QED
  BY <1>6, <1>7, <1>8 DEF StatsInv, Quiet

\* The steps outside of the fan-out.
LEMMA OtherKeeps ==
    ASSUME StatsInv,
           \/ \E r \in Requests : Call(r)
           \/ \E c \in Containers : ContainerChanges(c)
           \/ CtxDone \/ Return \/ ListFails \/ SingleFails
           \/ \E c \in Containers : SingleSample(c)
           \/ UNCHANGED vars
    PROVE  StatsInv'
<1>0. StatsType
  BY DEF StatsInv
<1>1. ASSUME NEW r \in Requests, Call(r) PROVE StatsInv'
  <2>1. /\ ch' = <<>> /\ Working' = {} /\ StatsType'
    BY <1>0, <1>1 DEF StatsInv, Quiet, Call, StatsType, Working
  <2>2. QED
    BY <1>1, <2>1
    DEF StatsInv, Quiet, Call, Fresh, NothingLost, OneEntryPerTarget, Empty
<1>2. ASSUME \/ CtxDone \/ UNCHANGED vars
             \/ \E c \in Containers : ContainerChanges(c)
      PROVE  StatsInv'
  <2>1. UNCHANGED <<request, pc, targets, worker, ch, received, entries, errs,
                    reply, listed>>
    BY <1>2 DEF ContainerChanges, CtxDone, vars
  <2>2. running' \in SUBSET Containers
    BY <1>0, <1>2 DEF ContainerChanges, CtxDone, vars, StatsType
  <2>3. /\ Working' = Working /\ Queued' = Queued /\ Entered' = Entered
        /\ Kept' = Kept /\ ErrorsNamed' = ErrorsNamed
        /\ IsSingle(request)' = IsSingle(request)
        /\ OneEntryPerTarget' = OneEntryPerTarget
    BY <2>1 DEF Working, Queued, Entered, Kept, Wanted, ErrorsNamed, IsSingle,
                OneEntryPerTarget
  <2>4. StatsType' /\ Fresh' /\ Quiet'
    BY <2>1, <2>2, <2>3 DEF StatsInv, StatsType, Fresh, Quiet
  <2>5. NothingLost'
    BY <2>1, <2>3 DEF StatsInv, NothingLost
  <2>6. QED
    BY <2>3, <2>4, <2>5 DEF StatsInv
<1>3. CASE Return
  <2>1. StatsType'
    BY <1>0, <1>3 DEF StatsType, Return
  <2>2. ch' = <<>> /\ Working' = {}
    BY <1>0, <1>3 DEF StatsInv, Quiet, Return, StatsType, Working
  <2>3. QED
    BY <1>3, <2>1, <2>2
    DEF StatsInv, Quiet, Return, Fresh, NothingLost, OneEntryPerTarget
<1>4. CASE ListFails \/ SingleFails
  <2>1. StatsType' /\ ch' = <<>> /\ Working' = {} /\ pc' = "answered"
          /\ reply' = "error"
    BY <1>0, <1>4 DEF ListFails, SingleFails, Answer, StatsType, StatsInv, Quiet,
                      Working
  <2>2. QED
    BY <2>1 DEF StatsInv, Quiet, Fresh, NothingLost, OneEntryPerTarget
<1>5. ASSUME NEW c \in Containers, SingleSample(c) PROVE StatsInv'
  <2>1. /\ ch' = <<>> /\ Working' = {} /\ pc' = "answered"
        /\ IsSingle(request)'
    BY <1>0, <1>5 DEF SingleSample, Answer, StatsInv, Quiet, Working, IsSingle
  <2>2. StatsType'
    <3>1. [id |-> c, ok |-> TRUE] \in Result
      BY DEF Result
    <3>2. entries' \in Seq(Result)
      BY <1>5, <3>1 DEF SingleSample
    <3>3. QED
      BY <1>0, <1>5, <3>2 DEF StatsType, SingleSample, Answer
  <2>3. QED
    BY <2>1, <2>2 DEF StatsInv, Quiet, Fresh, NothingLost, OneEntryPerTarget
<1>6. QED
  BY <1>1, <1>2, <1>3, <1>4, <1>5

\* Every step keeps the inductive invariant.
LEMMA NextStatsInv == StatsInv /\ [Next]_vars => StatsInv'
  BY ListKeeps, SampledKeeps, SendKeeps, ReceiveKeeps, CollectedKeeps, OtherKeeps
  DEF Next, HandlerStep, WorkerStep

-----------------------------------------------------------------------------
\* The inductive invariant holds throughout.
THEOREM StatsInvariant == Spec => []StatsInv
  BY InitStatsInv, NextStatsInv, PTL DEF Spec

\* GatherDockerStatsAll: a bulk answer has one entry for every running container
\* the filter kept, however many there are, in whatever order the results come
\* out of the channel and whatever became of the containers meanwhile, and its
\* errors name the entries without a sample.
THEOREM EveryTargetHasItsEntry == Spec => []OneEntryPerTarget
<1>1. StatsInv => OneEntryPerTarget
  BY DEF StatsInv
<1>2. QED
  BY <1>1, StatsInvariant, PTL

\* GatherDockerStatsAll: a handler that has answered leaves neither a goroutine
\* nor a result in the channel behind, a deadline that passes meanwhile included.
THEOREM NoGoroutineLeaks == Spec => []NoWorkerLeft
<1>1. StatsInv => NoWorkerLeft
  BY DEF StatsInv, StatsType, Quiet, NoWorkerLeft, Working
<1>2. QED
  BY <1>1, StatsInvariant, PTL
=============================================================================
