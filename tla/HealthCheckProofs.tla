------------------------- MODULE HealthCheckProofs -------------------------
(***************************************************************************)
(* Proofs about get_system_health_check, for any partitions, readings,     *)
(* core counts and policies, and a policy that is reloaded between any two *)
(* collectors: the verdict is the worst reading, and what was omitted is   *)
(* told.                                                                   *)
(***************************************************************************)
EXTENDS HealthCheck, FiniteSetTheorems, TLAPS

Statuses == {"ok", "warning", "critical"}

Checks == [component : Components, status : Statuses]

\* The collectors whose turn is still to come when it is p's turn.
Later(p) ==
    CASE p = "memory_info" -> Collectors
      [] p = "disk_info" -> Collectors \ {"memory_info"}
      [] p = "cpu_info" -> {"cpu_info", "load_average", "systemd_units"}
      [] p = "load_average" -> {"load_average", "systemd_units"}
      [] p = "systemd_units" -> {"systemd_units"}
      [] OTHER -> {}

ReadingsType ==
    readings \in [memory : Percents \cup {Unread}, disk : Usages,
                  cores : CoreCounts \cup {Unread}, load : Loads \cup {Unread},
                  units : UnitCounts \cup {Unread}]

\* A collector has ended exactly when its turn is over.
TurnsTaken == \A k \in Collectors : outcome[k] = "pending" <=> k \in Later(pc)

\* A collector that has not had its turn has read nothing.
NotYetRead ==
    /\ "memory_info" \in Later(pc) => readings.memory = Unread
    /\ "disk_info" \in Later(pc) => readings.disk = [p \in Partitions |-> Unread]
    /\ "cpu_info" \in Later(pc) => readings.cores = Unread
    /\ "load_average" \in Later(pc) => readings.load = Unread
    /\ "systemd_units" \in Later(pc) => readings.units = Unread
    /\ cpu = readings.cores

\* The readings that raise a warning and are not critical themselves.
MildReadings ==
    \/ readings.memory # Unread /\ readings.memory > 80 /\ readings.memory <= 90
    \/ \E p \in Partitions : readings.disk[p] # Unread
            /\ readings.disk[p] >= 80 /\ readings.disk[p] < 90
    \/ readings.cores # Unread /\ readings.cores > 0 /\ readings.load # Unread
            /\ readings.load > readings.cores
            /\ readings.load <= 2 * readings.cores

\* The flags tell the readings so far.
FlagsTell ==
    /\ hasCritical <=> CriticalReadings
    /\ hasWarning <=> MildReadings

\* How often k is named in the errors e.
Count(e, k) == Cardinality({i \in DOMAIN e : e[i] = k})

\* A collector that failed or was disabled is named once, the others are not.
ErrorsTell ==
    \A k \in Collectors :
        Count(errs, k) = IF outcome[k] \in {"pending", "ok"} THEN 0 ELSE 1

\* The verdict follows the flags and the errors.
VerdictFollows ==
    pc \in {"answer", "done"} =>
        overall = IF hasCritical THEN "CRITICAL"
                  ELSE IF hasWarning THEN "WARNING"
                  ELSE IF errs # <<>> THEN "UNKNOWN" ELSE "OK"

\* The inductive invariant.
HealthInv == /\ TypeOK /\ ReadingsType /\ TurnsTaken /\ NotYetRead
             /\ FlagsTell /\ ErrorsTell /\ VerdictFollows

-----------------------------------------------------------------------------
(* The operators.                                                          *)

\* A set as a sequence has the elements of the set.
LEMMA ListingOfSet ==
    ASSUME NEW S, IsFiniteSet(S)
    PROVE  /\ SetToSeq(S) \in Seq(S)
           /\ \A x \in S : \E i \in DOMAIN SetToSeq(S) : SetToSeq(S)[i] = x
<1> DEFINE n == Cardinality(S)
           f == SetToSeq(S)
<1>1. n \in Nat /\ ExistsBijection(1..n, S)
  BY FS_CardinalityType
<1>2. \E g \in [1..n -> S] : IsInjective(g)
  <2>1. PICK g : g \in Bijection(1..n, S)
    BY <1>1 DEF ExistsBijection
  <2>2. QED
    BY <2>1 DEF Bijection, Injection, IsInjective
<1>3. f \in [1..n -> S] /\ IsInjective(f)
  BY <1>2 DEF SetToSeq
<1>4. IsFiniteSet(1..n) /\ Cardinality(1..n) = n
  BY <1>1, FS_Interval
<1>5. f \in Surjection(1..n, S)
  BY <1>3, <1>4, FS_Injection DEF Injection
<1> HIDE DEF f
<1>6. f \in Seq(S) /\ DOMAIN f = 1..n
  BY <1>1, <1>3
<1>7. \A x \in S : \E i \in 1..n : f[i] = x
  BY <1>5 DEF Surjection
<1>8. QED
  BY <1>6, <1>7 DEF f

\* Appending a name to the errors counts it once more.
LEMMA CountAppend ==
    ASSUME NEW T, NEW e \in Seq(T), NEW x \in T, NEW k
    PROVE  /\ Count(Append(e, x), k) = IF x = k THEN Count(e, k) + 1 ELSE Count(e, k)
           /\ Count(e, k) \in Nat
<1> DEFINE old == {i \in DOMAIN e : e[i] = k}
           new == {i \in DOMAIN Append(e, x) : Append(e, x)[i] = k}
           n == Len(e)
<1>1. /\ n \in Nat /\ DOMAIN e = 1..n /\ DOMAIN Append(e, x) = 1..(n + 1)
      /\ \A i \in 1..n : Append(e, x)[i] = e[i]
      /\ Append(e, x)[n + 1] = x
  OBVIOUS
<1>2. IsFiniteSet(old)
  <2>1. IsFiniteSet(1..n) /\ old \in SUBSET (1..n)
    BY <1>1, FS_Interval
  <2>2. QED
    BY <2>1, FS_Subset
<1>3. n + 1 \notin old
  BY <1>1
<1>4. new = IF x = k THEN old \cup {n + 1} ELSE old
  BY <1>1
<1>5. QED
  BY <1>2, <1>3, <1>4, FS_AddElement, FS_CardinalityType DEF Count

\* What Record makes of well-formed checks.
LEMMA RecordType ==
    ASSUME TypeOK, NEW new \in Seq(Checks), Record(new)
    PROVE  /\ checks' \in Seq(Checks)
           /\ hasWarning' \in BOOLEAN /\ hasCritical' \in BOOLEAN
  BY DEF TypeOK, Record, Checks, Statuses

\* One check raises the flag of its status.
LEMMA RecordOne ==
    ASSUME TypeOK, NEW component \in Components, NEW status \in Statuses,
           Record(<<Check(component, status)>>)
    PROVE  /\ checks' \in Seq(Checks)
           /\ hasWarning' \in BOOLEAN /\ hasCritical' \in BOOLEAN
           /\ hasCritical' <=> (hasCritical \/ status = "critical")
           /\ hasWarning' <=> (hasWarning \/ status = "warning")
<1> DEFINE c == Check(component, status)
<1>1. c \in Checks /\ c.status = status
  BY DEF Check, Checks
<1> HIDE DEF c
<1>2. <<c>> \in Seq(Checks) /\ DOMAIN <<c>> = {1} /\ <<c>>[1] = c
  BY <1>1
<1>3. Record(<<c>>)
  BY DEF c
<1>4. QED
  BY <1>1, <1>2, <1>3, RecordType DEF Record

-----------------------------------------------------------------------------
(* The turns.                                                              *)

Follows(k, next) == \/ k = "memory_info" /\ next = "disk_info"
                    \/ k = "disk_info" /\ next = "cpu_info"
                    \/ k = "cpu_info" /\ next = "load_average"
                    \/ k = "load_average" /\ next = "systemd_units"
                    \/ k = "systemd_units" /\ next = "verdict"

\* The turn of k takes k off the list.
LEMMA TurnEnds ==
    ASSUME NEW k, NEW next, Follows(k, next)
    PROVE  /\ k \in Collectors /\ next \in Collectors \cup {"verdict"}
           /\ k \in Later(k) /\ Later(next) = Later(k) \ {k}
           /\ Later(k) \subseteq Collectors
  BY DEF Follows, Later, Collectors

\* Collector k ends in o: the turn passes on.
LEMMA TurnPasses ==
    ASSUME HealthInv, NEW k, NEW next, Follows(k, next), pc = k, pc' = next,
           NEW o \in {"ok", "failed", "disabled"},
           outcome' = [outcome EXCEPT ![k] = o]
    PROVE  /\ outcome' \in [Collectors -> {"pending", "ok", "failed", "disabled"}]
           /\ TurnsTaken' /\ VerdictFollows' /\ outcome[k] = "pending"
           /\ pc' \in Collectors \cup {"verdict", "answer", "done"}
           /\ Later(pc') = Later(pc) \ {k}
<1>1. /\ k \in Collectors /\ next \in Collectors \cup {"verdict"}
      /\ k \in Later(k) /\ Later(next) = Later(k) \ {k}
  BY TurnEnds
<1>2. outcome \in [Collectors -> {"pending", "ok", "failed", "disabled"}]
  BY DEF HealthInv, TypeOK
<1>3. /\ outcome' \in [Collectors -> {"pending", "ok", "failed", "disabled"}]
      /\ outcome'[k] = o /\ \A j \in Collectors \ {k} : outcome'[j] = outcome[j]
  BY <1>1, <1>2
<1>4. outcome[k] = "pending"
  BY <1>1 DEF HealthInv, TurnsTaken
<1>5. TurnsTaken'
  BY <1>1, <1>3 DEF HealthInv, TurnsTaken
<1>6. VerdictFollows'
  BY <1>1 DEF VerdictFollows, Collectors
<1>7. QED
  BY <1>1, <1>3, <1>4, <1>5, <1>6

\* What a collector that returns a reading leaves to be shown.
LEMMA ReturnKeeps ==
    ASSUME HealthInv, NEW k, NEW next, Follows(k, next), NEW field, NEW r,
           Returns(k, next, field, r)
    PROVE  /\ outcome' \in [Collectors -> {"pending", "ok", "failed", "disabled"}]
           /\ TurnsTaken' /\ VerdictFollows' /\ ErrorsTell'
           /\ pc' \in Collectors \cup {"verdict", "answer", "done"}
           /\ Later(pc') = Later(pc) \ {k}
           /\ disabled' \in Policies
           /\ errs' \in Seq(Collectors \cup {"joined"})
           /\ overall' \in {"none", "OK", "WARNING", "CRITICAL", "UNKNOWN"}
           /\ readings' = [readings EXCEPT ![field] = r]
<1>1. /\ outcome' = [outcome EXCEPT ![k] = "ok"] /\ pc = k /\ pc' = next
      /\ readings' = [readings EXCEPT ![field] = r]
      /\ UNCHANGED <<disabled, errs, overall>>
  BY DEF Returns
<1>2. /\ outcome' \in [Collectors -> {"pending", "ok", "failed", "disabled"}]
      /\ TurnsTaken' /\ VerdictFollows' /\ outcome[k] = "pending"
      /\ pc' \in Collectors \cup {"verdict", "answer", "done"}
      /\ Later(pc') = Later(pc) \ {k}
  BY <1>1, TurnPasses
<1>3. \A j \in Collectors : outcome'[j] = IF j = k THEN "ok" ELSE outcome[j]
  BY <1>1 DEF HealthInv, TypeOK
<1>4. ErrorsTell'
  BY <1>1, <1>2, <1>3 DEF HealthInv, ErrorsTell, Count
<1>5. QED
  BY <1>1, <1>2, <1>4 DEF HealthInv, TypeOK

\* A collector that is disabled or fails is named in the errors, and its turn is
\* over.
LEMMA MissKeeps ==
    ASSUME HealthInv, NEW k, NEW next, Follows(k, next), MissesOut(k, next)
    PROVE  HealthInv'
<1> DEFINE o == IF k \in disabled THEN "disabled" ELSE "failed"
<1>1. /\ outcome' = [outcome EXCEPT ![k] = o] /\ pc = k /\ pc' = next
      /\ errs' = Append(errs, k)
      /\ UNCHANGED <<disabled, checks, hasWarning, hasCritical, cpu, overall,
                     readings>>
  BY DEF MissesOut
<1>2. o \in {"failed", "disabled"}
  OBVIOUS
<1> HIDE DEF o
<1>3. /\ outcome' \in [Collectors -> {"pending", "ok", "failed", "disabled"}]
      /\ TurnsTaken' /\ VerdictFollows' /\ outcome[k] = "pending"
      /\ pc' \in Collectors \cup {"verdict", "answer", "done"}
      /\ Later(pc') = Later(pc) \ {k}
  BY <1>1, <1>2, TurnPasses
<1>4. \A j \in Collectors : outcome'[j] = IF j = k THEN o ELSE outcome[j]
  BY <1>1 DEF HealthInv, TypeOK
<1>5. errs \in Seq(Collectors \cup {"joined"}) /\ k \in Collectors
  BY TurnEnds DEF HealthInv, TypeOK
<1>6. ErrorsTell'
  <2> SUFFICES ASSUME NEW j \in Collectors
               PROVE  Count(errs', j)
                        = IF outcome'[j] \in {"pending", "ok"} THEN 0 ELSE 1
    BY DEF ErrorsTell
  <2>1. Count(errs', j) = IF k = j THEN Count(errs, j) + 1 ELSE Count(errs, j)
    BY <1>1, <1>5, CountAppend
  <2>2. Count(errs, j) = IF outcome[j] \in {"pending", "ok"} THEN 0 ELSE 1
    BY DEF HealthInv, ErrorsTell
  <2>3. QED
    BY <1>2, <1>3, <1>4, <2>1, <2>2
<1>7. TypeOK'
  <2>1. errs' \in Seq(Collectors \cup {"joined"})
    BY <1>1, <1>5
  <2>2. QED
    BY <1>1, <1>3, <2>1 DEF HealthInv, TypeOK
<1>8. ReadingsType' /\ FlagsTell'
  BY <1>1 DEF HealthInv, ReadingsType, FlagsTell, CriticalReadings, MildReadings
<1>9. NotYetRead'
  BY <1>1, <1>3 DEF HealthInv, NotYetRead
<1>10. QED
  BY <1>3, <1>6, <1>7, <1>8, <1>9 DEF HealthInv

-----------------------------------------------------------------------------
(* The readings.                                                           *)

\* The readings are numbers or missing.
LEMMA ReadingsAreNumbers ==
    ASSUME HealthInv
    PROVE  /\ readings.memory # Unread => readings.memory \in Int
           /\ readings.disk \in Usages
           /\ \A p \in Partitions : readings.disk[p] # Unread => readings.disk[p] \in Int
           /\ readings.cores # Unread => readings.cores \in Nat
           /\ readings.load # Unread => readings.load \in Nat
           /\ readings.units # Unread => readings.units \in Nat
<1>1. /\ readings.memory \in Percents \cup {Unread} /\ readings.disk \in Usages
      /\ readings.cores \in CoreCounts \cup {Unread}
      /\ readings.load \in Loads \cup {Unread}
      /\ readings.units \in UnitCounts \cup {Unread}
  BY DEF HealthInv, ReadingsType
<1>2. /\ \A x \in Percents : x \in Int
      /\ \A x \in CoreCounts \cup Loads \cup UnitCounts : x \in Nat
  BY ReadingsAssumption
<1>3. \A p \in Partitions : readings.disk[p] \in Percents \cup {Unread}
  BY <1>1 DEF Usages
<1>4. QED
  BY <1>1, <1>2, <1>3

\* Memory: the check has the status of the reading.
LEMMA MemoryKeeps ==
    ASSUME HealthInv, NEW used \in Percents, MemoryCheck(used)
    PROVE  HealthInv'
<1>1. /\ Follows("memory_info", "disk_info") /\ cpu' = cpu
      /\ Returns("memory_info", "disk_info", "memory", used)
      /\ Record(<<Check("memory", MemoryStatus(used))>>)
      /\ pc = "memory_info"
  BY DEF MemoryCheck, Follows, Returns
<1>2. /\ readings' = [readings EXCEPT !["memory"] = used]
      /\ Later(pc') = Later(pc) \ {"memory_info"} /\ "memory_info" \in Later(pc)
  BY <1>1, ReturnKeeps, TurnEnds
<1>3. /\ readings'.memory = used /\ readings'.disk = readings.disk
      /\ readings'.cores = readings.cores /\ readings'.load = readings.load
      /\ readings'.units = readings.units /\ ReadingsType'
  BY <1>2 DEF HealthInv, ReadingsType
<1>4. MemoryStatus(used) \in Statuses /\ used \in Int /\ used # Unread
  BY ReadingsAssumption DEF MemoryStatus, Statuses
<1>5. /\ hasCritical' <=> (hasCritical \/ MemoryStatus(used) = "critical")
      /\ hasWarning' <=> (hasWarning \/ MemoryStatus(used) = "warning")
      /\ checks' \in Seq(Checks)
      /\ hasWarning' \in BOOLEAN /\ hasCritical' \in BOOLEAN
  BY <1>1, <1>4, RecordOne DEF HealthInv, Components
<1>6. readings.memory = Unread
  BY <1>2 DEF HealthInv, NotYetRead
<1>7. FlagsTell'
  BY <1>3, <1>4, <1>5, <1>6
  DEF HealthInv, FlagsTell, CriticalReadings, MildReadings, MemoryStatus
<1>8. NotYetRead'
  BY <1>1, <1>2, <1>3 DEF HealthInv, NotYetRead
<1>9. TypeOK'
  BY <1>1, <1>5, ReturnKeeps DEF HealthInv, TypeOK, Checks, Statuses
<1>10. QED
  BY <1>1, <1>3, <1>7, <1>8, <1>9, ReturnKeeps DEF HealthInv

\* CPU: the core count alone raises nothing.
LEMMA CpuKeeps ==
    ASSUME HealthInv, NEW cores \in CoreCounts, CpuRead(cores)
    PROVE  HealthInv'
<1>1. /\ Follows("cpu_info", "load_average") /\ cpu' = cores
      /\ Returns("cpu_info", "load_average", "cores", cores)
      /\ UNCHANGED <<checks, hasWarning, hasCritical>>
      /\ pc = "cpu_info"
  BY DEF CpuRead, Follows, Returns
<1>2. /\ readings' = [readings EXCEPT !["cores"] = cores]
      /\ Later(pc') = Later(pc) \ {"cpu_info"}
      /\ "load_average" \in Later(pc)
  BY <1>1, ReturnKeeps DEF Later
<1>3. /\ readings'.cores = cores /\ readings'.disk = readings.disk
      /\ readings'.memory = readings.memory /\ readings'.load = readings.load
      /\ readings'.units = readings.units /\ ReadingsType'
  BY <1>2 DEF HealthInv, ReadingsType
<1>4. readings.load = Unread
  BY <1>2 DEF HealthInv, NotYetRead
<1>5. FlagsTell'
  BY <1>1, <1>3, <1>4 DEF HealthInv, FlagsTell, CriticalReadings, MildReadings
<1>6. NotYetRead'
  BY <1>1, <1>2, <1>3 DEF HealthInv, NotYetRead
<1>7. TypeOK'
  BY <1>1, ReturnKeeps DEF HealthInv, TypeOK
<1>8. QED
  BY <1>1, <1>3, <1>5, <1>6, <1>7, ReturnKeeps DEF HealthInv

\* Load: compared with the core count that was read before it, if there is one.
LEMMA LoadKeeps ==
    ASSUME HealthInv, NEW load \in Loads, LoadCheck(load)
    PROVE  HealthInv'
<1>1. /\ Follows("load_average", "systemd_units") /\ cpu' = cpu
      /\ Returns("load_average", "systemd_units", "load", load)
      /\ Record(IF cpu # Unread /\ cpu > 0
                THEN <<Check("load", LoadStatus(load, cpu))>> ELSE <<>>)
      /\ pc = "load_average"
  BY DEF LoadCheck, Follows, Returns
<1>2. /\ readings' = [readings EXCEPT !["load"] = load]
      /\ Later(pc') = Later(pc) \ {"load_average"}
      /\ "load_average" \in Later(pc)
  BY <1>1, ReturnKeeps, TurnEnds
<1>3. /\ readings'.load = load /\ readings'.disk = readings.disk
      /\ readings'.memory = readings.memory /\ readings'.cores = readings.cores
      /\ readings'.units = readings.units /\ ReadingsType'
  BY <1>2 DEF HealthInv, ReadingsType
<1>4. /\ readings.load = Unread /\ cpu = readings.cores
      /\ load \in Nat /\ load # Unread
      /\ cpu # Unread => cpu \in Nat
  BY <1>2, ReadingsAreNumbers, ReadingsAssumption DEF HealthInv, NotYetRead
<1>5. /\ checks' \in Seq(Checks)
      /\ hasWarning' \in BOOLEAN /\ hasCritical' \in BOOLEAN
      /\ FlagsTell'
  <2>1. CASE cpu # Unread /\ cpu > 0
    <3>1. LoadStatus(load, cpu) \in Statuses
      BY DEF LoadStatus, Statuses
    <3>2. /\ hasCritical' <=> (hasCritical \/ LoadStatus(load, cpu) = "critical")
          /\ hasWarning' <=> (hasWarning \/ LoadStatus(load, cpu) = "warning")
          /\ checks' \in Seq(Checks)
          /\ hasWarning' \in BOOLEAN /\ hasCritical' \in BOOLEAN
      BY <1>1, <2>1, <3>1, RecordOne DEF HealthInv, Components
    <3>3. FlagsTell'
      BY <1>3, <1>4, <2>1, <3>2
      DEF HealthInv, FlagsTell, CriticalReadings, MildReadings, LoadStatus
    <3>4. QED
      BY <3>2, <3>3
  <2>2. CASE ~(cpu # Unread /\ cpu > 0)
    <3>1. Record(<<>>) /\ <<>> \in Seq(Checks)
      BY <1>1, <2>2
    <3>2. /\ checks' \in Seq(Checks)
          /\ hasWarning' \in BOOLEAN /\ hasCritical' \in BOOLEAN
      BY <3>1, RecordType DEF HealthInv
    <3>3. ~ \E i \in DOMAIN <<>> : <<>>[i].status \in {"critical", "warning"}
      OBVIOUS
    <3>4. (hasCritical' <=> hasCritical) /\ (hasWarning' <=> hasWarning)
      BY <3>1, <3>3, Zenon DEF Record
    <3>5. FlagsTell'
      BY <1>3, <1>4, <2>2, <3>3, <3>4
      DEF HealthInv, FlagsTell, CriticalReadings, MildReadings
    <3>6. QED
      BY <3>2, <3>5
  <2>3. QED
    BY <2>1, <2>2
<1>6. NotYetRead'
  BY <1>1, <1>2, <1>3 DEF HealthInv, NotYetRead
<1>7. TypeOK'
  BY <1>1, <1>5, ReturnKeeps DEF HealthInv, TypeOK, Checks, Statuses
<1>8. QED
  BY <1>1, <1>3, <1>5, <1>6, <1>7, ReturnKeeps DEF HealthInv

\* Units: one that failed is critical.
LEMMA UnitsKeep ==
    ASSUME HealthInv, NEW failed \in UnitCounts, UnitsCheck(failed)
    PROVE  HealthInv'
<1> DEFINE status == IF failed > 0 THEN "critical" ELSE "ok"
<1>1. /\ Follows("systemd_units", "verdict") /\ cpu' = cpu
      /\ Returns("systemd_units", "verdict", "units", failed)
      /\ Record(<<Check("systemd", status)>>)
      /\ pc = "systemd_units"
  BY DEF UnitsCheck, Follows, Returns
<1>2. /\ readings' = [readings EXCEPT !["units"] = failed]
      /\ Later(pc') = Later(pc) \ {"systemd_units"}
      /\ "systemd_units" \in Later(pc)
  BY <1>1, ReturnKeeps, TurnEnds
<1>3. /\ readings'.units = failed /\ readings'.disk = readings.disk
      /\ readings'.memory = readings.memory /\ readings'.cores = readings.cores
      /\ readings'.load = readings.load /\ ReadingsType'
  BY <1>2 DEF HealthInv, ReadingsType
<1>4. /\ status \in Statuses /\ readings.units = Unread
      /\ failed \in Nat /\ failed # Unread
  BY <1>2, ReadingsAssumption DEF HealthInv, NotYetRead, Statuses
<1>5. /\ hasCritical' <=> (hasCritical \/ status = "critical")
      /\ hasWarning' <=> (hasWarning \/ status = "warning")
      /\ checks' \in Seq(Checks)
      /\ hasWarning' \in BOOLEAN /\ hasCritical' \in BOOLEAN
  BY <1>1, <1>4, RecordOne DEF HealthInv, Components
<1>6. FlagsTell'
  BY <1>3, <1>4, <1>5
  DEF HealthInv, FlagsTell, CriticalReadings, MildReadings
<1>7. NotYetRead'
  BY <1>1, <1>2, <1>3 DEF HealthInv, NotYetRead
<1>8. TypeOK'
  BY <1>1, <1>5, ReturnKeeps DEF HealthInv, TypeOK, Checks, Statuses
<1>9. QED
  BY <1>1, <1>3, <1>6, <1>7, <1>8, ReturnKeeps DEF HealthInv

\* Disk: a check for every partition that is reported, or one that says ok.
LEMMA DiskKeeps ==
    ASSUME HealthInv, NEW usage \in Usages, DiskCheck(usage)
    PROVE  HealthInv'
<1> DEFINE S == Reported(usage)
           full == SetToSeq(S)
           each == [i \in DOMAIN full |-> Check("disk", DiskStatus(usage[full[i]]))]
<1>1. /\ Follows("disk_info", "cpu_info") /\ cpu' = cpu
      /\ Returns("disk_info", "cpu_info", "disk", usage)
      /\ Record(IF full = <<>> THEN <<Check("disk", "ok")>> ELSE each)
      /\ pc = "disk_info"
  BY DEF DiskCheck, Follows, Returns
<1>2. /\ readings' = [readings EXCEPT !["disk"] = usage]
      /\ Later(pc') = Later(pc) \ {"disk_info"}
      /\ "disk_info" \in Later(pc)
  BY <1>1, ReturnKeeps, TurnEnds
<1>3. /\ readings'.disk = usage /\ readings'.units = readings.units
      /\ readings'.memory = readings.memory /\ readings'.cores = readings.cores
      /\ readings'.load = readings.load /\ ReadingsType'
  BY <1>2 DEF HealthInv, ReadingsType
<1>4. /\ readings.disk = [p \in Partitions |-> Unread]
      /\ \A p \in Partitions : usage[p] # Unread => usage[p] \in Int
  <2>1. \A x \in Percents : x \in Int
    BY ReadingsAssumption
  <2>2. \A p \in Partitions : usage[p] \in Percents \cup {Unread}
    BY DEF Usages
  <2>3. QED
    BY <1>2, <2>1, <2>2 DEF HealthInv, NotYetRead
<1>5. /\ full \in Seq(S) /\ S \subseteq Partitions
      /\ \A p \in S : \E i \in DOMAIN full : full[i] = p
  <2>1. S \in SUBSET Partitions
    BY DEF Reported
  <2>2. IsFiniteSet(S)
    BY <2>1, ReadingsAssumption, FS_Subset
  <2> HIDE DEF S
  <2>3. QED
    BY <2>1, <2>2, ListingOfSet
<1> HIDE DEF full
<1>6. \A p \in S : /\ p \in Partitions /\ usage[p] # Unread /\ usage[p] \in Int
                   /\ usage[p] >= 80
  BY <1>4 DEF Reported
<1>7. \A p \in Partitions : usage[p] # Unread /\ usage[p] >= 80 => p \in S
  BY DEF Reported
<1> HIDE DEF S
<1>8. /\ checks' \in Seq(Checks)
      /\ hasWarning' \in BOOLEAN /\ hasCritical' \in BOOLEAN
      /\ hasCritical' <=> (hasCritical \/ \E p \in S : usage[p] >= 90)
      /\ hasWarning' <=> (hasWarning \/ \E p \in S : usage[p] < 90)
  <2>1. CASE full = <<>>
    <3>1. S = {}
      BY <1>5, <2>1
    <3>2. /\ hasCritical' <=> (hasCritical \/ "ok" = "critical")
          /\ hasWarning' <=> (hasWarning \/ "ok" = "warning")
          /\ checks' \in Seq(Checks)
          /\ hasWarning' \in BOOLEAN /\ hasCritical' \in BOOLEAN
      BY <1>1, <2>1, RecordOne DEF HealthInv, Components, Statuses
    <3>3. QED
      BY <3>1, <3>2
  <2>2. CASE full # <<>>
    <3>1. Record(each)
      BY <1>1, <2>2
    <3>2. \A p : Check("disk", DiskStatus(usage[p])) \in Checks
      BY DEF Check, Checks, DiskStatus, Components, Statuses
    <3>3. each \in Seq(Checks) /\ DOMAIN each = DOMAIN full
      <4>1. DOMAIN full = 1..Len(full) /\ Len(full) \in Nat
        BY <1>5
      <4>2. each \in [1..Len(full) -> Checks]
        BY <3>2, <4>1
      <4>3. QED
        BY <4>1, <4>2
    <3>4. \A i \in DOMAIN full :
              /\ each[i].status = DiskStatus(usage[full[i]])
              /\ full[i] \in S
      BY <1>5 DEF Check
    <3> HIDE DEF each
    <3>5. /\ checks' \in Seq(Checks)
          /\ hasWarning' \in BOOLEAN /\ hasCritical' \in BOOLEAN
      BY <3>1, <3>3, RecordType DEF HealthInv
    <3>6. \A p \in S : /\ DiskStatus(usage[p]) = "critical" <=> usage[p] >= 90
                       /\ DiskStatus(usage[p]) = "warning" <=> usage[p] < 90
      BY <1>6 DEF DiskStatus
    <3>7. /\ (\E i \in DOMAIN each : each[i].status = "critical")
                <=> (\E p \in S : usage[p] >= 90)
          /\ (\E i \in DOMAIN each : each[i].status = "warning")
                <=> (\E p \in S : usage[p] < 90)
      <4>1. ASSUME NEW st, NEW i \in DOMAIN each, each[i].status = st
            PROVE  full[i] \in S /\ DiskStatus(usage[full[i]]) = st
        BY <3>3, <3>4, <4>1
      <4>2. ASSUME NEW st, NEW p \in S, DiskStatus(usage[p]) = st
            PROVE  \E i \in DOMAIN each : each[i].status = st
        <5>1. PICK i \in DOMAIN full : full[i] = p
          BY <1>5
        <5>2. QED
          BY <3>3, <3>4, <4>2, <5>1
      <4>3. \A st : (\E i \in DOMAIN each : each[i].status = st)
                        <=> (\E p \in S : DiskStatus(usage[p]) = st)
        BY <4>1, <4>2
      <4>4. /\ (\E p \in S : DiskStatus(usage[p]) = "critical")
                   <=> (\E p \in S : usage[p] >= 90)
            /\ (\E p \in S : DiskStatus(usage[p]) = "warning")
                   <=> (\E p \in S : usage[p] < 90)
        BY <3>6
      <4>5. QED
        BY <4>3, <4>4
    <3>8. QED
      BY <3>1, <3>5, <3>7, Zenon DEF Record
  <2>3. QED
    BY <2>1, <2>2
<1>9. FlagsTell'
  <2>1. /\ (\E p \in S : usage[p] >= 90)
              <=> (\E p \in Partitions : usage[p] # Unread /\ usage[p] >= 90)
        /\ (\E p \in S : usage[p] < 90)
              <=> (\E p \in Partitions : usage[p] # Unread /\ usage[p] >= 80
                                            /\ usage[p] < 90)
    BY <1>4, <1>6, <1>7
  <2>2. ~ \E p \in Partitions : readings.disk[p] # Unread
    BY <1>4
  <2>3. (hasCritical <=> CriticalReadings) /\ (hasWarning <=> MildReadings)
    BY DEF HealthInv, FlagsTell
  <2>4. hasCritical' <=> CriticalReadings'
    BY <1>3, <1>8, <2>1, <2>2, <2>3 DEF CriticalReadings
  <2>5. hasWarning' <=> MildReadings'
    BY <1>3, <1>8, <2>1, <2>2, <2>3 DEF MildReadings
  <2>6. QED
    BY <2>4, <2>5 DEF FlagsTell
<1>10. NotYetRead'
  BY <1>1, <1>2, <1>3 DEF HealthInv, NotYetRead
<1>11. TypeOK'
  BY <1>1, <1>8, ReturnKeeps DEF HealthInv, TypeOK, Checks, Statuses
<1>12. QED
  BY <1>1, <1>3, <1>9, <1>10, <1>11, ReturnKeeps DEF HealthInv

-----------------------------------------------------------------------------
(* The verdict, the answer and the next call.                              *)

\* The verdict is given by the flags and the errors.
LEMMA VerdictKeeps == HealthInv /\ Verdict => HealthInv'
<1> SUFFICES ASSUME HealthInv, Verdict PROVE HealthInv'
  OBVIOUS
<1>1. /\ pc = "verdict" /\ pc' = "answer" /\ Later(pc') = Later(pc)
      /\ UNCHANGED <<disabled, checks, errs, hasWarning, hasCritical, cpu,
                     readings, outcome>>
  BY DEF Verdict, Later
<1>2. errs \in Seq(Collectors \cup {"joined"})
  BY DEF HealthInv, TypeOK
<1>3. Len(errs) > 0 <=> errs # <<>>
  BY <1>2
<1>4. overall' = IF hasCritical THEN "CRITICAL"
                 ELSE IF hasWarning THEN "WARNING"
                 ELSE IF errs # <<>> THEN "UNKNOWN" ELSE "OK"
  BY <1>3 DEF Verdict
<1>5. VerdictFollows'
  BY <1>1, <1>4 DEF VerdictFollows
<1>6. TypeOK'
  BY <1>1, <1>4 DEF HealthInv, TypeOK
<1>7. ReadingsType' /\ TurnsTaken' /\ ErrorsTell' /\ NotYetRead'
  BY <1>1 DEF HealthInv, ReadingsType, TurnsTaken, ErrorsTell, NotYetRead, Count
<1>8. FlagsTell'
  BY <1>1 DEF HealthInv, FlagsTell, CriticalReadings, MildReadings
<1>9. QED
  BY <1>5, <1>6, <1>7, <1>8 DEF HealthInv

\* The error that handleToolCall joins is none of the collectors'.
LEMMA AnswerKeeps == HealthInv /\ AnswerCall => HealthInv'
<1> SUFFICES ASSUME HealthInv, AnswerCall PROVE HealthInv'
  OBVIOUS
<1>1. /\ pc = "answer" /\ pc' = "done" /\ Later(pc') = Later(pc)
      /\ errs' = IF errs = <<>> THEN errs ELSE Append(errs, "joined")
      /\ UNCHANGED <<disabled, checks, hasWarning, hasCritical, cpu, overall,
                     readings, outcome>>
  BY DEF AnswerCall, Later
<1>2. errs \in Seq(Collectors \cup {"joined"})
  BY DEF HealthInv, TypeOK
<1>3. errs' \in Seq(Collectors \cup {"joined"}) /\ (errs' = <<>> <=> errs = <<>>)
  BY <1>1, <1>2
<1>4. ErrorsTell'
  <2> SUFFICES ASSUME NEW k \in Collectors
               PROVE  Count(errs', k)
                        = IF outcome'[k] \in {"pending", "ok"} THEN 0 ELSE 1
    BY DEF ErrorsTell
  <2>1. k # "joined"
    BY DEF Collectors
  <2>2. Count(errs', k) = Count(errs, k)
    BY <1>1, <1>2, <2>1, CountAppend
  <2>3. QED
    BY <1>1, <2>2 DEF HealthInv, ErrorsTell
<1>5. VerdictFollows'
  BY <1>1, <1>3 DEF HealthInv, VerdictFollows
<1>6. TypeOK'
  BY <1>1, <1>3 DEF HealthInv, TypeOK
<1>7. ReadingsType' /\ TurnsTaken' /\ NotYetRead'
  BY <1>1 DEF HealthInv, ReadingsType, TurnsTaken, NotYetRead
<1>8. FlagsTell'
  BY <1>1 DEF HealthInv, FlagsTell, CriticalReadings, MildReadings
<1>9. QED
  BY <1>4, <1>5, <1>6, <1>7, <1>8 DEF HealthInv

\* A reload changes the policy and nothing of the call.
LEMMA ReloadKeeps == HealthInv /\ (Reload \/ UNCHANGED vars) => HealthInv'
<1> SUFFICES ASSUME HealthInv, Reload \/ UNCHANGED vars PROVE HealthInv'
  OBVIOUS
<1>1. /\ disabled' \in Policies
      /\ UNCHANGED <<pc, checks, errs, hasWarning, hasCritical, cpu, overall,
                     readings, outcome>>
  BY DEF Reload, vars, HealthInv, TypeOK
<1>2. TypeOK' /\ ReadingsType' /\ TurnsTaken' /\ NotYetRead'
  BY <1>1 DEF HealthInv, TypeOK, ReadingsType, TurnsTaken, NotYetRead
<1>3. ErrorsTell' /\ VerdictFollows'
  BY <1>1 DEF HealthInv, ErrorsTell, VerdictFollows, Count
<1>4. FlagsTell'
  BY <1>1 DEF HealthInv, FlagsTell, CriticalReadings, MildReadings
<1>5. QED
  BY <1>2, <1>3, <1>4 DEF HealthInv

\* A call begins with nothing read, counted or said.
LEMMA FreshCall ==
    ASSUME pc = "memory_info", disabled \in Policies,
           checks = <<>>, errs = <<>>, hasWarning = FALSE, hasCritical = FALSE,
           cpu = Unread, overall = "none", readings = NoReadings,
           outcome = [k \in Collectors |-> "pending"]
    PROVE  HealthInv
<1>1. TypeOK
  <2>1. hasWarning \in BOOLEAN /\ hasCritical \in BOOLEAN
    BY Zenon
  <2>2. /\ checks \in Seq([component : Components,
                            status : {"ok", "warning", "critical"}])
        /\ errs \in Seq(Collectors \cup {"joined"})
    OBVIOUS
  <2>3. QED
    BY <2>1, <2>2 DEF TypeOK, Collectors
<1>2. ReadingsType /\ NotYetRead
  BY DEF ReadingsType, NoReadings, Usages, NotYetRead
<1>3. TurnsTaken /\ VerdictFollows
  BY DEF TurnsTaken, VerdictFollows, Later
<1>4. FlagsTell
  BY DEF FlagsTell, CriticalReadings, MildReadings, NoReadings
<1>5. ErrorsTell
  <2>1. \A k : {i \in DOMAIN errs : errs[i] = k} = {}
    OBVIOUS
  <2>2. QED
    BY <2>1, FS_EmptySet DEF ErrorsTell, Count
<1>6. QED
  BY <1>1, <1>2, <1>3, <1>4, <1>5 DEF HealthInv

\* Initially a call begins.
LEMMA InitHealthInv == Init => HealthInv
  BY FreshCall DEF Init

\* The next call begins afresh.
LEMMA NextCallKeeps == HealthInv /\ NextCall => HealthInv'
<1> SUFFICES ASSUME HealthInv, NextCall PROVE HealthInv'
  OBVIOUS
<1>0. /\ pc' = "memory_info" /\ disabled' \in Policies
      /\ checks' = <<>> /\ errs' = <<>>
      /\ hasWarning' = FALSE /\ hasCritical' = FALSE
      /\ cpu' = Unread /\ overall' = "none" /\ readings' = NoReadings
      /\ outcome' = [k \in Collectors |-> "pending"]
  BY DEF NextCall, HealthInv, TypeOK
<1>1. TypeOK'
  <2>1. hasWarning' \in BOOLEAN /\ hasCritical' \in BOOLEAN
    BY <1>0, Zenon
  <2>2. /\ checks' \in Seq([component : Components,
                             status : {"ok", "warning", "critical"}])
        /\ errs' \in Seq(Collectors \cup {"joined"})
    BY <1>0
  <2>3. QED
    BY <1>0, <2>1, <2>2 DEF TypeOK, Collectors
<1>2. ReadingsType' /\ NotYetRead'
  BY <1>0 DEF ReadingsType, NoReadings, Usages, NotYetRead
<1>3. TurnsTaken' /\ VerdictFollows'
  BY <1>0 DEF TurnsTaken, VerdictFollows, Later
<1>4. FlagsTell'
  BY <1>0 DEF FlagsTell, CriticalReadings, MildReadings, NoReadings
<1>5. ErrorsTell'
  <2>1. \A k : {i \in DOMAIN errs' : errs'[i] = k} = {}
    BY <1>0
  <2>2. QED
    BY <1>0, <2>1, FS_EmptySet DEF ErrorsTell, Count
<1>6. QED
  BY <1>1, <1>2, <1>3, <1>4, <1>5 DEF HealthInv

\* Every step keeps the inductive invariant.
LEMMA NextHealthInv == HealthInv /\ [Next]_vars => HealthInv'
<1> SUFFICES ASSUME HealthInv, [Next]_vars PROVE HealthInv'
  OBVIOUS
<1>1. ASSUME NEW k, NEW next, Follows(k, next), MissesOut(k, next)
      PROVE  HealthInv'
  BY <1>1, MissKeeps
<1>2. QED
  BY <1>1, MemoryKeeps, DiskKeeps, CpuKeeps, LoadKeeps, UnitsKeep, VerdictKeeps,
     AnswerKeeps, ReloadKeeps, NextCallKeeps
  DEF Next, Follows

-----------------------------------------------------------------------------
\* The inductive invariant holds throughout.
THEOREM HealthInvariant == Spec => []HealthInv
  BY InitHealthInv, NextHealthInv, PTL DEF Spec

\* Type correctness of the check in progress.
THEOREM HealthTypeCorrect == Spec => []TypeOK
<1>1. HealthInv => TypeOK
  BY DEF HealthInv
<1>2. QED
  BY <1>1, HealthInvariant, PTL

\* GatherSystemHealthCheck: the verdict is CRITICAL, or WARNING, exactly when
\* the worst of the readings is, whatever failed or was disabled besides and
\* however many partitions there are.
THEOREM WorstReadingDecides == Spec => []VerdictIsWorstReading
<1>1. HealthInv => VerdictIsWorstReading
  <2> SUFFICES ASSUME HealthInv, pc = "done"
               PROVE  /\ overall = "CRITICAL" <=> CriticalReadings
                      /\ overall = "WARNING" <=> WarningReadings /\ ~CriticalReadings
    BY DEF VerdictIsWorstReading
  <2>1. /\ overall = "CRITICAL" <=> hasCritical
        /\ overall = "WARNING" <=> hasWarning /\ ~hasCritical
    BY DEF HealthInv, VerdictFollows
  <2>2. MildReadings \/ CriticalReadings <=> WarningReadings \/ CriticalReadings
    BY ReadingsAreNumbers DEF MildReadings, CriticalReadings, WarningReadings
  <2>3. (hasCritical <=> CriticalReadings) /\ (hasWarning <=> MildReadings)
    BY DEF HealthInv, FlagsTell
  <2>4. QED
    BY <2>1, <2>2, <2>3
<1>2. QED
  BY <1>1, HealthInvariant, PTL

\* GatherSystemHealthCheck and handleToolCall: a collector that failed or was
\* disabled when its turn came is named in the errors exactly once, one that
\* gave a reading is not named, and a verdict of OK comes without errors.
THEOREM OmissionsAreTold == Spec => []OmissionsReported
<1>1. HealthInv => OmissionsReported
  <2> SUFFICES ASSUME HealthInv, pc = "done"
               PROVE  /\ \A k \in Collectors :
                             Count(errs, k) = IF outcome[k] = "ok" THEN 0 ELSE 1
                      /\ overall = "OK" => errs = <<>>
    BY DEF OmissionsReported, Count
  <2>1. \A k \in Collectors : outcome[k] # "pending"
    BY DEF HealthInv, TurnsTaken, Later
  <2>2. QED
    BY <2>1 DEF HealthInv, ErrorsTell, VerdictFollows
<1>2. QED
  BY <1>1, HealthInvariant, PTL
=============================================================================
