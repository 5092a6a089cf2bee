---------------------------- MODULE HealthCheck ----------------------------
(***************************************************************************)
(* GatherSystemHealthCheck (tools/storage.go) and its handler: five        *)
(* collectors are run one after the other, each behind gatherEnabled, and  *)
(* their readings are folded into a list of checks, two flags, a list of   *)
(* errors and a verdict.  The policy may be reloaded between any two       *)
(* collectors; the machine is free to give any reading.                    *)
(*                                                                         *)
(* Percentages and loads are integers, so that every threshold has values  *)
(* on both sides; a load is compared with multiples of the core count.     *)
(***************************************************************************)
EXTENDS Integers, Sequences, SequencesExt, FiniteSets

CONSTANTS
    Partitions,   \* the mounted partitions
    Percents,     \* the fill levels a partition or the memory may show
    Loads,        \* the 15-minute load averages /proc/loadavg may show
    CoreCounts,   \* what cpu.Counts may give
    UnitCounts,   \* how many failed units GatherSystemdUnits may find
    Policies      \* the sets of disabled collectors a reload may install

CONSTANT Unread   \* there is no reading

Collectors == {"memory_info", "disk_info", "cpu_info", "load_average",
               "systemd_units"}

Components == {"memory", "disk", "load", "systemd"}

ASSUME ReadingsAssumption ==
    /\ IsFiniteSet(Partitions)
    /\ Percents \subseteq 0..100 /\ Loads \subseteq Nat
    /\ CoreCounts \subseteq Nat /\ UnitCounts \subseteq Nat
    /\ Policies \subseteq SUBSET Collectors
    /\ Unread \notin Int

VARIABLES
    pc,          \* the collector whose turn it is, "verdict", "answer", "done"
    disabled,    \* the active policy
    checks,      \* out.Checks: records of a component and a status
    errs,        \* errs, later out.Errors: the names of what went wrong
    hasWarning,
    hasCritical,
    cpu,         \* the core count cpuErr leaves usable, else Unread
    overall,     \* out.Overall
    readings,    \* history: what the collectors read
    outcome      \* history: how each collector ended

vars == <<pc, disabled, checks, errs, hasWarning, hasCritical, cpu, overall,
          readings, outcome>>

-----------------------------------------------------------------------------
NoReadings == [memory |-> Unread, disk |-> [p \in Partitions |-> Unread],
               cores |-> Unread, load |-> Unread, units |-> Unread]

Init ==
    /\ pc = "memory_info"
    /\ disabled \in Policies
    /\ checks = <<>> /\ errs = <<>>
    /\ hasWarning = FALSE /\ hasCritical = FALSE
    /\ cpu = Unread /\ overall = "none"
    /\ readings = NoReadings
    /\ outcome = [k \in Collectors |-> "pending"]

Check(component, status) == [component |-> component, status |-> status]

\* Appends checks and raises the flags their statuses call for.
Record(new) ==
    /\ checks' = checks \o new
    /\ hasCritical' = (hasCritical \/ \E i \in DOMAIN new :
                            new[i].status = "critical")
    /\ hasWarning' = (hasWarning \/ \E i \in DOMAIN new :
                            new[i].status = "warning")

\* Mutant of MissesOut: appendErr is forgotten.
MissesOutSilently(k, next) ==
    /\ pc = k /\ pc' = next
    /\ outcome' = [outcome EXCEPT ![k] =
                       IF k \in disabled THEN "disabled" ELSE "failed"]
    /\ UNCHANGED <<disabled, checks, errs, hasWarning, hasCritical, cpu,
                   overall, readings>>

\* gatherEnabled returns an error, because the collector is disabled or because
\* it fails: appendErr records it and no check is made.
MissesOut(k, next) ==
    /\ pc = k /\ pc' = next
    /\ outcome' = [outcome EXCEPT ![k] =
                       IF k \in disabled THEN "disabled" ELSE "failed"]
    /\ errs' = Append(errs, k)
    /\ UNCHANGED <<disabled, checks, hasWarning, hasCritical, cpu, overall,
                   readings>>

\* Collector k is enabled and returns reading r under the name field.
Returns(k, next, field, r) ==
    /\ pc = k /\ pc' = next
    /\ k \notin disabled
    /\ outcome' = [outcome EXCEPT ![k] = "ok"]
    /\ readings' = [readings EXCEPT ![field] = r]
    /\ UNCHANGED <<disabled, errs, overall>>

\* Mutant of MemoryStatus: the last branch leaves the status empty.
MemoryStatusUnset(used) ==
    IF used > 90 THEN "critical" ELSE IF used > 80 THEN "warning" ELSE ""

MemoryStatus(used) ==
    IF used > 90 THEN "critical" ELSE IF used > 80 THEN "warning" ELSE "ok"

MemoryCheck(used) ==
    /\ Returns("memory_info", "disk_info", "memory", used)
    /\ Record(<<Check("memory", MemoryStatus(used))>>)
    /\ UNCHANGED cpu

\* GatherDiskInfo(ctx, "", 80): a partition that cannot be read, and one below
\* the threshold, is left out.
Reported(usage) == {p \in Partitions : usage[p] # Unread /\ usage[p] >= 80}

DiskStatus(used) == IF used >= 90 THEN "critical" ELSE "warning"

DiskCheck(usage) ==
    /\ Returns("disk_info", "cpu_info", "disk", usage)
    /\ LET full == SetToSeq(Reported(usage))
       IN Record(IF full = <<>> THEN <<Check("disk", "ok")>>
                 ELSE [i \in DOMAIN full |->
                          Check("disk", DiskStatus(usage[full[i]]))])
    /\ UNCHANGED cpu

CpuRead(cores) ==
    /\ Returns("cpu_info", "load_average", "cores", cores)
    /\ cpu' = cores
    /\ UNCHANGED <<checks, hasWarning, hasCritical>>

LoadStatus(load, cores) ==
    IF load > 2 * cores THEN "critical"
    ELSE IF load > cores THEN "warning" ELSE "ok"

\* Without a core count, or with a count of zero, there is no load check.
LoadCheck(load) ==
    /\ Returns("load_average", "systemd_units", "load", load)
    /\ Record(IF cpu # Unread /\ cpu > 0
              THEN <<Check("load", LoadStatus(load, cpu))>> ELSE <<>>)
    /\ UNCHANGED cpu

UnitsCheck(failed) ==
    /\ Returns("systemd_units", "verdict", "units", failed)
    /\ Record(<<Check("systemd", IF failed > 0 THEN "critical" ELSE "ok")>>)
    /\ UNCHANGED cpu

\* Mutant of Verdict: an incomplete check counts before an observed warning.
VerdictIncompleteFirst ==
    /\ pc = "verdict" /\ pc' = "answer"
    /\ overall' = IF hasCritical THEN "CRITICAL"
                  ELSE IF Len(errs) > 0 THEN "UNKNOWN"
                  ELSE IF hasWarning THEN "WARNING" ELSE "OK"
    /\ UNCHANGED <<disabled, checks, errs, hasWarning, hasCritical, cpu,
                   readings, outcome>>

Verdict ==
    /\ pc = "verdict" /\ pc' = "answer"
    /\ overall' = IF hasCritical THEN "CRITICAL"
                  ELSE IF hasWarning THEN "WARNING"
                  ELSE IF Len(errs) > 0 THEN "UNKNOWN" ELSE "OK"
    /\ UNCHANGED <<disabled, checks, errs, hasWarning, hasCritical, cpu,
                   readings, outcome>>

\* handleToolCall: out is not nil, and out.Err(), the errors joined into one,
\* is appended to the errors it was made from.
AnswerCall ==
    /\ pc = "answer" /\ pc' = "done"
    /\ errs' = IF errs = <<>> THEN errs ELSE Append(errs, "joined")
    /\ UNCHANGED <<disabled, checks, hasWarning, hasCritical, cpu, overall,
                   readings, outcome>>

\* SIGHUP: the policy changes between two steps.
Reload ==
    /\ pc # "done"
    /\ disabled' \in Policies \ {disabled}
    /\ UNCHANGED <<pc, checks, errs, hasWarning, hasCritical, cpu, overall,
                   readings, outcome>>

\* The next call.
NextCall ==
    /\ pc = "done" /\ pc' = "memory_info"
    /\ checks' = <<>> /\ errs' = <<>>
    /\ hasWarning' = FALSE /\ hasCritical' = FALSE
    /\ cpu' = Unread /\ overall' = "none"
    /\ readings' = NoReadings
    /\ outcome' = [k \in Collectors |-> "pending"]
    /\ UNCHANGED disabled

\* A partition whose disk.Usage fails has no reading.
Usages == [Partitions -> Percents \cup {Unread}]

Next ==
    \/ \E used \in Percents : MemoryCheck(used)
    \/ \E usage \in Usages : DiskCheck(usage)
    \/ \E cores \in CoreCounts : CpuRead(cores)
    \/ \E load \in Loads : LoadCheck(load)
    \/ \E failed \in UnitCounts : UnitsCheck(failed)
    \/ MissesOut("memory_info", "disk_info")
    \/ MissesOut("disk_info", "cpu_info")
    \/ MissesOut("cpu_info", "load_average")
    \/ MissesOut("load_average", "systemd_units")
    \/ MissesOut("systemd_units", "verdict")
    \/ Verdict \/ AnswerCall \/ Reload \/ NextCall

Spec == Init /\ [][Next]_vars

-----------------------------------------------------------------------------
TypeOK ==
    /\ pc \in Collectors \cup {"verdict", "answer", "done"}
    /\ disabled \in Policies
    /\ checks \in Seq([component : Components,
                       status : {"ok", "warning", "critical"}])
    /\ errs \in Seq(Collectors \cup {"joined"})
    /\ hasWarning \in BOOLEAN /\ hasCritical \in BOOLEAN
    /\ cpu \in CoreCounts \cup {Unread}
    /\ overall \in {"none", "OK", "WARNING", "CRITICAL", "UNKNOWN"}
    /\ outcome \in [Collectors -> {"pending", "ok", "failed", "disabled"}]

\* The readings that call for a critical verdict, taken as a whole and without
\* the order in which they were read.
CriticalReadings ==
    \/ readings.memory # Unread /\ readings.memory > 90
    \/ \E p \in Partitions : readings.disk[p] # Unread /\ readings.disk[p] >= 90
    \/ readings.cores # Unread /\ readings.cores > 0 /\ readings.load # Unread
            /\ readings.load > 2 * readings.cores
    \/ readings.units # Unread /\ readings.units > 0

WarningReadings ==
    \/ readings.memory # Unread /\ readings.memory > 80
    \/ \E p \in Partitions : readings.disk[p] # Unread /\ readings.disk[p] >= 80
    \/ readings.cores # Unread /\ readings.cores > 0 /\ readings.load # Unread
            /\ readings.load > readings.cores

\* The verdict is the worst thing that was read, whatever failed or was
\* disabled besides: no warning is hidden by an error and none is made up
\* (docs/tools.md, get_system_health_check).
VerdictIsWorstReading ==
    pc = "done" =>
        /\ overall = "CRITICAL" <=> CriticalReadings
        /\ overall = "WARNING" <=> WarningReadings /\ ~CriticalReadings

\* "Disabled collectors are skipped; omissions and sub-failures appear in
\* errors" (docs/tools.md): a collector is named in the errors once if it was
\* disabled or failed, and is not named if it gave a reading; a verdict of OK
\* comes without errors.
OmissionsReported ==
    pc = "done" =>
        /\ \A k \in Collectors :
               Cardinality({i \in DOMAIN errs : errs[i] = k})
                   = IF outcome[k] = "ok" THEN 0 ELSE 1
        /\ overall = "OK" => errs = <<>>

\* "Returns UNKNOWN when checks are incomplete without an observed warning or
\* critical result" (docs/tools.md): an OK verdict rests on a check of every
\* component and of every partition.
OkMeansComplete ==
    pc = "done" /\ overall = "OK" =>
        /\ \A component \in Components :
               \E i \in DOMAIN checks : checks[i].component = component
        /\ \A p \in Partitions : readings.disk[p] # Unread
=============================================================================
