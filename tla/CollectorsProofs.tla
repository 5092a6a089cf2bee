-------------------------- MODULE CollectorsProofs --------------------------
(***************************************************************************)
(* Theorems about the collectors: for any disks and any sections that are  *)
(* asked for, whatever every program and file answers and whenever the     *)
(* deadline passes, failures are told, fallbacks come last and nothing     *)
(* that was to be looked at is left out.                                   *)
(***************************************************************************)
EXTENDS Collectors, WellFoundedInduction, TLAPS

\* The sources that fall back or are fallen back to, by the order in which a
\* call meets them.
Chain == {"lastb", "journalctl", "nvidia-smi", "rocm-smi", "intel_gpu_top",
          "lspci", "pci_sysfs", "lsusb", "usb_sysfs", "apparmor_sysfs",
          "aa-status", "status", "logrotate.status"}

Place(s) ==
    CASE s \in {"lastb", "nvidia-smi", "lspci", "apparmor_sysfs", "status"} -> 1
      [] s \in {"journalctl", "rocm-smi", "pci_sysfs", "aa-status",
                "logrotate.status"} -> 2
      [] s \in {"intel_gpu_top", "lsusb"} -> 3
      [] OTHER -> 4

\* The sources before which nothing has given the call anything.
Unfed == PkgQueries \cup
        {"df -i", "findmnt", "who", "journal", "blame", "critical-chain",
         "time", "ip route", "/proc/modules", "/proc/diskstats", "host.Info",
         "/proc/loadavg", "IOCounters", "ss", "ip-api", "audit.log",
         "list-units", "sys_block", "partitions", "lastb", "journalctl",
         "nvidia-smi", "rocm-smi", "intel_gpu_top"}

\* The collectors that need all of several sources.
Joint == {"cpu.Info", "cpu.Percent", "cpu.Counts", "VirtualMemory", "SwapMemory"}

SmartAll == SmartSources \cup {"smartctl", "smart_block"}

\* A source that failed or had nothing to say.
Quiet(s) == Failed(s) \/ ~seen[s].rows

\* What is still to be asked when it is at's turn.
Ahead(w) ==
    \/ at \in CronDirs /\ w \in CronDirs \cup {"/etc/crontab"}
    \/ at = "/etc/crontab" /\ w = at
    \/ \E i, k \in DOMAIN ProcSections :
            i <= k /\ at = ProcSections[i] /\ w = ProcSections[k]
    \/ at \in {"smartctl", "smart_block"} /\ w \in AllDisks
    \/ \E i, k \in DOMAIN Disks : i <= k /\ at = DiskSources(i).H
                                         /\ w = DiskSources(k).H
    \/ \E i, k \in DOMAIN Disks : i < k /\ at = DiskSources(i).A
                                        /\ w = DiskSources(k).H

\* Why a disk may be missing: told, or the disks could not be listed.
Excused == /\ at = End
           /\ \/ tool = "smart_health" /\ errs # {}
              \/ "smart_block" \in DOMAIN seen /\ Quiet("smart_block")

\* Between calls there is nothing.
Idle == tool = "none" => at = End /\ wanted = {} /\ out = <<>> /\ errs = {}
                         /\ reply = "none" /\ seen = <<>>

Ending == /\ reply \in {"none", "value", "error"}
          /\ reply # "none" => at = End
          /\ at # End => tool # "none"

\* A failure is told, may be kept, or its fallback is next.
FailuresKnown ==
    \A s \in DOMAIN seen :
        Failed(s) => \/ Told(s) \/ s \in Silent \/ reply = "error"
                     \/ s \in DOMAIN Fallback /\ at = Fallback[s]

\* What falls back has failed or had nothing to say.
FallbackInNeed ==
    \A s \in DOMAIN Fallback :
        (at = Fallback[s] \/ \E x \in DOMAIN out : out[x].from = Fallback[s])
            => s \in DOMAIN seen /\ Quiet(s)

\* What was found comes from a source that was asked.
FoundWhereAsked == \A x \in DOMAIN out : out[x].from \in DOMAIN seen

\* Sources that fall back are asked in their order, and once.
ChainInOrder ==
    /\ at \in Chain => \A s \in DOMAIN seen \cap Chain : Place(s) < Place(at)
    /\ at \notin Chain \cup {End} => DOMAIN seen \cap Chain = {}

\* Where a call may fail, nothing it asked has given it anything.
NothingYet ==
    \/ at \in Unfed
    \/ reply = "error" /\ tool \notin {"cpu_info", "memory_info"}
    => \A s \in DOMAIN seen : Quiet(s)

\* Whose sources these are.
OfTheirTool ==
    /\ at \in Joint => tool \in {"cpu_info", "memory_info"}
    /\ at \in SmartAll => tool = "smart_health"
    /\ \A i \in DOMAIN Disks :
          DiskSources(i).H \in DOMAIN seen => at \in SmartSources \cup {End}

\* What the call was to look at was asked or is ahead.
CoveredOrAhead ==
    reply # "error" =>
        \A w \in Covered : w \in DOMAIN seen \/ Ahead(w) \/ Excused

\* The inductive invariant.
CollectorsInv ==
    /\ Idle /\ Ending /\ FailuresKnown /\ FallbackInNeed /\ FoundWhereAsked
    /\ ChainInOrder /\ NothingYet /\ OfTheirTool /\ CoveredOrAhead

-----------------------------------------------------------------------------
(* What a collector does with an answer, whichever it is.                  *)

Fails(o) == o.err \notin {"none", "updates"}

Gives(o) == ~Fails(o) /\ o.rows

\* The answer loses nothing.
AnswerGrows ==
    /\ errs \subseteq errs'
    /\ DOMAIN out \subseteq DOMAIN out'
    /\ \A x \in DOMAIN out' :
          (x \in DOMAIN out /\ out'[x] = out[x]) \/ out'[x].from = at
    /\ at \in SmartSources =>
          \A x \in DOMAIN out :
             \/ out'[x] = out[x]
             \/ \E i \in DOMAIN Disks : at = DiskSources(i).H /\ x = Disks[i]

ReplyMade == reply' \in {"none", "value", "error"} /\ (reply' = "none" <=> at' # End)

\* What becomes of a failure.
FailureKept(o) ==
    Fails(o) =>
        \/ at \in errs' \/ at \in Silent \/ reply' = "error"
        \/ at \in DOMAIN Fallback /\ at' = Fallback[at]
        \/ \E i \in DOMAIN Disks :
              at = DiskSources(i).H /\ Disks[i] \in DOMAIN out'
                                    /\ out'[Disks[i]].rows = "unknown"

FatalInNeed(o) == reply' = "error" => at \in Joint \/ (at \in Unfed /\ ~Gives(o))

\* Where a call goes from a source.
Goes(o) ==
    /\ at' \in Unfed => at \in Unfed /\ ~Gives(o)
    /\ at' \in Joint => at \in Joint
    /\ at' \in SmartAll => at \in SmartAll
    /\ at \in SmartSources => at' \in SmartSources \cup {End}
    /\ \A s \in DOMAIN Fallback : at' = Fallback[s] => at = s /\ ~Gives(o)
    /\ at \in Chain /\ at' # End => at' \in Chain /\ Place(at) < Place(at')

\* What was ahead still is, unless it was the source that was asked, or the
\* disks are not asked any more.
AheadKept(o) ==
    reply' # "error" =>
        \A w \in wanted :
            Ahead(w) => \/ w = at \/ w \in DOMAIN seen \/ Ahead(w)'
                        \/ at' = End /\ \/ at \in SmartAll /\ at \in errs'
                                        \/ at = "smart_block" /\ ~Gives(o)

Asked(o) == /\ AnswerGrows /\ ReplyMade /\ FailureKept(o) /\ FatalInNeed(o)
            /\ Goes(o) /\ AheadKept(o)

\* What the machine may answer.
LEMMA OutcomeFacts ==
    ASSUME NEW s, NEW o \in Outcomes(s)
    PROVE  /\ o.err = "updates" => s \in {"dnf check-update", "yum check-update"}
           /\ o.err = "none" /\ o.text # "full" => ~o.rows
           /\ o.err = "none" => o.text # "part"
  BY DEF Outcomes, Ends

\* A set of numbers has a least one.
LEMMA LeastNumber ==
    ASSUME NEW T, T \subseteq Nat, T # {}
    PROVE  Min(T) \in T /\ \A k \in T : Min(T) <= k
<1>1. IsWellFoundedOn(OpToRel(<, Nat), Nat)
  BY NatLessThanWellFounded
<1>2. PICK m \in T : \A k \in T : <<k, m>> \notin OpToRel(<, Nat)
  BY <1>1, WFMin
<1>3. \A k \in T : m <= k
  <2>1. SUFFICES ASSUME NEW k \in T, k < m PROVE FALSE
    OBVIOUS
  <2>2. <<k, m>> \in OpToRel(<, Nat)
    BY <2>1 DEF OpToRel
  <2>3. QED
    BY <1>2, <2>2
<1>4. QED
  BY <1>3 DEF Min

\* The first of the sources that are in a set.
LEMMA FirstOfFacts ==
    ASSUME NEW sources, Len(sources) \in Nat, NEW set, NEW i \in Nat \ {0}
    PROVE  \/ /\ FirstOf(sources, set, i) = End
              /\ \A k \in i..Len(sources) : sources[k] \notin set
           \/ \E m \in i..Len(sources) :
                 /\ FirstOf(sources, set, i) = sources[m]
                 /\ \A k \in i..Len(sources) : sources[k] \in set => m <= k
<1> DEFINE rest == {k \in i..Len(sources) : sources[k] \in set}
<1>1. CASE rest = {}
  BY <1>1 DEF FirstOf
<1>2. CASE rest # {}
  <2>1. rest \subseteq Nat
    OBVIOUS
  <2>2. Min(rest) \in rest /\ \A k \in rest : Min(rest) <= k
    BY <1>2, <2>1, LeastNumber
  <2>3. FirstOf(sources, set, i) = sources[Min(rest)]
    BY <1>2 DEF FirstOf
  <2>4. QED
    BY <2>2, <2>3
<1>3. QED
  BY <1>1, <1>2

-----------------------------------------------------------------------------
(* Which sources are which.                                                *)

Plain == FixedFiles \cup Commands \cup PkgQueries

\* The sources whose collector goes through a list.
Listed == SmartAll \cup CronDirs \cup Range(ProcSections) \cup {"/etc/crontab"}

LEMMA PlainFacts ==
    ASSUME NEW s \in Plain \cup {End}
    PROVE  /\ s \notin SmartSources
           /\ \A i \in DOMAIN Disks :
                 s # Disks[i] /\ s # DiskSources(i).H /\ s # DiskSources(i).A
<1>1. \A i \in DOMAIN Disks :
          s # Disks[i] /\ s # DiskSources(i).H /\ s # DiskSources(i).A
  BY DisksAssumption DEF Plain
<1>2. QED
  BY <1>1 DEF SmartSources

LEMMA DiskFacts ==
    ASSUME NEW i \in DOMAIN Disks, NEW j \in DOMAIN Disks
    PROVE  /\ DiskSources(i).H = DiskSources(j).H => i = j
           /\ DiskSources(i).A = DiskSources(j).A => i = j
           /\ Disks[i] = Disks[j] => i = j
           /\ DiskSources(i).H # DiskSources(j).A
           /\ Disks[i] # DiskSources(j).H
           /\ Disks[i] # DiskSources(j).A
           /\ {Disks[i], DiskSources(i).H, DiskSources(i).A}
                \cap (Plain \cup {End}) = {}
  BY DisksAssumption DEF Plain

LEMMA ChainPlain == Chain \subseteq Plain /\ Fallback \in [DOMAIN Fallback -> Chain]
  BY DEF Chain, Fallback, Plain, FixedFiles, Commands

LEMMA UnfedPlain == Unfed \cup Joint \subseteq Plain
  BY DEF Unfed, Joint, Plain, FixedFiles, Commands

\* The other sources that are in no list.
Others == {"getenforce", "crontab -l", "list-timers", "timedatectl", "chronyc",
           "logrotate.conf", "logrotate.d", "/proc/mounts", "power_supply",
           "BAT0", "/etc/passwd", "/etc/group", "usage", "dir", "LookupHost",
           "sensors", "pidstat", "ping", "systemctl status", "/proc/mdstat",
           "/proc/locks", "/proc/sysvipc/shm"}

LEMMA OthersPlain ==
    Others \subseteq Plain /\ Others \cap (Unfed \cup Chain \cup Joint) = {}
  BY DEF Others, Plain, FixedFiles, Commands, Unfed, Chain, Joint, PkgQueries

\* No source of these is one of a list.
LEMMA NotListed ==
    ASSUME NEW s \in Unfed \cup Chain \cup Joint \cup Others
    PROVE  s \notin Listed
<1>1. s \in Plain
  BY ChainPlain, UnfedPlain, OthersPlain
<1>2. s \notin SmartSources
  BY <1>1, PlainFacts
<1>3. s \notin CronDirs \cup {"/etc/crontab", "smartctl", "smart_block"}
  BY DEF Unfed, Chain, Joint, Others, CronDirs, PkgQueries
<1>4. Range(ProcSections) = {"interrupts", "softirqs", "vmstat", "diskstats",
                             "filesystems", "version", "slabinfo"}
  BY DEF Range, ProcSections
<1>5. s \notin Range(ProcSections)
  BY <1>4 DEF Unfed, Chain, Joint, Others, PkgQueries
<1>6. QED
  BY <1>2, <1>3, <1>5 DEF Listed, SmartAll

-----------------------------------------------------------------------------
(* What an answer does to the call, collector by collector.                *)

LEMMA GoesEnd ==
    ASSUME NEW o, at' = End
    PROVE  Goes(o)
<1>1. End \notin Chain \cup Unfed \cup Joint
  BY DEF End, Chain, Unfed, Joint, PkgQueries
<1>2. End \notin SmartAll
  BY PlainFacts DEF SmartAll, End
<1>3. \A s \in DOMAIN Fallback : Fallback[s] # End
  BY <1>1, ChainPlain
<1>4. QED
  BY <1>1, <1>2, <1>3 DEF Goes

\* From a source that is in no order to another.
LEMMA GoesAlong ==
    ASSUME NEW o, at \notin SmartSources \cup Chain,
           at' \notin Unfed \cup Chain \cup Joint \cup SmartAll
    PROVE  Goes(o)
  BY ChainPlain DEF Goes

\* A section more, or another row of one, that says where it is from.
LEMMA FoundFacts ==
    ASSUME NEW section, NEW rows, out' = Found(section, rows)
    PROVE  /\ DOMAIN out' = DOMAIN out \cup {section}
           /\ out'[section].from = at /\ out'[section].rows = rows
           /\ \A x \in DOMAIN out \ {section} : out'[x] = out[x]
  BY DEF Found, With

\* A source that is in no list.
LEMMA AskedAlone ==
    ASSUME NEW o, at \notin Listed,
           errs \subseteq errs',
           out' = out \/ \E section, rows : out' = Found(section, rows),
           ReplyMade, FatalInNeed(o), Goes(o),
           Fails(o) => \/ at \in errs' \/ at \in Silent \/ reply' = "error"
                       \/ at \in DOMAIN Fallback /\ at' = Fallback[at]
    PROVE  Asked(o)
<1>1. at \notin SmartSources
  BY DEF Listed, SmartAll
<1>2. AnswerGrows
  <2>1. CASE out' = out
    BY <1>1, <2>1 DEF AnswerGrows
  <2>2. CASE \E section, rows : out' = Found(section, rows)
    BY <1>1, <2>2, FoundFacts DEF AnswerGrows
  <2>3. QED
    BY <2>1, <2>2
<1>3. \A w : ~Ahead(w)
  <2>1. \A i \in DOMAIN Disks : at # DiskSources(i).H /\ at # DiskSources(i).A
    BY <1>1 DEF SmartSources
  <2>2. \A i \in DOMAIN ProcSections : at # ProcSections[i]
    BY DEF Listed, Range
  <2>3. QED
    BY <2>1, <2>2 DEF Ahead, Listed, SmartAll
<1>4. AheadKept(o)
  BY <1>3 DEF AheadKept
<1>5. FailureKept(o)
  BY DEF FailureKept
<1>6. QED
  BY <1>2, <1>4, <1>5 DEF Asked

\* The one source of a collector.
LEMMA OrFatalAsked ==
    ASSUME NEW s \in Unfed, NEW section, NEW o \in Outcomes(at),
           OrFatal(s, section, o), s \notin {"dnf check-update", "yum check-update"}
    PROVE  Asked(o)
<1>1. at = s /\ at' = End /\ at \notin Listed
  BY NotListed DEF OrFatal, Step, Fatal
<1>2. o.err # "none" => Fails(o)
  BY <1>1, OutcomeFacts DEF Fails
<1>3. errs \subseteq errs' /\ (out' = out \/ \E rows : out' = Found(section, rows))
  BY DEF OrFatal, Step, Fatal
<1>4. ReplyMade
  BY <1>1 DEF OrFatal, Step, Fatal, ReplyMade, End
<1>5. FatalInNeed(o) /\ (Fails(o) => reply' = "error")
  BY <1>1, <1>2 DEF OrFatal, Step, Fatal, FatalInNeed, Gives, Fails
<1>6. QED
  BY <1>1, <1>3, <1>4, <1>5, GoesEnd, AskedAlone

\* Along the order in which sources fall back.
LEMMA GoesChain ==
    ASSUME NEW o,
           \/ /\ <<at, at'>> \in {<<"lastb", "journalctl">>,
                    <<"nvidia-smi", "rocm-smi">>, <<"rocm-smi", "intel_gpu_top">>,
                    <<"lspci", "pci_sysfs">>, <<"lsusb", "usb_sysfs">>,
                    <<"apparmor_sysfs", "aa-status">>,
                    <<"status", "logrotate.status">>}
              /\ ~Gives(o)
           \/ <<at, at'>> \in {<<"lspci", "lsusb">>, <<"pci_sysfs", "lsusb">>,
                    <<"getenforce", "apparmor_sysfs">>, <<"logrotate.d", "status">>}
    PROVE  Goes(o)
<1>1. at \in Chain \cup Others /\ at' \in Chain
  BY DEF Chain, Others
<1>2. at \notin SmartSources /\ at' \notin SmartAll
  BY <1>1, NotListed DEF Listed, SmartAll
<1>3. at' \notin Joint /\ (at' \in Unfed => at \in Unfed /\ ~Gives(o))
  BY DEF Unfed, Joint, PkgQueries
<1>4. \A s \in DOMAIN Fallback : at' = Fallback[s] => at = s /\ ~Gives(o)
  BY DEF Fallback
<1>5. at \in Chain => Place(at) < Place(at')
  BY DEF Place, Chain
<1>6. QED
  BY <1>1, <1>2, <1>3, <1>4, <1>5 DEF Goes

\* To a source that has no part in it.
LEMMA GoesOther ==
    ASSUME NEW o, at \in Unfed \cup Others \cup Range(Disks), at \notin Chain,
           at' \in Others \cup Range(Disks)
    PROVE  Goes(o)
<1>1. at \notin SmartSources
  <2>1. CASE at \in Range(Disks)
    BY <2>1, DiskFacts DEF Range, SmartSources
  <2>2. CASE at \in Unfed \cup Others
    BY <2>2, NotListed DEF Listed, SmartAll
  <2>3. QED
    BY <2>1, <2>2
<1>2. at' \notin Unfed \cup Chain \cup Joint \cup SmartAll
  <2>1. CASE at' \in Others
    BY <2>1, NotListed, OthersPlain DEF Listed
  <2>2. CASE at' \in Range(Disks)
    <3>1. at' \notin Plain /\ at' \notin SmartSources
      BY <2>2, DiskFacts DEF Range, SmartSources
    <3>2. QED
      BY <3>1, ChainPlain, UnfedPlain DEF SmartAll, Plain, FixedFiles, Commands
  <2>3. QED
    BY <2>1, <2>2
<1>3. QED
  BY <1>1, <1>2, GoesAlong

\* A source that leaves the next one to be asked.
LEMMA NextAsked ==
    ASSUME NEW found, NEW told, NEW next, NEW o,
           at \notin Listed, Step(found, told, next), Goes(o),
           found = out \/ \E section, rows : found = Found(section, rows),
           Fails(o) => \/ at \in told \cup Silent
                       \/ at \in DOMAIN Fallback /\ next = Fallback[at]
    PROVE  Asked(o)
<1>1. errs \subseteq errs' /\ at' = next /\ (Fails(o) /\ at \in told => at \in errs')
  BY DEF Step
<1>2. out' = out \/ \E section, rows : out' = Found(section, rows)
  BY DEF Step
<1>3. ReplyMade /\ reply' # "error"
  BY DEF Step, ReplyMade, End
<1>4. FatalInNeed(o)
  BY <1>3 DEF FatalInNeed
<1>5. QED
  BY <1>1, <1>2, <1>3, <1>4, AskedAlone

\* A call that ends in an error.
LEMMA FatalAsked ==
    ASSUME NEW o, at \notin Listed, Fatal,
           at \in Joint \/ (at \in Unfed /\ ~Gives(o))
    PROVE  Asked(o)
<1>1. at' = End /\ errs \subseteq errs' /\ out' = out /\ reply' = "error"
  BY DEF Fatal
<1>2. ReplyMade /\ FatalInNeed(o)
  BY <1>1 DEF ReplyMade, FatalInNeed, End
<1>3. QED
  BY <1>1, <1>2, GoesEnd, AskedAlone

LEMMA OrToldAsked ==
    ASSUME NEW section, NEW next, NEW o, at \notin Listed,
           OrTold(section, next, o), Goes(o)
    PROVE  Asked(o)
<1>1. CASE o.err = "none"
  <2>1. Step(Found(section, Parsed(o)), {}, next)
    BY <1>1 DEF OrTold
  <2>2. ~Fails(o)
    BY <1>1 DEF Fails
  <2>3. QED
    BY <2>1, <2>2, NextAsked
<1>2. CASE o.err # "none"
  <2>1. Step(Nothing, {at}, next)
    BY <1>2 DEF OrTold
  <2>2. QED
    BY <2>1, NextAsked DEF Nothing
<1>3. QED
  BY <1>1, <1>2

LEMMA OrEmptyAsked ==
    ASSUME NEW s \in Others \cap Silent, NEW section, NEW o, OrEmpty(s, section, o)
    PROVE  Asked(o)
<1>1. at \notin Listed /\ at \in Silent /\ Goes(o)
  BY NotListed, GoesEnd DEF OrEmpty, Step
<1>2. Step(Found(section, Parsed(o)), {}, End)
  BY DEF OrEmpty
<1>3. QED
  BY <1>1, <1>2, NextAsked

LEMMA AndToldAsked ==
    ASSUME NEW s \in Others, NEW section, NEW o, AndTold(s, section, o)
    PROVE  Asked(o)
<1>1. at \notin Listed /\ Goes(o)
  BY NotListed, GoesEnd DEF AndTold, Step
<1>2. Step(Found(section, Parsed(o)), IF o.err = "none" THEN {} ELSE {at}, End)
  BY DEF AndTold
<1>3. Fails(o) => at \in IF o.err = "none" THEN {} ELSE {at}
  BY DEF Fails
<1>4. QED
  BY <1>1, <1>2, <1>3, NextAsked

\* Packages.
LEMMA PackagesAsked ==
    ASSUME NEW o \in Outcomes(at),
           \/ gatherPacmanPackages(o) \/ gatherDpkgPackages(o)
           \/ gatherRpmPackages(o) \/ gatherApkPackages(o)
           \/ gatherPacmanUpdates(o) \/ gatherAptUpdates(o)
           \/ gatherRpmUpdates(o) \/ gatherApkUpdates(o)
    PROVE  Asked(o)
<1> PkgQueries \subseteq Unfed
  BY DEF Unfed
<1>1. CASE gatherPacmanPackages(o)
  BY <1>1, OrFatalAsked DEF gatherPacmanPackages, PkgQueries
<1>2. CASE gatherDpkgPackages(o)
  BY <1>2, OrFatalAsked DEF gatherDpkgPackages, PkgQueries
<1>3. CASE gatherRpmPackages(o)
  BY <1>3, OrFatalAsked DEF gatherRpmPackages, PkgQueries
<1>4. CASE gatherApkPackages(o)
  BY <1>4, OrFatalAsked DEF gatherApkPackages, PkgQueries
<1>5. CASE gatherApkUpdates(o)
  BY <1>5, OrFatalAsked DEF gatherApkUpdates, PkgQueries
<1>6. CASE gatherPacmanUpdates(o)
  <2>1. at \in Unfed /\ at \in Silent
    BY <1>6 DEF gatherPacmanUpdates, PkgQueries, Silent
  <2>2. Step(Found("updates", Parsed(o)), {}, End) /\ Goes(o)
    BY <1>6, GoesEnd DEF gatherPacmanUpdates, Step
  <2>3. QED
    BY <2>1, <2>2, NextAsked, NotListed
<1>7. CASE gatherAptUpdates(o)
  <2>1. at \in Unfed /\ at \in Silent /\ at \notin Listed
    BY <1>7, NotListed DEF gatherAptUpdates, PkgQueries, Silent
  <2>2. CASE o.err # "none" /\ o.text = "empty"
    <3>1. Fatal /\ at = "apt list"
      BY <1>7, <2>2 DEF gatherAptUpdates
    <3>2. o.err # "updates"
      <4>1. o.err = "updates" => at \in {"dnf check-update", "yum check-update"}
        BY OutcomeFacts
      <4>2. QED
        BY <3>1, <4>1
    <3>3. ~Gives(o)
      BY <2>2, <3>2 DEF Gives, Fails
    <3>4. QED
      BY <2>1, <3>1, <3>3, FatalAsked
  <2>3. CASE ~(o.err # "none" /\ o.text = "empty")
    <3>1. Step(Found("updates", Parsed(o)), {}, End) /\ Goes(o)
      BY <1>7, <2>3, GoesEnd DEF gatherAptUpdates, Step
    <3>2. QED
      BY <2>1, <3>1, NextAsked
  <2>4. QED
    BY <2>2, <2>3
<1>8. CASE gatherRpmUpdates(o)
  <2>1. at \in Unfed /\ at \notin Listed
    BY <1>8, NotListed DEF gatherRpmUpdates, PkgQueries
  <2>2. CASE Fails(o)
    <3>1. Fatal /\ ~Gives(o)
      BY <1>8, <2>2 DEF gatherRpmUpdates, Gives, Fails
    <3>2. QED
      BY <2>1, <3>1, FatalAsked
  <2>3. CASE ~Fails(o)
    <3>1. Step(Found("updates", Parsed(o)), {}, End) /\ Goes(o)
      BY <1>8, <2>3, GoesEnd DEF gatherRpmUpdates, Step, Fails
    <3>2. QED
      BY <2>1, <2>3, <3>1, NextAsked
  <2>4. QED
    BY <2>2, <2>3
<1>9. QED
  BY <1>1, <1>2, <1>3, <1>4, <1>5, <1>6, <1>7, <1>8

\* The collectors with a fallback.
LEMMA FailedLoginsAsked ==
    ASSUME NEW o \in Outcomes(at), GatherFailedLogins(o)
    PROVE  Asked(o)
<1>1. at \in {"lastb", "journalctl"} /\ at \notin Listed /\ at \in Silent
  <2>1. at \in {"lastb", "journalctl"}
    BY DEF GatherFailedLogins
  <2>2. QED
    BY <2>1, NotListed DEF Chain, Silent
<1>2. o.err # "updates" /\ at \in Unfed
  BY <1>1, OutcomeFacts DEF Unfed
<1>3. CASE at = "lastb" /\ at' = End /\ Step(Found("logins", Parsed(o)), {}, End)
  BY <1>1, <1>3, GoesEnd, NextAsked
<1>4. CASE /\ at = "lastb" /\ Step(Nothing, {}, "journalctl")
           /\ ~(o.err = "none" \/ (o.err # "absent" /\ Parsed(o) # "none"))
  <2>1. at' = "journalctl" /\ ~Gives(o)
    BY <1>2, <1>4 DEF Step, Gives, Fails
  <2>2. Goes(o)
    BY <1>4, <2>1, GoesChain
  <2>3. QED
    BY <1>1, <1>4, <2>2, NextAsked DEF Nothing
<1>5. CASE at = "journalctl" /\ o.err = "absent" /\ Fatal
  BY <1>1, <1>2, <1>5, FatalAsked DEF Gives, Fails
<1>6. CASE /\ at = "journalctl" /\ at' = End
           /\ \E told : Step(Found("logins", Parsed(o)), told, End)
  BY <1>1, <1>6, GoesEnd, NextAsked
<1>7. QED
  BY <1>3, <1>4, <1>5, <1>6 DEF GatherFailedLogins, Step

LEMMA GPUInfoAsked ==
    ASSUME NEW o \in Outcomes(at), GatherGPUInfo(o)
    PROVE  Asked(o)
<1>1. /\ at \in {"nvidia-smi", "rocm-smi", "intel_gpu_top"}
      /\ at \notin Listed /\ at \in Unfed
  <2>1. at \in {"nvidia-smi", "rocm-smi", "intel_gpu_top"}
    BY DEF GatherGPUInfo
  <2>2. QED
    BY <2>1, NotListed DEF Chain, Unfed
<1>2. /\ o.err # "updates" /\ (o.err = "none" /\ Parsed(o) = "none" => ~o.rows)
  BY <1>1, OutcomeFacts DEF Parsed
<1>3. CASE /\ at \in {"nvidia-smi", "rocm-smi"} /\ o.err = "none"
           /\ Step(Found("gpus", Parsed(o)), {}, End)
  <2>1. Goes(o) /\ ~Fails(o)
    BY <1>3, GoesEnd DEF Step, Fails
  <2>2. QED
    BY <1>1, <1>3, <2>1, NextAsked
<1>4. CASE /\ at \in {"nvidia-smi", "rocm-smi"}
           /\ ~(o.err = "none" /\ Parsed(o) # "none")
           /\ Step(Nothing, {}, IF at = "nvidia-smi" THEN "rocm-smi"
                                ELSE "intel_gpu_top")
  <2>1. Step(Nothing, {}, Fallback[at]) /\ at \in DOMAIN Fallback /\ ~Gives(o)
    BY <1>2, <1>4 DEF Fallback, Gives, Fails
  <2>2. <<at, at'>> \in {<<"nvidia-smi", "rocm-smi">>, <<"rocm-smi", "intel_gpu_top">>}
    BY <1>4 DEF Step
  <2>3. Goes(o)
    BY <2>1, <2>2, GoesChain
  <2>4. QED
    BY <1>1, <2>1, <2>3, NextAsked DEF Nothing
<1>5. CASE at = "intel_gpu_top" /\ o.err = "absent" /\ Fatal
  BY <1>1, <1>5, FatalAsked DEF Gives, Fails
<1>6. CASE at = "intel_gpu_top" /\ o.err # "absent" /\ Step(Found("gpus", "all"), {}, End)
  <2>1. o.err = "none"
    BY <1>6 DEF Outcomes, Ends
  <2>2. Goes(o) /\ ~Fails(o)
    BY <1>6, <2>1, GoesEnd DEF Step, Fails
  <2>3. QED
    BY <1>1, <1>6, <2>2, NextAsked
<1>7. QED
  BY <1>3, <1>4, <1>5, <1>6 DEF GatherGPUInfo

LEMMA BusAsked ==
    ASSUME NEW bus, NEW program, NEW sysfs, NEW next, NEW o \in Outcomes(at),
           Bus(bus, program, sysfs, next, o),
           <<program, sysfs, next>> \in {<<"lspci", "pci_sysfs", "lsusb">>,
                                         <<"lsusb", "usb_sysfs", End>>}
    PROVE  Asked(o)
<1>1. at \in {program, sysfs} /\ at \in Chain /\ at \notin Listed
  <2>1. at \in {program, sysfs} /\ at \in Chain
    BY DEF Bus, Chain
  <2>2. QED
    BY <2>1, NotListed
<1>2. o.err # "updates"
  BY <1>1, OutcomeFacts DEF Chain
<1>3. CASE o.err = "none" /\ Step(Found(bus, Parsed(o)), {}, next)
  <2>1. Goes(o)
    BY <1>1, <1>3, GoesEnd, GoesChain DEF Step
  <2>2. QED
    BY <1>1, <1>3, <2>1, NextAsked DEF Fails
<1>4. CASE o.err # "none" /\ at = program /\ Step(Nothing, {}, sysfs)
  <2>1. Goes(o)
    BY <1>4, <1>2, GoesChain DEF Step, Gives, Fails
  <2>2. at \in DOMAIN Fallback /\ sysfs = Fallback[at]
    BY <1>4 DEF Fallback
  <2>3. QED
    BY <1>1, <1>4, <2>1, <2>2, NextAsked DEF Nothing
<1>5. CASE o.err # "none" /\ at = sysfs /\ Step(Nothing, {at}, next)
  <2>1. Goes(o)
    BY <1>5, GoesEnd, GoesChain DEF Step
  <2>2. QED
    BY <1>1, <1>5, <2>1, NextAsked DEF Nothing
<1>6. QED
  BY <1>3, <1>4, <1>5 DEF Bus

LEMMA SELinuxAppArmorAsked ==
    ASSUME NEW o \in Outcomes(at), GatherSELinuxAppArmorStatus(o)
    PROVE  Asked(o)
<1>1. /\ at \in {"getenforce", "apparmor_sysfs", "aa-status"} /\ at \notin Listed
      /\ at # "apparmor_sysfs" => at \in Silent
  <2>1. at \in {"getenforce", "apparmor_sysfs", "aa-status"}
    BY DEF GatherSELinuxAppArmorStatus
  <2>2. QED
    BY <2>1, NotListed DEF Chain, Others, Silent
<1>2. o.err # "updates" /\ (o.err = "none" /\ o.text # "full" => ~o.rows)
  BY <1>1, OutcomeFacts
<1>3. CASE /\ at = "getenforce"
           /\ \E rows : Step(Found("selinux", rows), {}, "apparmor_sysfs")
  <2>1. Goes(o)
    BY <1>3, GoesChain DEF Step
  <2>2. QED
    BY <1>1, <1>3, <2>1, NextAsked
<1>4. CASE /\ at = "apparmor_sysfs" /\ o.err = "none"
           /\ Step(Found("apparmor", "all"), {}, End)
  <2>1. Goes(o) /\ ~Fails(o)
    BY <1>4, GoesEnd DEF Step, Fails
  <2>2. QED
    BY <1>1, <1>4, <2>1, NextAsked
<1>5. CASE /\ at = "apparmor_sysfs" /\ ~(o.err = "none" /\ o.text = "full")
           /\ Step(Nothing, {}, "aa-status")
  <2>1. ~Gives(o)
    BY <1>2, <1>5 DEF Gives, Fails
  <2>2. Goes(o)
    BY <1>5, <2>1, GoesChain DEF Step
  <2>3. at \in DOMAIN Fallback /\ "aa-status" = Fallback[at]
    BY <1>5 DEF Fallback
  <2>4. QED
    BY <1>1, <1>5, <2>2, <2>3, NextAsked DEF Nothing
<1>6. CASE at = "aa-status" /\ \E rows : Step(Found("apparmor", rows), {}, End)
  <2>1. Goes(o)
    BY <1>6, GoesEnd DEF Step
  <2>2. QED
    BY <1>1, <1>6, <2>1, NextAsked
<1>7. QED
  BY <1>3, <1>4, <1>5, <1>6 DEF GatherSELinuxAppArmorStatus

LEMMA LogrotateAsked ==
    ASSUME NEW o \in Outcomes(at), GatherLogrotateStatus(o)
    PROVE  Asked(o)
<1>1. /\ at \in {"logrotate.conf", "logrotate.d", "status", "logrotate.status"}
      /\ at \notin Listed
      /\ at # "status" => at \in Silent
  <2>1. at \in {"logrotate.conf", "logrotate.d", "status", "logrotate.status"}
    BY DEF GatherLogrotateStatus
  <2>2. QED
    BY <2>1, NotListed DEF Chain, Others, Silent
<1>2. o.err # "updates"
  BY <1>1, OutcomeFacts
<1>3. CASE at = "logrotate.conf"
  <2>1. PICK found : /\ found = out \/ \E section, rows : found = Found(section, rows)
                     /\ Step(found, {}, "logrotate.d")
    BY <1>3 DEF GatherLogrotateStatus, Nothing
  <2>2. Goes(o)
    BY <1>3, <2>1, GoesOther DEF Step, Others, Chain
  <2>3. QED
    BY <1>1, <1>3, <2>1, <2>2, NextAsked
<1>4. CASE at = "logrotate.d"
  <2>1. at' = "status"
    BY <1>4 DEF GatherLogrotateStatus, OrTold, Step
  <2>2. Goes(o)
    BY <1>4, <2>1, GoesChain
  <2>3. CASE o.err = "absent"
    <3>1. Step(Nothing, {}, "status")
      BY <1>4, <2>3 DEF GatherLogrotateStatus
    <3>2. QED
      BY <1>1, <1>4, <2>2, <3>1, NextAsked DEF Nothing
  <2>4. CASE o.err # "absent"
    <3>1. OrTold(at, "status", o)
      BY <1>4, <2>4 DEF GatherLogrotateStatus
    <3>2. QED
      BY <1>1, <2>2, <3>1, OrToldAsked
  <2>5. QED
    BY <2>3, <2>4
<1>5. CASE at = "status" /\ o.err = "none"
  <2>1. Step(Found("state", "all"), {}, End)
    BY <1>5 DEF GatherLogrotateStatus
  <2>2. Goes(o) /\ ~Fails(o)
    BY <1>5, <2>1, GoesEnd DEF Step, Fails
  <2>3. QED
    BY <1>1, <2>1, <2>2, NextAsked
<1>6. CASE at = "status" /\ o.err # "none"
  <2>1. Step(Nothing, {}, "logrotate.status") /\ ~Gives(o)
    BY <1>2, <1>6 DEF GatherLogrotateStatus, Gives, Fails
  <2>2. Goes(o)
    BY <1>6, <2>1, GoesChain DEF Step
  <2>3. at \in DOMAIN Fallback /\ "logrotate.status" = Fallback[at]
    BY <1>6 DEF Fallback
  <2>4. QED
    BY <1>1, <2>1, <2>2, <2>3, NextAsked DEF Nothing
<1>7. CASE at = "logrotate.status"
  <2>1. PICK found : /\ found = out \/ \E section, rows : found = Found(section, rows)
                     /\ Step(found, {}, End)
    BY <1>7 DEF GatherLogrotateStatus, Nothing
  <2>2. Goes(o)
    BY <2>1, GoesEnd DEF Step
  <2>3. QED
    BY <1>1, <1>7, <2>1, <2>2, NextAsked
<1>8. QED
  BY <1>1, <1>3, <1>4, <1>5, <1>6, <1>7

\* The collectors of several sections.
LEMMA UserAutomationAsked ==
    ASSUME NEW o \in Outcomes(at), GatherUserAutomation(o)
    PROVE  Asked(o)
<1>1. at \in {"crontab -l", "list-timers"} /\ at \notin Listed
  <2>1. at \in {"crontab -l", "list-timers"}
    BY DEF GatherUserAutomation
  <2>2. QED
    BY <2>1, NotListed DEF Others
<1>2. CASE at = "crontab -l" /\ OrTold("cron", "list-timers", o)
  <2>1. at' = "list-timers"
    BY <1>2 DEF OrTold, Step
  <2>2. Goes(o)
    BY <1>2, <2>1, GoesOther DEF Others, Chain
  <2>3. QED
    BY <1>1, <1>2, <2>2, OrToldAsked
<1>3. CASE at = "list-timers" /\ OrTold("timers", End, o)
  <2>1. Goes(o)
    BY <1>3, GoesEnd DEF OrTold, Step
  <2>2. QED
    BY <1>1, <1>3, <2>1, OrToldAsked
<1>4. CASE at = "list-timers" /\ Step(Nothing, {at}, End)
  <2>1. Goes(o)
    BY <1>4, GoesEnd DEF Step
  <2>2. QED
    BY <1>1, <1>4, <2>1, NextAsked DEF Nothing
<1>5. QED
  BY <1>2, <1>3, <1>4 DEF GatherUserAutomation

LEMMA TimeSyncAsked ==
    ASSUME NEW o \in Outcomes(at), GatherTimeSyncStatus(o)
    PROVE  Asked(o)
<1>1. /\ at \in {"timedatectl", "chronyc"} /\ at \notin Listed
      /\ at = "chronyc" => at \in Silent
  <2>1. at \in {"timedatectl", "chronyc"}
    BY DEF GatherTimeSyncStatus
  <2>2. QED
    BY <2>1, NotListed DEF Others, Silent
<1>2. CASE at = "timedatectl" /\ OrTold("ntp", "chronyc", o)
  <2>1. at' = "chronyc"
    BY <1>2 DEF OrTold, Step
  <2>2. Goes(o)
    BY <1>2, <2>1, GoesOther DEF Others, Chain
  <2>3. QED
    BY <1>1, <1>2, <2>2, OrToldAsked
<1>3. CASE at = "chronyc" /\ \E found : 
             /\ found = out \/ \E section, rows : found = Found(section, rows)
             /\ Step(found, {}, End)
  <2>1. Goes(o)
    BY <1>3, GoesEnd DEF Step
  <2>2. QED
    BY <1>1, <1>3, <2>1, NextAsked
<1>4. QED
  BY <1>2, <1>3 DEF GatherTimeSyncStatus, Nothing

\* A source of a list of its own: the disks of /sys/block.
LEMMA BlockDevicesAsked ==
    ASSUME NEW o \in Outcomes(at), GatherBlockDevices(o)
    PROVE  Asked(o)
<1>1. Disks \in Seq(STRING) /\ Disks # <<>>
  BY DisksAssumption
<1>2. CASE at = "sys_block" /\ o.err # "none" /\ Fatal
  <2>1. o.err = "updates" => at \in {"dnf check-update", "yum check-update"}
    BY OutcomeFacts
  <2>2. ~Gives(o)
    BY <1>2, <2>1 DEF Gives, Fails
  <2>3. at \in Unfed /\ at \notin Listed
    BY <1>2, NotListed DEF Unfed
  <2>4. QED
    BY <1>2, <2>2, <2>3, FatalAsked
<1>3. CASE /\ at = "sys_block" /\ o.err = "none"
           /\ Step(Nothing, {}, IF o.rows THEN Disks[1] ELSE "/proc/mounts")
  <2>1. at \in Unfed /\ at \notin Listed /\ at \notin Chain
    BY <1>3, NotListed DEF Unfed, Chain
  <2>2. at' \in Others \cup Range(Disks)
    <3>1. 1 \in DOMAIN Disks
      BY <1>1
    <3>2. at' = IF o.rows THEN Disks[1] ELSE "/proc/mounts"
      BY <1>3 DEF Step
    <3>3. QED
      BY <3>1, <3>2 DEF Others, Range
  <2>3. Goes(o) /\ ~Fails(o)
    BY <1>3, <2>1, <2>2, GoesOther DEF Fails
  <2>4. QED
    BY <1>3, <2>1, <2>3, NextAsked DEF Nothing
<1>4. CASE \E i \in DOMAIN Disks :
              at = Disks[i] /\ OrTold(at, IF i = Len(Disks) THEN "/proc/mounts"
                                          ELSE Disks[i + 1], o)
  <2>1. PICK i \in DOMAIN Disks :
              at = Disks[i] /\ OrTold(at, IF i = Len(Disks) THEN "/proc/mounts"
                                          ELSE Disks[i + 1], o)
    BY <1>4
  <2>2. at \in Range(Disks) /\ at \notin Plain /\ at \notin SmartSources
    BY <2>1, DiskFacts DEF Range, SmartSources
  <2>3. at \notin Listed /\ at \notin Chain
    <3>1. Range(ProcSections) \subseteq FixedFiles
      BY DEF FixedFiles
    <3>2. QED
      BY <2>2, <3>1, ChainPlain
         DEF Listed, SmartAll, CronDirs, Plain, FixedFiles, Commands
  <2>4. at' \in Others \cup Range(Disks)
    <3>1. at' = IF i = Len(Disks) THEN "/proc/mounts" ELSE Disks[i + 1]
      BY <2>1 DEF OrTold, Step
    <3>2. i # Len(Disks) => i + 1 \in DOMAIN Disks
      BY <1>1
    <3>3. QED
      BY <3>1, <3>2 DEF Others, Range
  <2>5. Goes(o)
    BY <2>2, <2>3, <2>4, GoesOther
  <2>6. QED
    BY <2>1, <2>3, <2>5, OrToldAsked
<1>5. CASE at = "/proc/mounts" /\ OrTold("mounts", End, o)
  <2>1. at \notin Listed /\ Goes(o)
    BY <1>5, NotListed, GoesEnd DEF Others, OrTold, Step
  <2>2. QED
    BY <1>5, <2>1, OrToldAsked
<1>6. QED
  BY <1>2, <1>3, <1>4, <1>5 DEF GatherBlockDevices

LEMMA PowerAnalyticsAsked ==
    ASSUME NEW o \in Outcomes(at), GatherPowerAnalytics(o)
    PROVE  Asked(o)
<1>1. /\ at \in {"power_supply", "BAT0"} /\ at \notin Listed /\ at \notin Chain
      /\ at = "BAT0" => at \in Silent
  <2>1. at \in {"power_supply", "BAT0"}
    BY DEF GatherPowerAnalytics
  <2>2. QED
    BY <2>1, NotListed DEF Others, Silent, Chain
<1>2. CASE at = "power_supply" /\ o.err # "none" /\ Step(Nothing, {at}, End)
  <2>1. Goes(o)
    BY <1>2, GoesEnd DEF Step
  <2>2. QED
    BY <1>1, <1>2, <2>1, NextAsked DEF Nothing
<1>3. CASE /\ at = "power_supply" /\ o.err = "none"
           /\ Step(Nothing, {}, IF o.rows THEN "BAT0" ELSE End)
  <2>1. Goes(o) /\ ~Fails(o)
    <3>1. at' \in {"BAT0", End}
      BY <1>3 DEF Step
    <3>2. QED
      BY <1>1, <1>3, <3>1, GoesEnd, GoesOther DEF Others, Fails
  <2>2. QED
    BY <1>1, <1>3, <2>1, NextAsked DEF Nothing
<1>4. CASE at = "BAT0" /\ Step(Nothing, {}, End)
  <2>1. Goes(o)
    BY <1>4, GoesEnd DEF Step
  <2>2. QED
    BY <1>1, <1>4, <2>1, NextAsked DEF Nothing
<1>5. CASE at = "BAT0" /\ OrTold("battery", End, o)
  <2>1. Goes(o)
    BY <1>5, GoesEnd DEF OrTold, Step
  <2>2. QED
    BY <1>1, <1>5, <2>1, OrToldAsked
<1>6. QED
  BY <1>2, <1>3, <1>4, <1>5 DEF GatherPowerAnalytics

LEMMA UserInfoAsked ==
    ASSUME NEW o \in Outcomes(at), GatherUserInfo(o)
    PROVE  Asked(o)
<1>1. /\ at \in {"/etc/passwd", "/etc/group"} /\ at \notin Listed /\ at \notin Chain
      /\ at = "/etc/group" => at \in Silent
  <2>1. at \in {"/etc/passwd", "/etc/group"}
    BY DEF GatherUserInfo
  <2>2. QED
    BY <2>1, NotListed DEF Others, Silent, Chain
<1>2. CASE /\ at = "/etc/passwd"
           /\ OrTold("users", IF o.err = "none" THEN "/etc/group" ELSE End, o)
  <2>1. at' \in {"/etc/group", End}
    BY <1>2 DEF OrTold, Step
  <2>2. Goes(o)
    BY <1>1, <1>2, <2>1, GoesEnd, GoesOther DEF Others
  <2>3. QED
    BY <1>1, <1>2, <2>2, OrToldAsked
<1>3. CASE at = "/etc/group" /\ Step(Found("groups", Parsed(o)), {}, End)
  <2>1. Goes(o)
    BY <1>3, GoesEnd DEF Step
  <2>2. QED
    BY <1>1, <1>3, <2>1, NextAsked
<1>4. QED
  BY <1>2, <1>3 DEF GatherUserInfo

LEMMA DiskInfoAsked ==
    ASSUME NEW o \in Outcomes(at), GatherDiskInfo(o)
    PROVE  Asked(o)
<1>1. /\ at \in {"partitions", "usage"} /\ at \notin Listed /\ at \notin Chain
      /\ at = "partitions" => at \in Unfed
      /\ at = "usage" => at \in Silent
  <2>1. at \in {"partitions", "usage"}
    BY DEF GatherDiskInfo
  <2>2. QED
    BY <2>1, NotListed DEF Others, Unfed, Silent, Chain
<1>2. CASE at = "partitions" /\ o.err # "none" /\ Fatal
  <2>1. o.err = "updates" => at \in {"dnf check-update", "yum check-update"}
    BY OutcomeFacts
  <2>2. ~Gives(o)
    BY <1>2, <2>1 DEF Gives, Fails
  <2>3. QED
    BY <1>1, <1>2, <2>2, FatalAsked
<1>3. CASE /\ at = "partitions" /\ o.err = "none"
           /\ Step(Nothing, {}, IF o.rows THEN "usage" ELSE End)
  <2>1. at' \in {"usage", End}
    BY <1>3 DEF Step
  <2>2. Goes(o) /\ ~Fails(o)
    BY <1>1, <1>3, <2>1, GoesEnd, GoesOther DEF Others, Fails
  <2>3. QED
    BY <1>1, <1>3, <2>2, NextAsked DEF Nothing
<1>4. CASE at = "usage"
  <2>1. PICK found : /\ found = out \/ \E section, rows : found = Found(section, rows)
                     /\ Step(found, {}, End)
    BY <1>4 DEF GatherDiskInfo, Nothing
  <2>2. Goes(o)
    BY <2>1, GoesEnd DEF Step
  <2>3. QED
    BY <1>1, <1>4, <2>1, <2>2, NextAsked
<1>5. QED
  BY <1>1, <1>2, <1>3, <1>4 DEF GatherDiskInfo

\* One or more sources that are all needed.
LEMMA AllOrFatalAsked ==
    ASSUME NEW sources, Range(sources) \subseteq Joint,
           \A i \in DOMAIN sources :
               i # Len(sources) => i + 1 \in DOMAIN sources,
           NEW section, NEW o, AllOrFatal(sources, section, o)
    PROVE  Asked(o)
<1>1. PICK i \in DOMAIN sources :
        /\ at = sources[i]
        /\ IF o.err # "none" THEN Fatal
           ELSE Step(Found(section, Parsed(o)), {},
                     IF i = Len(sources) THEN End ELSE sources[i + 1])
  BY DEF AllOrFatal
<1>2. at \in Joint /\ at \notin Listed
  BY <1>1, NotListed DEF Range
<1>3. CASE o.err # "none"
  BY <1>1, <1>2, <1>3, FatalAsked
<1>4. CASE o.err = "none"
  <2>1. at' = End \/ at' \in Joint
    BY <1>1, <1>4 DEF Step, Range
  <2>2. Goes(o) /\ ~Fails(o)
    <3>1. CASE at' = End
      BY <1>4, <3>1, GoesEnd DEF Fails
    <3>2. CASE at' \in Joint
      <4>1. at' \notin Unfed \cup Chain \cup SmartAll /\ at \notin Chain
        BY <1>2, <3>2, NotListed DEF Joint, Unfed, PkgQueries, Chain, Listed
      <4>2. QED
        BY <1>2, <1>4, <3>2, <4>1, ChainPlain DEF Goes, Fails, Listed, SmartAll
    <3>3. QED
      BY <2>1, <3>1, <3>2
  <2>3. QED
    BY <1>1, <1>2, <1>4, <2>2, NextAsked
<1>5. QED
  BY <1>3, <1>4

LEMMA LargestFilesAsked ==
    ASSUME NEW o, GatherLargestFiles(o)
    PROVE  Asked(o)
<1>1. at = "dir" /\ at \in Silent /\ at \notin Listed
  BY NotListed DEF GatherLargestFiles, Silent, Others
<1>2. \E rows, told : Step(Found("entries", rows), told, End)
  BY DEF GatherLargestFiles
<1>3. Goes(o)
  BY <1>2, GoesEnd DEF Step
<1>4. QED
  BY <1>1, <1>2, <1>3, NextAsked

LEMMA SoleSourceAsked ==
    ASSUME NEW o \in Outcomes(at),
           \/ GatherTopIOProcesses(o) \/ GatherPing(o) \/ GatherServiceStatus(o)
           \/ GatherFileLocks(o) \/ GatherSharedMemorySegments(o)
           \/ GatherRAIDStatus(o) \/ GatherCPUTemperature(o) \/ GatherDNSResolve(o)
    PROVE  Asked(o)
<1>1. CASE GatherTopIOProcesses(o)
  <2>1. at \notin Listed /\ OrTold("processes", End, o)
    BY <1>1, NotListed DEF GatherTopIOProcesses, Others
  <2>2. Goes(o)
    BY <2>1, GoesEnd DEF OrTold, Step
  <2>3. QED
    BY <2>1, <2>2, OrToldAsked
<1>2. CASE GatherPing(o)
  <2>1. at \notin Listed /\ at \in Silent
    BY <1>2, NotListed DEF GatherPing, Others, Silent
  <2>2. \E told : Step(Found("ping", Parsed(o)), told, End)
    BY <1>2 DEF GatherPing
  <2>3. Goes(o)
    BY <2>2, GoesEnd DEF Step
  <2>4. QED
    BY <2>1, <2>2, <2>3, NextAsked
<1>3. CASE GatherServiceStatus(o)
  BY <1>3, AndToldAsked DEF GatherServiceStatus, Others
<1>4. CASE GatherCPUTemperature(o)
  BY <1>4, AndToldAsked DEF GatherCPUTemperature, Others
<1>5. CASE GatherDNSResolve(o)
  BY <1>5, AndToldAsked DEF GatherDNSResolve, Others
<1>6. CASE GatherFileLocks(o)
  BY <1>6, OrEmptyAsked DEF GatherFileLocks, Others, Silent
<1>7. CASE GatherSharedMemorySegments(o)
  BY <1>7, OrEmptyAsked DEF GatherSharedMemorySegments, Others, Silent
<1>8. CASE GatherRAIDStatus(o)
  BY <1>8, OrEmptyAsked DEF GatherRAIDStatus, Others, Silent
<1>9. QED
  BY <1>1, <1>2, <1>3, <1>4, <1>5, <1>6, <1>7, <1>8

LEMMA OneSourceAsked ==
    ASSUME NEW o \in Outcomes(at),
           \/ GatherInodeUsage(o) \/ GatherMountOptions(o) \/ GatherLoggedInUsers(o)
           \/ GatherJournalLogs(o) \/ GatherBootBlame(o)
           \/ GatherBootCriticalChain(o) \/ GatherBootTime(o)
           \/ GatherRoutingTable(o) \/ GatherKernelModules(o)
           \/ GatherDiskIOMetrics(o) \/ GatherSystemInfo(o)
           \/ GatherLoadAverage(o) \/ GatherNetworkInfo(o)
           \/ GatherListeningPorts(o) \/ GatherIPInfo(o) \/ GatherAuditLogs(o)
           \/ GatherSystemdUnits(o)
    PROVE  Asked(o)
<1>1. \E s, section : s \in Unfed \ PkgQueries /\ OrFatal(s, section, o)
  <2>1. {"df -i", "findmnt", "who", "journal", "blame", "critical-chain", "time",
         "ip route", "/proc/modules", "/proc/diskstats", "host.Info",
         "/proc/loadavg", "IOCounters", "ss", "ip-api", "audit.log", "list-units"}
            \subseteq Unfed \ PkgQueries
    BY DEF Unfed, PkgQueries
  <2>2. QED
    BY <2>1 DEF GatherInodeUsage, GatherMountOptions, GatherLoggedInUsers,
         GatherJournalLogs, GatherBootBlame, GatherBootCriticalChain, GatherBootTime,
         GatherRoutingTable, GatherKernelModules, GatherDiskIOMetrics,
         GatherSystemInfo, GatherLoadAverage, GatherNetworkInfo,
         GatherListeningPorts, GatherIPInfo, GatherAuditLogs, GatherSystemdUnits
<1>2. PICK s, section : s \in Unfed \ PkgQueries /\ OrFatal(s, section, o)
  BY <1>1
<1>3. s \notin {"dnf check-update", "yum check-update"}
  BY <1>2 DEF PkgQueries
<1>4. QED
  BY <1>2, <1>3, OrFatalAsked

LEMMA JointAsked ==
    ASSUME NEW o, GatherCPUInfo(o) \/ GatherMemoryInfo(o)
    PROVE  Asked(o)
<1>1. CASE GatherCPUInfo(o)
  <2> DEFINE sources == <<"cpu.Info", "cpu.Percent", "cpu.Counts">>
  <2>1. Range(sources) \subseteq Joint
    BY DEF Range, Joint
  <2>2. \A i \in DOMAIN sources : i # Len(sources) => i + 1 \in DOMAIN sources
    OBVIOUS
  <2>3. AllOrFatal(sources, "cpu", o)
    BY <1>1 DEF GatherCPUInfo
  <2> HIDE DEF sources
  <2>4. QED
    BY <2>1, <2>2, <2>3, AllOrFatalAsked
<1>2. CASE GatherMemoryInfo(o)
  <2> DEFINE sources == <<"VirtualMemory", "SwapMemory">>
  <2>1. Range(sources) \subseteq Joint
    BY DEF Range, Joint
  <2>2. \A i \in DOMAIN sources : i # Len(sources) => i + 1 \in DOMAIN sources
    OBVIOUS
  <2>3. AllOrFatal(sources, "memory", o)
    BY <1>2 DEF GatherMemoryInfo
  <2> HIDE DEF sources
  <2>4. QED
    BY <2>1, <2>2, <2>3, AllOrFatalAsked
<1>3. QED
  BY <1>1, <1>2

-----------------------------------------------------------------------------
(* The collectors that go through a list.                                  *)

\* A section of a list: its rows or its error, and the next one.
LEMMA SectionAsked ==
    ASSUME NEW next, NEW o, OrTold(at, next, o), AheadKept(o),
           at \in CronDirs \cup Range(ProcSections) \cup {"/etc/crontab"},
           next \in CronDirs \cup Range(ProcSections) \cup {"/etc/crontab", End}
    PROVE  Asked(o)
<1>1. CronDirs \cup Range(ProcSections) \cup {"/etc/crontab"} \subseteq Plain
  BY DEF Plain, FixedFiles
<1>2. at \notin SmartSources /\ next \notin SmartAll
  <2>1. next \notin SmartSources
    BY <1>1, PlainFacts
  <2>2. at \notin SmartSources
    BY <1>1, PlainFacts
  <2>3. next \notin {"smartctl", "smart_block"}
    BY DEF CronDirs, Range, ProcSections, End
  <2>4. QED
    BY <2>1, <2>2, <2>3 DEF SmartAll
<1>3. at \notin Chain /\ next \notin Unfed \cup Chain \cup Joint
  <2>1. End \notin Chain \cup Unfed \cup Joint
    BY DEF End, Chain, Unfed, Joint, PkgQueries
  <2>2. QED
    BY <2>1, NotListed DEF Listed
<1>4. at' = next /\ errs \subseteq errs'
  BY DEF OrTold, Step
<1>5. Goes(o)
  BY <1>2, <1>3, <1>4, GoesAlong
<1>6. AnswerGrows
  <2>1. CASE out' = out
    BY <1>2, <1>4, <2>1 DEF AnswerGrows
  <2>2. CASE \E section, rows : out' = Found(section, rows)
    BY <1>2, <1>4, <2>2, FoundFacts DEF AnswerGrows
  <2>3. QED
    BY <2>1, <2>2 DEF OrTold, Step, Nothing
<1>7. ReplyMade /\ FatalInNeed(o)
  BY DEF OrTold, Step, ReplyMade, FatalInNeed, End
<1>8. FailureKept(o)
  BY DEF FailureKept, OrTold, Step, Fails
<1>9. QED
  BY <1>5, <1>6, <1>7, <1>8 DEF Asked

LEMMA CronJobsAsked ==
    ASSUME NEW o, GatherCronJobs(o)
    PROVE  Asked(o)
<1>1. \A w : at \in CronDirs \cup {"/etc/crontab"} /\ Ahead(w) =>
          \/ at \in CronDirs /\ w \in CronDirs \cup {"/etc/crontab"}
          \/ w = at
  <2>1. CronDirs \cup {"/etc/crontab"} \subseteq Plain
    BY DEF Plain, FixedFiles
  <2>2. at \in CronDirs \cup {"/etc/crontab"} =>
            \A i \in DOMAIN Disks : at # DiskSources(i).H /\ at # DiskSources(i).A
    BY <2>1, PlainFacts
  <2>3. at \in CronDirs \cup {"/etc/crontab"} =>
            at \notin Range(ProcSections) /\ at \notin {"smartctl", "smart_block"}
    BY DEF CronDirs, Range, ProcSections
  <2>4. QED
    BY <2>2, <2>3 DEF Ahead, Range
<1>2. CASE at \in CronDirs /\ GatherCronJobs(o)
  <2>1. PICK next \in CronDirs \cup {"/etc/crontab"} :
           /\ OrTold(at, next, o)
           /\ next \in CronDirs \ (DOMAIN seen \cup {at}) \/
              (next = "/etc/crontab" /\ CronDirs \subseteq DOMAIN seen \cup {at})
    <3>1. at # "/etc/crontab"
      BY <1>2 DEF CronDirs
    <3>2. QED
      BY <1>2, <3>1 DEF GatherCronJobs
  <2>2. at' = next
    BY <2>1 DEF OrTold, Step
  <2>3. AheadKept(o)
    BY <1>1, <1>2, <2>1, <2>2 DEF AheadKept, Ahead
  <2>4. QED
    BY <1>2, <2>1, <2>3, SectionAsked
<1>3. CASE at = "/etc/crontab" /\ OrTold(at, End, o)
  <2>1. AheadKept(o)
    <3>1. at \notin CronDirs
      BY <1>3 DEF CronDirs
    <3>2. QED
      BY <1>1, <1>3, <3>1 DEF AheadKept
  <2>2. QED
    BY <1>3, <2>1, SectionAsked
<1>4. QED
  BY <1>2, <1>3 DEF GatherCronJobs

\* Of the sections of a call none before the next is passed over.
LEMMA ProcDiagnosticsAsked ==
    ASSUME NEW o, GatherProcDiagnostics(o)
    PROVE  Asked(o)
<1>1. PICK i \in DOMAIN ProcSections :
          at = ProcSections[i] /\ OrTold(at, NextSection(i + 1), o)
  BY DEF GatherProcDiagnostics
<1>2. DOMAIN ProcSections = 1..7 /\ Len(ProcSections) = 7 /\ i \in 1..7
  BY DEF ProcSections
<1>3. \A k \in DOMAIN ProcSections : ProcSections[k] = ProcSections[i] => k = i
  BY DEF ProcSections
<1>4. at \in Range(ProcSections)
  BY <1>1 DEF Range
<1>5. at \notin CronDirs \cup {"/etc/crontab", "smartctl", "smart_block"}
  BY <1>4 DEF CronDirs, Range, ProcSections
<1>6. \A k \in DOMAIN Disks : at # DiskSources(k).H /\ at # DiskSources(k).A
  <2>1. at \in Plain
    BY <1>4 DEF Plain, FixedFiles
  <2>2. QED
    BY <2>1, PlainFacts
<1>7. \A w : Ahead(w) => \E k \in DOMAIN ProcSections : i <= k /\ w = ProcSections[k]
  BY <1>1, <1>3, <1>5, <1>6 DEF Ahead
<1>8. at' = NextSection(i + 1)
  BY <1>1 DEF OrTold, Step
<1>9. \/ /\ NextSection(i + 1) = End
         /\ \A k \in (i + 1)..7 : ProcSections[k] \notin wanted
      \/ \E m \in (i + 1)..7 :
            /\ NextSection(i + 1) = ProcSections[m]
            /\ \A k \in (i + 1)..7 : ProcSections[k] \in wanted => m <= k
  <2>1. i + 1 \in Nat \ {0} /\ Len(ProcSections) \in Nat
    BY <1>2
  <2> DEFINE first == FirstOf(ProcSections, wanted, i + 1)
  <2>2. \/ /\ first = End
           /\ \A k \in (i + 1)..Len(ProcSections) : ProcSections[k] \notin wanted
        \/ \E m \in (i + 1)..Len(ProcSections) :
              /\ first = ProcSections[m]
              /\ \A k \in (i + 1)..Len(ProcSections) :
                    ProcSections[k] \in wanted => m <= k
    BY <2>1, FirstOfFacts
  <2>3. QED
    BY <1>2, <2>2 DEF NextSection
<1>10. AheadKept(o)
  <2>1. SUFFICES ASSUME NEW w \in wanted, Ahead(w), w # at
                 PROVE  Ahead(w)'
    BY DEF AheadKept
  <2>2. PICK k \in DOMAIN ProcSections : i <= k /\ w = ProcSections[k]
    BY <1>7, <2>1
  <2>3. k \in (i + 1)..7
    BY <1>1, <1>2, <2>1, <2>2
  <2>4. PICK m \in (i + 1)..7 : at' = ProcSections[m] /\ m <= k
    BY <1>8, <1>9, <2>1, <2>2, <2>3
  <2>5. QED
    BY <1>2, <2>2, <2>3, <2>4 DEF Ahead
<1>11. NextSection(i + 1) \in Range(ProcSections) \cup {End}
  BY <1>2, <1>9 DEF Range
<1>12. QED
  BY <1>1, <1>4, <1>10, <1>11, SectionAsked

\* The next disk is the first of the wanted ones from there on.
LEMMA NextDiskFacts ==
    ASSUME NEW i \in Nat \ {0}
    PROVE  \/ /\ NextDisk(i) = End
              /\ \A k \in DOMAIN Disks : i <= k => DiskSources(k).H \notin wanted
           \/ \E m \in DOMAIN Disks :
                 /\ NextDisk(i) = DiskSources(m).H /\ i <= m
                 /\ \A k \in DOMAIN Disks :
                       i <= k /\ DiskSources(k).H \in wanted => m <= k
<1> DEFINE healths == [k \in DOMAIN Disks |-> DiskSources(k).H]
<1>1. DOMAIN Disks = 1..Len(Disks) /\ Len(Disks) \in Nat
  BY DisksAssumption
<1>2. Len(healths) = Len(Disks)
  BY <1>1
<1>3. \A k \in DOMAIN Disks : healths[k] = DiskSources(k).H
  OBVIOUS
<1>4. \A k \in i..Len(Disks) : k \in DOMAIN Disks
  BY <1>1
<1>5. NextDisk(i) = FirstOf(healths, wanted, i)
  BY DEF NextDisk
<1> HIDE DEF healths
<1>6. \/ /\ FirstOf(healths, wanted, i) = End
         /\ \A k \in i..Len(healths) : healths[k] \notin wanted
      \/ \E m \in i..Len(healths) :
            /\ FirstOf(healths, wanted, i) = healths[m]
            /\ \A k \in i..Len(healths) : healths[k] \in wanted => m <= k
  BY <1>1, <1>2, FirstOfFacts
<1>7. \A k \in DOMAIN Disks : i <= k => k \in i..Len(Disks)
  BY <1>1
<1>8. CASE /\ FirstOf(healths, wanted, i) = End
           /\ \A k \in i..Len(healths) : healths[k] \notin wanted
  BY <1>2, <1>3, <1>5, <1>7, <1>8
<1>9. CASE \E m \in i..Len(healths) :
            /\ FirstOf(healths, wanted, i) = healths[m]
            /\ \A k \in i..Len(healths) : healths[k] \in wanted => m <= k
  <2>1. PICK m \in i..Len(healths) :
            /\ FirstOf(healths, wanted, i) = healths[m]
            /\ \A k \in i..Len(healths) : healths[k] \in wanted => m <= k
    BY <1>9
  <2>2. m \in DOMAIN Disks /\ i <= m /\ NextDisk(i) = DiskSources(m).H
    BY <1>1, <1>2, <1>3, <1>4, <1>5, <2>1
  <2>3. \A k \in DOMAIN Disks : i <= k /\ DiskSources(k).H \in wanted => m <= k
    BY <1>2, <1>3, <1>7, <2>1
  <2>4. QED
    BY <2>2, <2>3
<1>10. QED
  BY <1>6, <1>8, <1>9

\* Sources of smart_health that lead to others of it, or end.
LEMMA SmartAsked ==
    ASSUME NEW o, at \in SmartAll, at' \in SmartAll \cup {End},
           at \in SmartSources => at' \in SmartSources \cup {End},
           errs \subseteq errs', reply' = IF at' = End THEN "value" ELSE "none",
           \/ out' = out
           \/ \E i, rows : /\ i \in DOMAIN Disks /\ at = DiskSources(i).H
                           /\ out' = Found(Disks[i], rows),
           FailureKept(o), AheadKept(o)
    PROVE  Asked(o)
<1>1. at \notin Chain /\ (at' \in Unfed \cup Joint \cup Chain => FALSE)
  <2>1. End \notin Chain \cup Unfed \cup Joint
    BY DEF End, Chain, Unfed, Joint, PkgQueries
  <2>2. QED
    BY <2>1, NotListed DEF Listed
<1>2. Goes(o)
  BY <1>1, ChainPlain DEF Goes
<1>3. AnswerGrows
  <2>1. CASE out' = out
    BY <2>1 DEF AnswerGrows
  <2>2. CASE \E i, rows :
                i \in DOMAIN Disks /\ at = DiskSources(i).H /\ out' = Found(Disks[i], rows)
    <3>1. PICK i, rows :
                i \in DOMAIN Disks /\ at = DiskSources(i).H /\ out' = Found(Disks[i], rows)
      BY <2>2
    <3>2. /\ DOMAIN out' = DOMAIN out \cup {Disks[i]}
          /\ out'[Disks[i]].from = at
          /\ \A x \in DOMAIN out \ {Disks[i]} : out'[x] = out[x]
      BY <3>1, FoundFacts
    <3>3. QED
      BY <3>1, <3>2 DEF AnswerGrows
  <2>3. QED
    BY <2>1, <2>2
<1>4. ReplyMade /\ FatalInNeed(o)
  BY DEF ReplyMade, FatalInNeed
<1>5. QED
  BY <1>2, <1>3, <1>4 DEF Asked

\* What is ahead of smart_health, by where it is.
LEMMA SmartAhead ==
    ASSUME NEW w, Ahead(w), at \in SmartAll
    PROVE  /\ at \in {"smartctl", "smart_block"} => w \in AllDisks
           /\ \A i \in DOMAIN Disks : at = DiskSources(i).H =>
                 \E k \in DOMAIN Disks : i <= k /\ w = DiskSources(k).H
           /\ \A i \in DOMAIN Disks : at = DiskSources(i).A =>
                 \E k \in DOMAIN Disks : i < k /\ w = DiskSources(k).H
<1>1. at \notin CronDirs \cup {"/etc/crontab"} \cup Range(ProcSections)
  <2>1. CronDirs \cup {"/etc/crontab"} \cup Range(ProcSections) \subseteq Plain
    BY DEF Plain, FixedFiles
  <2>2. {"smartctl", "smart_block"}
            \cap (CronDirs \cup {"/etc/crontab"} \cup Range(ProcSections)) = {}
    BY DEF CronDirs, Range, ProcSections
  <2>3. QED
    BY <2>1, <2>2, PlainFacts DEF SmartAll
<1>2. \A i \in DOMAIN Disks :
          DiskSources(i).H \notin {"smartctl", "smart_block"} /\
          DiskSources(i).A \notin {"smartctl", "smart_block"}
  BY PlainFacts DEF Plain, FixedFiles, Commands
<1>3. \A k \in DOMAIN ProcSections : at # ProcSections[k]
  BY <1>1 DEF Range
<1>4. QED
  BY <1>1, <1>2, <1>3, DiskFacts DEF Ahead

LEMMA SMARTHealthAsked ==
    ASSUME NEW o \in Outcomes(at), GatherSMARTHealth(o)
    PROVE  Asked(o)
<1>1. DOMAIN Disks = 1..Len(Disks) /\ Len(Disks) \in Nat
  BY DisksAssumption
<1>2. \A i \in DOMAIN Disks : /\ DiskSources(i).H \in SmartSources
                              /\ DiskSources(i).A \in SmartSources
  BY DEF SmartSources
<1>3. \A i \in Nat \ {0} : NextDisk(i) \in SmartSources \cup {End}
  BY <1>2, NextDiskFacts
<1>4. o.err = "updates" => at \in {"dnf check-update", "yum check-update"}
  BY OutcomeFacts
<1>5. CASE at = "smartctl" /\ o.err # "none" /\ Step(Nothing, {at}, End)
  BY <1>5, SmartAsked DEF SmartAll, Step, Nothing, FailureKept, AheadKept
<1>6. CASE /\ at = "smartctl" /\ o.err = "none"
           /\ Step(Nothing, {}, IF Cardinality(wanted) = 1 THEN NextDisk(1)
                                ELSE "smart_block")
  <2>1. at' = NextDisk(1) \/ at' = "smart_block"
    BY <1>6 DEF Step
  <2>2. at \in SmartAll /\ at' \in SmartAll \cup {End}
    BY <1>3, <1>6, <2>1 DEF SmartAll
  <2>3. AheadKept(o)
    <3>1. SUFFICES ASSUME NEW w \in wanted, Ahead(w) PROVE Ahead(w)'
      BY DEF AheadKept
    <3>2. w \in AllDisks
      BY <1>6, <2>2, <3>1, SmartAhead
    <3>3. CASE at' = "smart_block"
      BY <3>2, <3>3 DEF Ahead
    <3>4. CASE at' = NextDisk(1)
      <4>1. PICK k \in DOMAIN Disks : w = DiskSources(k).H
        BY <3>2 DEF AllDisks
      <4>2. PICK m \in DOMAIN Disks : at' = DiskSources(m).H /\ m <= k
        BY <1>1, <3>1, <3>4, <4>1, NextDiskFacts
      <4>3. QED
        BY <4>1, <4>2 DEF Ahead
    <3>5. QED
      BY <2>1, <3>3, <3>4
  <2>4. FailureKept(o) /\ at \notin SmartSources
    <3>1. at \in Plain
      BY <1>6 DEF Plain, Commands
    <3>2. QED
      BY <1>6, <3>1, PlainFacts DEF FailureKept, Fails
  <2>5. QED
    BY <1>6, <2>2, <2>3, <2>4, SmartAsked DEF Step, Nothing
<1>7. CASE /\ at = "smart_block" /\ Step(Nothing, {}, IF o.err = "none" /\ o.rows
                                                      THEN NextDisk(1) ELSE End)
  <2>1. at \in SmartAll /\ at' \in SmartAll \cup {End}
    BY <1>3, <1>7 DEF SmartAll, Step
  <2>2. at \notin SmartSources
    <3>1. at \in Plain
      BY <1>7 DEF Plain, FixedFiles
    <3>2. QED
      BY <3>1, PlainFacts
  <2>3. FailureKept(o)
    BY <1>7 DEF FailureKept, Silent
  <2>4. AheadKept(o)
    <3>1. CASE o.err = "none" /\ o.rows
      <4>1. SUFFICES ASSUME NEW w \in wanted, Ahead(w) PROVE Ahead(w)'
        BY DEF AheadKept
      <4>2. PICK k \in DOMAIN Disks : w = DiskSources(k).H
        BY <1>7, <2>1, <4>1, SmartAhead DEF AllDisks
      <4>3. at' = NextDisk(1)
        BY <1>7, <3>1 DEF Step
      <4>4. PICK m \in DOMAIN Disks : at' = DiskSources(m).H /\ m <= k
        BY <1>1, <4>1, <4>2, <4>3, NextDiskFacts
      <4>5. QED
        BY <4>2, <4>4 DEF Ahead
    <3>2. CASE ~(o.err = "none" /\ o.rows)
      <4>1. at' = End /\ ~Gives(o)
        BY <1>4, <1>7, <3>2 DEF Step, Gives, Fails
      <4>2. QED
        BY <1>7, <4>1 DEF AheadKept
    <3>3. QED
      BY <3>1, <3>2
  <2>5. QED
    BY <1>7, <2>1, <2>2, <2>3, <2>4, SmartAsked DEF Step, Nothing
<1>8. ASSUME NEW i \in DOMAIN Disks, at = DiskSources(i).H, late, Step(Nothing, {at}, End)
      PROVE  Asked(o)
  BY <1>2, <1>8, SmartAsked DEF SmartAll, Step, Nothing, FailureKept, AheadKept
<1>9. ASSUME NEW i \in DOMAIN Disks, gatherSMARTDevice(i, o)
      PROVE  Asked(o)
  <2>1. i + 1 \in Nat \ {0} /\ i \in Nat
    BY <1>1
  <2>2. CASE at = DiskSources(i).H
    <3>1. DiskSources(i).A # at
      BY <2>2, DiskFacts
    <3>2. at' = NextDisk(i + 1) \/ at' = DiskSources(i).A
      BY <1>9, <2>2, <3>1 DEF gatherSMARTDevice, Step
    <3>3. at' \in SmartSources \cup {End} /\ at \in SmartAll
      BY <1>2, <1>3, <2>1, <2>2, <3>2 DEF SmartAll
    <3>4. \E rows : out' = Found(Disks[i], rows)
      BY <1>9, <2>2, <3>1 DEF gatherSMARTDevice, Step
    <3>5. Fails(o) => out' = Found(Disks[i], "unknown")
      BY <1>9, <2>2, <3>1 DEF gatherSMARTDevice, Step, Fails
    <3>6. FailureKept(o)
      BY <2>2, <3>5, FoundFacts DEF FailureKept
    <3>7. AheadKept(o)
      <4>1. SUFFICES ASSUME NEW w \in wanted, Ahead(w), w # at PROVE Ahead(w)'
        BY DEF AheadKept
      <4>2. PICK k \in DOMAIN Disks : i <= k /\ w = DiskSources(k).H
        BY <2>2, <3>3, <4>1, SmartAhead
      <4>3. i < k /\ i + 1 <= k
        BY <1>1, <2>1, <2>2, <4>1, <4>2
      <4>4. CASE at' = DiskSources(i).A
        BY <4>2, <4>3, <4>4 DEF Ahead
      <4>5. CASE at' = NextDisk(i + 1)
        <5>1. PICK m \in DOMAIN Disks : at' = DiskSources(m).H /\ m <= k
          BY <2>1, <4>1, <4>2, <4>3, <4>5, NextDiskFacts
        <5>2. QED
          BY <4>2, <5>1 DEF Ahead
      <4>6. QED
        BY <3>2, <4>4, <4>5
    <3>8. QED
      <4>1. errs \subseteq errs' /\ reply' = IF at' = End THEN "value" ELSE "none"
        BY <1>9, <2>2, <3>1 DEF gatherSMARTDevice, Step
      <4>2. at' \in SmartAll \cup {End}
        BY <3>3 DEF SmartAll
      <4>3. QED
        BY <2>2, <3>3, <3>4, <3>6, <3>7, <4>1, <4>2, SmartAsked
  <2>3. CASE at = DiskSources(i).A
    <3>1. DiskSources(i).H # at
      BY <2>3, DiskFacts
    <3>2. Step(Nothing, {}, NextDisk(i + 1))
      BY <1>9, <2>3, <3>1 DEF gatherSMARTDevice
    <3>3. at' \in SmartSources \cup {End} /\ at \in SmartAll /\ at' = NextDisk(i + 1)
      BY <1>2, <1>3, <2>1, <2>3, <3>2 DEF SmartAll, Step
    <3>4. FailureKept(o)
      BY <2>3 DEF FailureKept, Silent
    <3>5. AheadKept(o)
      <4>1. SUFFICES ASSUME NEW w \in wanted, Ahead(w) PROVE Ahead(w)'
        BY DEF AheadKept
      <4>2. PICK k \in DOMAIN Disks : i < k /\ w = DiskSources(k).H
        BY <2>3, <3>3, <4>1, SmartAhead
      <4>3. i + 1 <= k
        BY <1>1, <2>1, <4>2
      <4>4. PICK m \in DOMAIN Disks : at' = DiskSources(m).H /\ m <= k
        BY <2>1, <3>3, <4>1, <4>2, <4>3, NextDiskFacts
      <4>5. QED
        BY <4>2, <4>4 DEF Ahead
    <3>6. QED
      <4>1. at' \in SmartAll \cup {End}
        BY <3>3 DEF SmartAll
      <4>2. QED
        BY <3>2, <3>3, <3>4, <3>5, <4>1, SmartAsked DEF Step, Nothing
  <2>4. QED
    BY <1>9, <2>2, <2>3 DEF gatherSMARTDevice
<1>10. QED
  BY <1>5, <1>6, <1>7, <1>8, <1>9 DEF GatherSMARTHealth

\* Whatever is asked.
LEMMA GatherAsked ==
    ASSUME NEW o \in Outcomes(at), Gather(o)
    PROVE  Asked(o)
  BY PackagesAsked, FailedLoginsAsked, GPUInfoAsked, BusAsked, SELinuxAppArmorAsked,
     LogrotateAsked, UserAutomationAsked, TimeSyncAsked, BlockDevicesAsked,
     PowerAnalyticsAsked, UserInfoAsked, DiskInfoAsked, LargestFilesAsked,
     SoleSourceAsked, OneSourceAsked, JointAsked, CronJobsAsked,
     ProcDiagnosticsAsked, SMARTHealthAsked
     DEF Gather, GatherHardwareBusInfo

-----------------------------------------------------------------------------
(* The induction.                                                          *)

\* Before a call there is nothing, whichever call it is.
LEMMA CollectorsInitially == CInit => CollectorsInv
<1> SUFFICES ASSUME CInit PROVE CollectorsInv
  OBVIOUS
<1>1. End \notin Chain \cup Unfed \cup Joint
  BY DEF End, Chain, Unfed, Joint, PkgQueries
<1>2. End \notin SmartAll
  BY PlainFacts DEF SmartAll, End
<1>3. \A s \in DOMAIN Fallback : Fallback[s] # End
  BY <1>1, ChainPlain
<1>4. at = End /\ DOMAIN seen = {} /\ DOMAIN out = {}
  BY DEF CInit
<1>5. Idle /\ Ending
  BY DEF CInit, Idle, Ending
<1>6. FailuresKnown /\ FoundWhereAsked /\ FallbackInNeed
  BY <1>3, <1>4 DEF FailuresKnown, FoundWhereAsked, FallbackInNeed
<1>7. ChainInOrder /\ NothingYet /\ OfTheirTool
  BY <1>1, <1>2, <1>4 DEF ChainInOrder, NothingYet, OfTheirTool
<1>8. CoveredOrAhead
  BY DEF CInit, CoveredOrAhead, Covered
<1>9. QED
  BY <1>5, <1>6, <1>7, <1>8 DEF CollectorsInv

\* The first source of a call is none that falls back, and one of its tool.
LEMMA FirstFacts ==
    ASSUME NEW t, NEW s, <<t, s>> \in First
    PROVE  /\ s \in Plain
           /\ \A x \in DOMAIN Fallback : s # Fallback[x]
           /\ s \in Joint => t \in {"cpu_info", "memory_info"}
           /\ s \in SmartAll => t = "smart_health"
           /\ t = "smart_health" => s = "smartctl"
           /\ t \notin {"none", "installed_packages", "available_updates",
                           "cron_jobs", "proc_diagnostics"}
<1>1. s \in Plain
  BY DEF First, Plain, FixedFiles, Commands
<1>2. \A x \in DOMAIN Fallback : s # Fallback[x]
  BY DEF First, Fallback
<1>3. s \in Joint => t \in {"cpu_info", "memory_info"}
  BY DEF First, Joint
<1>4. /\ s \in {"smartctl", "smart_block"} => t = "smart_health"
      /\ t = "smart_health" => s = "smartctl"
      /\ t \notin {"none", "installed_packages", "available_updates",
                      "cron_jobs", "proc_diagnostics"}
  BY DEF First
<1>5. QED
  BY <1>1, <1>2, <1>3, <1>4, PlainFacts DEF SmartAll

LEMMA CallKeeps ==
    ASSUME CollectorsInv, NEW t \in Tools, Call(t)
    PROVE  CollectorsInv'
<1>1. /\ seen' = <<>> /\ out' = <<>> /\ errs' = {} /\ tool' = t
      /\ reply' \in {"none", "value", "error"} /\ (reply' # "none" <=> at' = End)
  BY DEF Call, CollectorsInv, Idle
<1>2. /\ \/ t = "installed_packages" /\ at' \in PkgQueries \cup {End}
         \/ t = "available_updates" /\ at' \in PkgQueries \cup {End}
         \/ t = "cron_jobs" /\ at' \in CronDirs
         \/ t = "proc_diagnostics" /\ at' = FirstOf(ProcSections, wanted', 1)
         \/ <<t, at'>> \in First
      /\ wanted' \in Wanted(t)
  <2>1. CASE t = "installed_packages"
    <3>1. at' = GatherInstalledPackages(managers')
      BY <2>1 DEF Call
    <3>2. QED
      BY <2>1, <3>1 DEF GatherInstalledPackages, PkgQueries, Call
  <2>2. CASE t = "available_updates"
    <3>1. at' = GatherAvailableUpdates(managers')
      BY <2>2 DEF Call
    <3>2. QED
      BY <2>2, <3>1 DEF GatherAvailableUpdates, PkgQueries, Call
  <2>3. CASE t = "cron_jobs"
    BY <2>3 DEF Call
  <2>4. CASE t = "proc_diagnostics"
    BY <2>4 DEF Call, NextSection
  <2>5. CASE t \notin {"installed_packages", "available_updates", "cron_jobs",
                       "proc_diagnostics"}
    BY <2>5 DEF Call
  <2>6. QED
    BY <2>1, <2>2, <2>3, <2>4, <2>5
<1>3. DOMAIN ProcSections = 1..7 /\ Len(ProcSections) = 7
  BY DEF ProcSections
<1>4. t = "proc_diagnostics" =>
         \/ at' = End /\ \A k \in DOMAIN ProcSections : ProcSections[k] \notin wanted'
         \/ \E m \in DOMAIN ProcSections :
               /\ at' = ProcSections[m]
               /\ \A k \in DOMAIN ProcSections : ProcSections[k] \in wanted' => m <= k
  <2>1. t = "proc_diagnostics" => at' = FirstOf(ProcSections, wanted', 1)
    BY <1>2, FirstFacts
  <2> DEFINE first == FirstOf(ProcSections, wanted', 1)
  <2>2. Len(ProcSections) \in Nat /\ 1 \in Nat \ {0}
    BY <1>3
  <2>3. \/ /\ first = End
           /\ \A k \in 1..Len(ProcSections) : ProcSections[k] \notin wanted'
        \/ \E m \in 1..Len(ProcSections) :
              /\ first = ProcSections[m]
              /\ \A k \in 1..Len(ProcSections) : ProcSections[k] \in wanted' => m <= k
    BY <2>2, FirstOfFacts
  <2>4. QED
    BY <1>3, <2>1, <2>3
<1>5. /\ \A s \in DOMAIN Fallback : at' # Fallback[s]
      /\ at' \in Joint => t \in {"cpu_info", "memory_info"}
      /\ at' \in SmartAll => t = "smart_health"
      /\ t # "none"
  <2>1. CASE at' \in PkgQueries \cup {End} /\ t # "none"
    <3>1. at' \notin {"smartctl", "smart_block"} \cup Joint \cup Chain
      BY <2>1 DEF PkgQueries, End, Joint, Chain
    <3>2. at' \notin SmartSources
      BY <2>1, PlainFacts DEF Plain
    <3>3. QED
      BY <2>1, <3>1, <3>2, ChainPlain DEF SmartAll
  <2>2. CASE at' \in CronDirs \cup Range(ProcSections) /\ t # "none"
    <3>1. at' \notin {"smartctl", "smart_block"}
      BY <2>2 DEF CronDirs, Range, ProcSections
    <3>2. at' \notin SmartSources
      BY <2>2, PlainFacts DEF Plain, FixedFiles
    <3>3. at' \notin Joint \cup Chain
      BY <2>2, NotListed DEF Listed
    <3>4. QED
      BY <2>2, <3>1, <3>2, <3>3, ChainPlain DEF SmartAll
  <2>3. CASE <<t, at'>> \in First
    BY <2>3, FirstFacts
  <2>4. QED
    BY <1>2, <1>4, <2>1, <2>2, <2>3 DEF Range
<1>6. DOMAIN seen' = {} /\ DOMAIN out' = {}
  BY <1>1
<1>7. Idle' /\ Ending'
  BY <1>1, <1>5 DEF Idle, Ending
<1>8. FailuresKnown' /\ FoundWhereAsked' /\ FallbackInNeed'
  BY <1>5, <1>6 DEF FailuresKnown, FoundWhereAsked, FallbackInNeed
<1>9. ChainInOrder' /\ NothingYet' /\ OfTheirTool'
  BY <1>1, <1>5, <1>6 DEF ChainInOrder, NothingYet, OfTheirTool
<1>10. CoveredOrAhead'
  <2>1. SUFFICES ASSUME NEW w \in Covered' PROVE Ahead(w)'
    BY DEF CoveredOrAhead
  <2>2. CASE t = "cron_jobs"
    <3>1. at' \in CronDirs
      BY <1>2, <2>2, FirstFacts
    <3>2. w \in CronDirs \cup {"/etc/crontab"}
      BY <1>1, <1>2, <2>1, <2>2 DEF Covered, Wanted
    <3>3. QED
      BY <3>1, <3>2 DEF Ahead
  <2>3. CASE t = "proc_diagnostics"
    <3>1. w \in wanted' /\ w \in Range(ProcSections)
      BY <1>1, <2>1, <2>3 DEF Covered
    <3>2. PICK k \in DOMAIN ProcSections : w = ProcSections[k]
      BY <3>1 DEF Range
    <3>3. PICK m \in DOMAIN ProcSections : at' = ProcSections[m] /\ m <= k
      BY <1>4, <2>3, <3>1, <3>2
    <3>4. QED
      BY <3>2, <3>3 DEF Ahead
  <2>4. CASE t = "smart_health"
    <3>1. at' = "smartctl"
      BY <1>2, <2>4, FirstFacts
    <3>2. w \in AllDisks
      BY <1>1, <1>2, <2>1, <2>4 DEF Covered, Wanted
    <3>3. QED
      BY <3>1, <3>2 DEF Ahead
  <2>5. CASE t \notin {"cron_jobs", "proc_diagnostics", "smart_health"}
    BY <1>1, <1>2, <2>1, <2>5 DEF Covered, Wanted
  <2>6. QED
    BY <2>2, <2>3, <2>4, <2>5
<1>11. QED
  BY <1>7, <1>8, <1>9, <1>10 DEF CollectorsInv

\* A call that is refused asks nothing.
LEMMA RejectKeeps ==
    ASSUME CollectorsInv, NEW t, Reject(t)
    PROVE  CollectorsInv'
<1>1. /\ seen' = <<>> /\ out' = <<>> /\ tool' = t /\ at' = End /\ wanted' = {}
      /\ reply' \in {"value", "error"} /\ t \in Checked
  BY DEF Reject, CollectorsInv, Idle
<1>2. End \notin Chain \cup Unfed \cup Joint
  BY DEF End, Chain, Unfed, Joint, PkgQueries
<1>3. End \notin SmartAll
  BY PlainFacts DEF SmartAll, End
<1>4. \A s \in DOMAIN Fallback : Fallback[s] # End
  BY <1>2, ChainPlain
<1>5. DOMAIN seen' = {} /\ DOMAIN out' = {}
  BY <1>1
<1>6. Idle' /\ Ending'
  BY <1>1 DEF Idle, Ending, Checked
<1>7. FailuresKnown' /\ FoundWhereAsked' /\ FallbackInNeed'
  BY <1>1, <1>4, <1>5 DEF FailuresKnown, FoundWhereAsked, FallbackInNeed
<1>8. ChainInOrder' /\ NothingYet' /\ OfTheirTool'
  BY <1>1, <1>2, <1>3, <1>5 DEF ChainInOrder, NothingYet, OfTheirTool
<1>9. CoveredOrAhead'
  BY <1>1 DEF CoveredOrAhead, Covered
<1>10. QED
  BY <1>6, <1>7, <1>8, <1>9 DEF CollectorsInv

\* What is known of the sources after one more answer.
LEMMA SeenFacts ==
    ASSUME NEW a, a = at, NEW o,
           seen' = With(seen, at, [err |-> Remembered(o), rows |-> o.rows])
    PROVE  /\ DOMAIN seen' = DOMAIN seen \cup {a}
           /\ Failed(a)' <=> Fails(o)
           /\ ~Gives(o) => Quiet(a)'
           /\ \A s \in DOMAIN seen \ {a} :
                 (Failed(s)' <=> Failed(s)) /\ (Quiet(s) => Quiet(s)')
<1>1. /\ DOMAIN seen' = DOMAIN seen \cup {a}
      /\ \A s \in DOMAIN seen \ {a} : seen'[s] = seen[s]
      /\ seen'[a] = [err |-> Remembered(o), rows |-> o.rows]
  BY DEF With
<1>2. seen'[a].err # "none" <=> Fails(o)
  BY <1>1 DEF Fails, Remembered
<1>3. seen'[a].rows = o.rows
  BY <1>1
<1>4. Failed(a)' <=> Fails(o)
  BY <1>1, <1>2 DEF Failed
<1>5. ~Gives(o) => Quiet(a)'
  BY <1>3, <1>4 DEF Quiet, Gives
<1>6. \A s \in DOMAIN seen \ {a} :
                 (Failed(s)' <=> Failed(s)) /\ (Quiet(s) => Quiet(s)')
  BY <1>1 DEF Failed, Quiet
<1>7. QED
  BY <1>1, <1>4, <1>5, <1>6

LEMMA AskKeeps ==
    ASSUME CollectorsInv, Ask
    PROVE  CollectorsInv'
<1>1. PICK o \in Outcomes(at) :
          /\ Gather(o)
          /\ seen' = With(seen, at, [err |-> Remembered(o), rows |-> o.rows])
  BY DEF Ask
<1>2. tool' = tool /\ wanted' = wanted /\ at # End
  BY DEF Ask
<1>3. PICK a : a = at
  OBVIOUS
<1>4. /\ DOMAIN seen' = DOMAIN seen \cup {a}
      /\ Failed(a)' <=> Fails(o)
      /\ ~Gives(o) => Quiet(a)'
      /\ \A s \in DOMAIN seen \ {a} :
            (Failed(s)' <=> Failed(s)) /\ (Quiet(s) => Quiet(s)')
  BY <1>1, <1>3, SeenFacts
<1>5. Asked(o)
  BY <1>1, GatherAsked
<1>6. tool # "none" /\ reply = "none"
  BY <1>2 DEF CollectorsInv, Ending
<1>7. \A s \in DOMAIN Fallback : s \in Chain /\ Fallback[s] \in Chain
  BY ChainPlain DEF Fallback, Chain
<1>8. End \notin Chain
  BY DEF End, Chain
<1>9. \A s : Place(s) \in 1..4
  BY DEF Place
<1>10. at \in Chain => a \notin DOMAIN seen
  BY <1>3, <1>9 DEF CollectorsInv, ChainInOrder
<1>11. Idle' /\ Ending'
  BY <1>2, <1>5, <1>6 DEF Idle, Ending, Asked, ReplyMade
<1>12. FailuresKnown'
  <2>1. SUFFICES ASSUME NEW s \in DOMAIN seen', Failed(s)'
                 PROVE  \/ Told(s)' \/ s \in Silent \/ reply' = "error"
                        \/ s \in DOMAIN Fallback /\ at' = Fallback[s]
    BY DEF FailuresKnown
  <2>2. CASE s = a
    <3>1. Fails(o)
      BY <1>4, <2>1, <2>2
    <3>2. \/ a \in errs' \/ a \in Silent \/ reply' = "error"
          \/ a \in DOMAIN Fallback /\ at' = Fallback[a]
          \/ \E i \in DOMAIN Disks :
                a = DiskSources(i).H /\ Disks[i] \in DOMAIN out'
                                     /\ out'[Disks[i]].rows = "unknown"
      BY <1>3, <1>5, <3>1 DEF Asked, FailureKept
    <3>3. QED
      BY <2>2, <3>2 DEF Told
  <2>3. CASE s # a
    <3>1. s \in DOMAIN seen /\ Failed(s)
      BY <1>4, <2>1, <2>3
    <3>2. \/ Told(s) \/ s \in Silent
          \/ s \in DOMAIN Fallback /\ at = Fallback[s]
      BY <1>6, <3>1 DEF CollectorsInv, FailuresKnown
    <3>3. CASE s \in errs
      BY <1>5, <3>3 DEF Asked, AnswerGrows, Told
    <3>4. ASSUME NEW i \in DOMAIN Disks, s = DiskSources(i).H,
                 Disks[i] \in DOMAIN out, out[Disks[i]].rows = "unknown"
          PROVE  Told(s)'
      <4>1. at \in SmartSources
        BY <1>2, <3>1, <3>4 DEF CollectorsInv, OfTheirTool
      <4>2. out'[Disks[i]] = out[Disks[i]] /\ Disks[i] \in DOMAIN out'
        <5>1. \/ out'[Disks[i]] = out[Disks[i]]
              \/ \E j \in DOMAIN Disks : at = DiskSources(j).H /\ Disks[i] = Disks[j]
          BY <1>5, <3>4, <4>1 DEF Asked, AnswerGrows
        <5>2. QED
          BY <1>3, <1>5, <2>3, <3>4, <5>1, DiskFacts DEF Asked, AnswerGrows
      <4>3. QED
        BY <3>4, <4>2 DEF Told
    <3>5. CASE s \in DOMAIN Fallback /\ Fallback[s] \in DOMAIN seen'
      BY <3>5 DEF Told
    <3>6. QED
      BY <1>3, <1>4, <3>2, <3>3, <3>4, <3>5 DEF Told
  <2>4. QED
    BY <2>2, <2>3
<1>13. FallbackInNeed'
  <2>1. SUFFICES ASSUME NEW s \in DOMAIN Fallback,
                        at' = Fallback[s] \/
                        \E x \in DOMAIN out' : out'[x].from = Fallback[s]
                 PROVE  s \in DOMAIN seen' /\ Quiet(s)'
    BY DEF FallbackInNeed
  <2>2. CASE at' = Fallback[s]
    <3>1. a = s /\ ~Gives(o)
      BY <1>3, <1>5, <2>2 DEF Asked, Goes
    <3>2. QED
      BY <1>4, <3>1
  <2>3. CASE \E x \in DOMAIN out' : out'[x].from = Fallback[s]
    <3>1. \/ \E x \in DOMAIN out : out[x].from = Fallback[s]
          \/ at = Fallback[s]
      BY <1>5, <2>3 DEF Asked, AnswerGrows
    <3>2. s \in DOMAIN seen /\ Quiet(s)
      BY <3>1 DEF CollectorsInv, FallbackInNeed
    <3>3. s # a
      BY <1>3, <1>7, <1>10, <3>2
    <3>4. QED
      BY <1>4, <3>2, <3>3
  <2>4. QED
    BY <2>1, <2>2, <2>3
<1>14. FoundWhereAsked'
  BY <1>3, <1>4, <1>5 DEF CollectorsInv, FoundWhereAsked, Asked, AnswerGrows
<1>15. ChainInOrder'
  <2>1. at \in Chain => \A s \in DOMAIN seen \cap Chain : Place(s) < Place(at)
    BY DEF CollectorsInv, ChainInOrder
  <2>2. at \notin Chain => DOMAIN seen \cap Chain = {}
    BY <1>2 DEF CollectorsInv, ChainInOrder
  <2>3. at \in Chain /\ at' # End => at' \in Chain /\ Place(at) < Place(at')
    BY <1>5 DEF Asked, Goes
  <2>4. ASSUME at' \in Chain, NEW s \in DOMAIN seen' \cap Chain
        PROVE  Place(s) < Place(at')
    <3>1. CASE s = a
      BY <1>3, <1>8, <2>3, <2>4, <3>1
    <3>2. CASE s # a
      <4>1. s \in DOMAIN seen \cap Chain
        BY <1>4, <2>4, <3>2
      <4>2. at \in Chain /\ Place(s) < Place(at) /\ Place(at) < Place(at')
        BY <1>8, <2>1, <2>2, <2>3, <2>4, <4>1
      <4>3. QED
        BY <1>9, <4>2
    <3>3. QED
      BY <3>1, <3>2
  <2>5. at' \notin Chain \cup {End} => DOMAIN seen' \cap Chain = {}
    BY <1>3, <1>4, <2>2, <2>3
  <2>6. QED
    BY <2>4, <2>5 DEF ChainInOrder
<1>16. NothingYet'
  <2>1. SUFFICES ASSUME \/ at' \in Unfed
                        \/ reply' = "error" /\ tool \notin {"cpu_info", "memory_info"}
                 PROVE  \A s \in DOMAIN seen' : Quiet(s)'
    BY <1>2 DEF NothingYet
  <2>2. at \in Unfed /\ ~Gives(o)
    <3>1. at \in Joint => tool \in {"cpu_info", "memory_info"}
      BY DEF CollectorsInv, OfTheirTool
    <3>2. QED
      BY <1>5, <2>1, <3>1 DEF Asked, Goes, FatalInNeed
  <2>3. \A s \in DOMAIN seen : Quiet(s)
    BY <2>2 DEF CollectorsInv, NothingYet
  <2>4. QED
    BY <1>4, <2>2, <2>3
<1>17. OfTheirTool'
  <2>1. at' \in Joint => tool' \in {"cpu_info", "memory_info"}
    BY <1>2, <1>5 DEF CollectorsInv, OfTheirTool, Asked, Goes
  <2>2. at' \in SmartAll => tool' = "smart_health"
    BY <1>2, <1>5 DEF CollectorsInv, OfTheirTool, Asked, Goes
  <2>3. ASSUME NEW i \in DOMAIN Disks, DiskSources(i).H \in DOMAIN seen'
        PROVE  at' \in SmartSources \cup {End}
    <3>1. at \in SmartSources
      BY <1>2, <1>3, <1>4, <2>3 DEF CollectorsInv, OfTheirTool, SmartSources
    <3>2. QED
      BY <1>5, <3>1 DEF Asked, Goes
  <2>4. QED
    BY <2>1, <2>2, <2>3 DEF OfTheirTool
<1>18. CoveredOrAhead'
  <2>1. SUFFICES ASSUME reply' # "error", NEW w \in Covered'
                 PROVE  w \in DOMAIN seen' \/ Ahead(w)' \/ Excused'
    BY DEF CoveredOrAhead
  <2>2. w \in Covered /\ w \in wanted
    BY <1>2, <2>1 DEF Covered
  <2>3. w \in DOMAIN seen \/ Ahead(w)
    BY <1>2, <1>6, <2>2 DEF CollectorsInv, CoveredOrAhead, Excused
  <2>4. CASE w \in DOMAIN seen
    BY <1>4, <2>4
  <2>5. CASE Ahead(w)
    <3>1. \/ w = at \/ w \in DOMAIN seen \/ Ahead(w)'
          \/ at' = End /\ \/ at \in SmartAll /\ at \in errs'
                          \/ at = "smart_block" /\ ~Gives(o)
      BY <1>5, <2>1, <2>2, <2>5 DEF Asked, AheadKept
    <3>2. CASE at' = End /\ at \in SmartAll /\ at \in errs'
      BY <1>2, <3>2 DEF CollectorsInv, OfTheirTool, Excused
    <3>3. CASE at' = End /\ at = "smart_block" /\ ~Gives(o)
      <4>1. a = "smart_block" /\ Quiet(a)' /\ a \in DOMAIN seen'
        BY <1>3, <1>4, <3>3
      <4>2. QED
        BY <3>3, <4>1 DEF Excused
    <3>4. QED
      BY <1>3, <1>4, <3>1, <3>2, <3>3
  <2>6. QED
    BY <2>3, <2>4, <2>5
<1>19. QED
  BY <1>11, <1>12, <1>13, <1>14, <1>15, <1>16, <1>17, <1>18 DEF CollectorsInv

\* Every step keeps the invariant.
LEMMA CollectorsStep == CollectorsInv /\ [CNext]_cvars => CollectorsInv'
<1> SUFFICES ASSUME CollectorsInv, [CNext]_cvars PROVE CollectorsInv'
  OBVIOUS
<1>1. CASE \E t \in Tools : Call(t)
  BY <1>1, CallKeeps
<1>2. CASE \E t \in Tools : Reject(t)
  BY <1>2, RejectKeeps
<1>3. CASE Ask
  BY <1>3, AskKeeps
<1>4. CASE Return
  <2>1. CInit'
    BY <1>4 DEF Return, CInit
  <2>2. CInit' => CollectorsInv'
    BY CollectorsInitially, PTL
  <2>3. QED
    BY <2>1, <2>2
<1>5. CASE UNCHANGED <<tool, at, wanted, managers, out, errs, reply, seen>>
  BY <1>5 DEF CollectorsInv, Idle, Ending, FailuresKnown, FallbackInNeed,
              FoundWhereAsked, ChainInOrder, NothingYet, OfTheirTool,
              CoveredOrAhead, Covered, Excused, Ahead, Quiet, Failed, Told
<1>6. QED
  BY <1>1, <1>2, <1>3, <1>4, <1>5 DEF CNext, Deadline, cvars

-----------------------------------------------------------------------------
(* The theorems.                                                           *)

\* For any disks and sections the collectors keep what the promises below rest
\* on: the order in which sources fall back, whose they are, and what was found,
\* told and is still ahead (packages.go, hardware.go, storage.go, proc.go, ...).
THEOREM CollectorsInvariant == CSpec => []CollectorsInv
  BY CollectorsInitially, CollectorsStep, PTL DEF CSpec

\* A value never hides that a source failed or was killed by the deadline: its
\* errors say it, the status of the disk says it, another source answered in
\* its place, or it is one that is documented to stay silent.
THEOREM CollectorsTellFailures == CSpec => []FailuresTold
<1>1. CollectorsInv => FailuresTold
  <2>1. End \notin Chain
    BY DEF End, Chain
  <2>2. \A s \in DOMAIN Fallback : Fallback[s] # End
    BY <2>1, ChainPlain
  <2>3. QED
    BY <2>2 DEF CollectorsInv, FailuresKnown, Ending, FailuresTold
<1>2. QED
  BY <1>1, CollectorsInvariant, PTL

\* A fallback answers only for a source that failed or had nothing, and a call
\* fails only when none of its sources had anything to give.
THEOREM CollectorsFallBackLast == CSpec => []FallbackIsLastResort
<1>1. CollectorsInv => FallbackIsLastResort
  BY DEF CollectorsInv, FallbackInNeed, NothingYet, Quiet, FallbackIsLastResort
<1>2. QED
  BY <1>1, CollectorsInvariant, PTL

\* Whatever fails and whenever the deadline passes, a value has looked at every
\* section, directory and disk that was asked for, or says in its errors that it
\* did not, or the disks could not be listed.
THEOREM CollectorsLoseNothing == CSpec => []NothingVanishes
<1>1. CollectorsInv => NothingVanishes
  <2>1. SUFFICES ASSUME CollectorsInv, reply = "value" PROVE NothingVanishes
    BY DEF NothingVanishes
  <2>2. at = End
    BY <2>1 DEF CollectorsInv, Ending
  <2>3. \A w : ~Ahead(w)
    <3>1. \A i \in DOMAIN Disks : End # DiskSources(i).H /\ End # DiskSources(i).A
      BY PlainFacts
    <3>2. \A i \in DOMAIN ProcSections : End # ProcSections[i]
      BY DEF End, ProcSections
    <3>3. End \notin CronDirs \cup {"/etc/crontab", "smartctl", "smart_block"}
      BY DEF End, CronDirs
    <3>4. QED
      BY <2>2, <3>1, <3>2, <3>3 DEF Ahead
  <2>4. \A w \in Covered : w \in DOMAIN seen \/ Excused
    BY <2>1, <2>3 DEF CollectorsInv, CoveredOrAhead
  <2>5. QED
    BY <2>1, <2>4 DEF NothingVanishes, Excused, Quiet
<1>2. QED
  BY <1>1, CollectorsInvariant, PTL
=============================================================================
