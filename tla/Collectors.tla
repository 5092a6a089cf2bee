----------------------------- MODULE Collectors -----------------------------
(***************************************************************************)
(* The collectors that ask programs and files of the machine, one after    *)
(* the other, some as a fallback for others: packages, logins, GPUs, buses,*)
(* boot and unit queries, time, SMART, cron, /proc and the like.           *)
(*                                                                         *)
(* A call is the source it asks next, what it has found, what it has told  *)
(* in its errors and how it ended.  The deadline of the call may pass at   *)
(* any moment: it kills the program that runs and every later one, while   *)
(* files are read without a look at the context.  What a source prints is  *)
(* abstracted to how much of it there is; a parser keeps the rows it gets. *)
(***************************************************************************)
EXTENDS Integers, Sequences, FiniteSets, FiniteSetsExt, Functions, Slices

CONSTANTS
    Disks,          \* the disks of the machine, a sequence of names
    SectionArgs     \* the sets of names the sections parameter may hold

\* The files of a section of GatherProcDiagnostics, in its order.
ProcSections == <<"interrupts", "softirqs", "vmstat", "diskstats",
                  "filesystems", "version", "slabinfo">>

CronDirs == {"/etc/cron.daily", "/etc/cron.weekly", "/etc/cron.hourly"}

End == "end"

VARIABLES
    tool,       \* the tool that is called, "none" between calls
    at,         \* the source to ask next, End after the last
    wanted,     \* the sources that are asked whatever the others say
    managers,   \* the package programs on the PATH, for the package tools
    late,       \* whether the deadline has passed
    out,        \* out[section]: which source gave it and how many rows
    errs,       \* the sources named in the errors of the answer
    reply,      \* "none", "value" or "error"
    seen        \* seen[s]: how source s, once asked, ended, and whether it
                \* had something to report

cvars == <<tool, at, wanted, managers, late, out, errs, reply, seen>>

CInit ==
    /\ tool = "none" /\ at = End /\ wanted = {} /\ managers = {}
    /\ late = FALSE /\ out = <<>> /\ errs = {} /\ reply = "none" /\ seen = <<>>

-----------------------------------------------------------------------------
(* What a source may answer.                                               *)

\* The program a package query runs; dpkg is looked for, apt is run.
PkgQueries == {"pacman -Q", "pacman -Qu", "apk list", "apk version", "dpkg -l",
               "apt list", "rpm -qa", "dnf check-update", "yum check-update"}

PkgProgram == [q \in PkgQueries |->
    CASE q \in {"pacman -Q", "pacman -Qu"} -> "pacman"
      [] q \in {"apk list", "apk version"} -> "apk"
      [] q = "dpkg -l" -> "dpkg"
      [] q = "apt list" -> "apt"
      [] q = "rpm -qa" -> "rpm"
      [] q = "dnf check-update" -> "dnf"
      [] OTHER -> "yum"]

PkgPrograms == {PkgProgram[q] : q \in PkgQueries}

DiskSources(i) == [H |-> Disks[i] \o ".H", A |-> Disks[i] \o ".A"]

SmartSources == UNION {{DiskSources(i).H, DiskSources(i).A} : i \in DOMAIN Disks}

\* What does not look at the context of the call: files, libraries, the
\* resolver.
FixedFiles == CronDirs \cup Range(ProcSections) \cup
         {"pci_sysfs", "usb_sysfs", "apparmor_sysfs", "/etc/crontab",
          "logrotate.conf", "logrotate.d", "status", "logrotate.status",
          "sys_block", "smart_block", "/proc/mounts", "/etc/passwd",
          "/etc/group", "/proc/modules", "/proc/diskstats", "/proc/mdstat",
          "/proc/locks", "/proc/sysvipc/shm", "audit.log", "power_supply",
          "BAT0", "host.Info", "cpu.Info", "cpu.Percent", "cpu.Counts",
          "sensors", "VirtualMemory", "SwapMemory", "/proc/loadavg",
          "partitions", "usage", "IOCounters", "LookupHost", "dir"}

Files == FixedFiles \cup Range(Disks)

\* The other programs: they may be missing.
Commands == {"lastb", "journalctl", "nvidia-smi", "rocm-smi", "intel_gpu_top",
             "lspci", "lsusb", "getenforce", "aa-status", "crontab -l",
             "list-timers", "timedatectl", "chronyc", "smartctl", "df -i",
             "findmnt", "who", "journal", "blame", "critical-chain", "time",
             "ip route", "ss", "ip-api", "list-units", "pidstat", "ping",
             "systemctl status"}

\* There is a disk, each has a name and sources of its own.
ASSUME DisksAssumption ==
    /\ Disks \in Seq(STRING) \ {<<>>}
    /\ \A i, j \in DOMAIN Disks :
          /\ i # j => {Disks[i], DiskSources(i).H, DiskSources(i).A}
                       \cap {Disks[j], DiskSources(j).H, DiskSources(j).A} = {}
          /\ DiskSources(i).H \notin {Disks[i], DiskSources(i).A}
          /\ DiskSources(i).A # Disks[i]
          /\ {Disks[i], DiskSources(i).H, DiskSources(i).A}
                \cap (FixedFiles \cup Commands \cup PkgQueries \cup {End}) = {}

\* Sources whose output starts with a line that is no row, or is a JSON list.
Headed == {"apt list", "lastb", "list-timers"}

Ends(errors, texts, rows) == [err : errors, text : texts, rows : rows]

\* A program that ends well prints all its rows; one that does not, or is
\* killed, may have printed some.  Exit status 100 is what dnf and yum say
\* when there are updates.
Outcomes(s) ==
    LET well == Ends({"none"}, {"full"}, {TRUE}) \cup Ends({"none"}, {"empty"}, {FALSE})
        head == IF s \in Headed THEN {"empty", "header"} ELSE {"empty"}
        gone == Ends({"absent"}, {"empty"}, {FALSE})
    IN IF s = "intel_gpu_top" THEN Ends({"none"}, {"full"}, {TRUE}) \cup gone
       ELSE IF s \in Files THEN well \cup gone \cup Ends({"exit"}, {"empty"}, {TRUE})
       ELSE IF s \in PkgQueries /\ PkgProgram[s] \notin managers THEN gone
       ELSE (IF s \in PkgQueries \cup SmartSources THEN {} ELSE gone) \cup
            IF late THEN Ends({"killed"}, {"empty"}, BOOLEAN)
            ELSE well \cup Ends({"none"}, head, {FALSE})
                 \cup Ends({"exit", "killed"}, head, BOOLEAN)
                 \cup Ends({"exit", "killed"}, {"part"}, {TRUE})
                 \cup IF s \in {"dnf check-update", "yum check-update"}
                      THEN Ends({"updates"}, {"full"}, {TRUE}) ELSE {}

\* What a parser makes of the text: lines that are no rows are dropped.
Parsed(o) == CASE o.text = "full" -> "all"
               [] o.text = "part" -> "some"
               [] OTHER -> "none"

-----------------------------------------------------------------------------
(* What a collector does with an answer.                                   *)

Found(section, rows) == With(out, section, [from |-> at, rows |-> rows])

Nothing == out

\* The answer becomes found, its errors gain told, and next is asked.
Step(found, told, next) ==
    /\ out' = found
    /\ errs' = errs \cup told
    /\ at' = next
    /\ reply' = IF next = End THEN "value" ELSE "none"

\* The collector returns nil and an error, which handleToolCall returns.
Fatal == at' = End /\ reply' = "error" /\ UNCHANGED <<out, errs>>

\* One source, without which there is no answer.
OrFatal(s, section, o) ==
    /\ at = s
    /\ IF o.err = "none" THEN Step(Found(section, Parsed(o)), {}, End) ELSE Fatal

-----------------------------------------------------------------------------
(* Packages.                                                               *)

detectPkgManager(bin) ==
    CASE "pacman" \in bin -> "pacman"
      [] "pacman" \notin bin /\ "dpkg" \in bin -> "dpkg"
      [] bin \cap {"pacman", "dpkg"} = {} /\ bin \cap {"rpm", "dnf", "yum"} # {} ->
            "rpm"
      [] bin \cap {"pacman", "dpkg", "rpm", "dnf", "yum"} = {} /\ "apk" \in bin ->
            "apk"
      [] OTHER -> "none"

GatherInstalledPackages(bin) ==
    CASE detectPkgManager(bin) = "pacman" -> "pacman -Q"
      [] detectPkgManager(bin) = "dpkg" -> "dpkg -l"
      [] detectPkgManager(bin) = "rpm" -> "rpm -qa"
      [] detectPkgManager(bin) = "apk" -> "apk list"
      [] OTHER -> End

gatherPacmanPackages(o) == OrFatal("pacman -Q", "packages", o)

gatherDpkgPackages(o) == OrFatal("dpkg -l", "packages", o)

gatherRpmPackages(o) == OrFatal("rpm -qa", "packages", o)

gatherApkPackages(o) == OrFatal("apk list", "packages", o)

\* On rpm systems without dnf and yum there is nothing to ask.
GatherAvailableUpdates(bin) ==
    CASE detectPkgManager(bin) = "pacman" -> "pacman -Qu"
      [] detectPkgManager(bin) = "dpkg" -> "apt list"
      [] detectPkgManager(bin) = "rpm" /\ "dnf" \in bin -> "dnf check-update"
      [] detectPkgManager(bin) = "rpm" /\ "dnf" \notin bin /\ "yum" \in bin ->
            "yum check-update"
      [] detectPkgManager(bin) = "apk" -> "apk version"
      [] OTHER -> End

\* pacman -Qu fails when there is nothing to update, and any failure without
\* output is taken for that.
gatherPacmanUpdates(o) ==
    at = "pacman -Qu" /\ Step(Found("updates", Parsed(o)), {}, End)

gatherAptUpdates(o) ==
    /\ at = "apt list"
    /\ IF o.err # "none" /\ o.text = "empty" THEN Fatal
       ELSE Step(Found("updates", Parsed(o)), {}, End)

gatherRpmUpdates(o) ==
    /\ at \in {"dnf check-update", "yum check-update"}
    /\ IF o.err \in {"none", "updates"}
       THEN Step(Found("updates", Parsed(o)), {}, End) ELSE Fatal

gatherApkUpdates(o) == OrFatal("apk version", "updates", o)

-----------------------------------------------------------------------------
(* Collectors with a fallback.                                             *)

\* lastb, then the journal; rows that a failing lastb printed are enough.
\* That lastb failed is told beside what the journal gives, and the journal
\* is believed whatever its exit status.
GatherFailedLogins(o) ==
    \/ /\ at = "lastb"
       /\ IF o.err = "none" \/ (o.err # "absent" /\ Parsed(o) # "none")
          THEN Step(Found("logins", Parsed(o)), {}, End)
          ELSE Step(Nothing, {}, "journalctl")
    \/ /\ at = "journalctl"
       /\ IF o.err = "absent" THEN Fatal
          ELSE Step(Found("logins", Parsed(o)),
                    IF seen["lastb"].err = "absent" THEN {} ELSE {"lastb"}, End)

\* A tool that fails, or finds no GPU, is passed over like one that is absent;
\* of intel_gpu_top only the presence is looked at.
GatherGPUInfo(o) ==
    \/ /\ at \in {"nvidia-smi", "rocm-smi"}
       /\ IF o.err = "none" /\ Parsed(o) # "none"
          THEN Step(Found("gpus", Parsed(o)), {}, End)
          ELSE Step(Nothing, {}, IF at = "nvidia-smi" THEN "rocm-smi"
                                 ELSE "intel_gpu_top")
    \/ /\ at = "intel_gpu_top"
       /\ IF o.err = "absent" THEN Fatal ELSE Step(Found("gpus", "all"), {}, End)

\* One bus: the program, then sysfs, whose failure is told.
Bus(bus, program, sysfs, next, o) ==
    \/ /\ at = program
       /\ IF o.err = "none" THEN Step(Found(bus, Parsed(o)), {}, next)
          ELSE Step(Nothing, {}, sysfs)
    \/ /\ at = sysfs
       /\ IF o.err = "none" THEN Step(Found(bus, Parsed(o)), {}, next)
          ELSE Step(Nothing, {at}, next)

GatherHardwareBusInfo(o) ==
    \/ Bus("pci", "lspci", "pci_sysfs", "lsusb", o)
    \/ Bus("usb", "lsusb", "usb_sysfs", End, o)

\* Mutant of GatherSELinuxAppArmorStatus: aa-status has the last word.
AppArmorAsksBoth(o) ==
    \/ /\ at = "getenforce"
       /\ Step(Found("selinux", IF o.err = "none" THEN Parsed(o) ELSE "none"),
               {}, "apparmor_sysfs")
    \/ at = "apparmor_sysfs" /\ Step(Nothing, {}, "aa-status")
    \/ /\ at = "aa-status"
       /\ Step(Found("apparmor", IF o.err = "none" THEN Parsed(o) ELSE "none"),
               {}, End)

\* Whatever cannot be asked is not enabled; aa-status is asked when sysfs does
\* not say that AppArmor is enabled.
GatherSELinuxAppArmorStatus(o) ==
    \/ /\ at = "getenforce"
       /\ Step(Found("selinux", IF o.err = "none" THEN Parsed(o) ELSE "none"),
               {}, "apparmor_sysfs")
    \/ /\ at = "apparmor_sysfs"
       /\ IF o.err = "none" /\ o.text = "full"
          THEN Step(Found("apparmor", "all"), {}, End)
          ELSE Step(Nothing, {}, "aa-status")
    \/ /\ at = "aa-status"
       /\ Step(Found("apparmor", IF o.err = "none" THEN Parsed(o) ELSE "none"),
               {}, End)

-----------------------------------------------------------------------------
(* Collectors of several sections.                                         *)

\* A section: its rows, or its error.
OrTold(section, next, o) ==
    IF o.err = "none" THEN Step(Found(section, Parsed(o)), {}, next)
    ELSE Step(Nothing, {at}, next)

\* The timers come as JSON: no text at all is an error too.
GatherUserAutomation(o) ==
    \/ at = "crontab -l" /\ OrTold("cron", "list-timers", o)
    \/ /\ at = "list-timers"
       /\ IF o.err = "none" /\ o.text # "empty" THEN OrTold("timers", End, o)
          ELSE Step(Nothing, {at}, End)

\* That chronyc fails is taken for its absence.
GatherTimeSyncStatus(o) ==
    \/ at = "timedatectl" /\ OrTold("ntp", "chronyc", o)
    \/ /\ at = "chronyc"
       /\ Step(IF o.err = "none" THEN Found("chrony", Parsed(o)) ELSE Nothing,
               {}, End)

\* The directories come in the order of a Go map: any.
GatherCronJobs(o) ==
    \/ /\ at \in CronDirs
       /\ LET left == CronDirs \ (DOMAIN seen \cup {at})
          IN \E next \in IF left = {} THEN {"/etc/crontab"} ELSE left :
                OrTold(at, next, o)
    \/ at = "/etc/crontab" /\ OrTold(at, End, o)

\* What is missing is passed over, a directory that cannot be read is told;
\* the first state file that can be read is named.
GatherLogrotateStatus(o) ==
    \/ /\ at = "logrotate.conf"
       /\ Step(IF o.err = "absent" THEN Nothing ELSE Found(at, "all"),
               {}, "logrotate.d")
    \/ /\ at = "logrotate.d"
       /\ IF o.err = "absent" THEN Step(Nothing, {}, "status")
          ELSE OrTold(at, "status", o)
    \/ /\ at = "status"
       /\ IF o.err = "none" THEN Step(Found("state", "all"), {}, End)
          ELSE Step(Nothing, {}, "logrotate.status")
    \/ /\ at = "logrotate.status"
       /\ Step(IF o.err = "none" THEN Found("state", "all") ELSE Nothing, {}, End)

\* The first of sources[i], sources[i + 1], ... that is in the set.
FirstOf(sources, set, i) ==
    LET rest == {k \in i..Len(sources) : sources[k] \in set}
    IN IF rest = {} THEN End ELSE sources[Min(rest)]

\* The next section that is wanted; names that are no section are not missed.
NextSection(i) == FirstOf(ProcSections, wanted, i)

\* Mutant of GatherProcDiagnostics: the sections share one error.
ProcFirstErrorOnly(o) ==
    \E i \in DOMAIN ProcSections :
        /\ at = ProcSections[i]
        /\ IF o.err # "none" THEN Step(Nothing, {at}, End)
           ELSE OrTold(at, NextSection(i + 1), o)

GatherProcDiagnostics(o) ==
    \E i \in DOMAIN ProcSections :
        at = ProcSections[i] /\ OrTold(at, NextSection(i + 1), o)

\* A device whose directory cannot be read is dropped, and told.
GatherBlockDevices(o) ==
    \/ at = "sys_block" /\ IF o.err # "none" THEN Fatal
                           ELSE Step(Nothing, {}, IF o.rows THEN Disks[1]
                                                  ELSE "/proc/mounts")
    \/ \E i \in DOMAIN Disks :
            at = Disks[i] /\ OrTold(at, IF i = Len(Disks) THEN "/proc/mounts"
                                        ELSE Disks[i + 1], o)
    \/ at = "/proc/mounts" /\ OrTold("mounts", End, o)

\* The disk to ask after disk i - 1.
NextDisk(i) == FirstOf([k \in DOMAIN Disks |-> DiskSources(k).H], wanted, i)

\* smartctl -H, whose failure makes the disk unknown, then -A and -i, whose
\* failures go unnoticed.
gatherSMARTDevice(i, o) ==
    \/ /\ at = DiskSources(i).H
       /\ IF o.err # "none" THEN Step(Found(Disks[i], "unknown"), {}, NextDisk(i + 1))
          ELSE Step(Found(Disks[i], Parsed(o)), {}, DiskSources(i).A)
    \/ /\ at = DiskSources(i).A
       /\ Step(Nothing, {}, NextDisk(i + 1))

\* Mutant of GatherSMARTHealth: the error of the context is dropped.
SMARTWithoutCtxErr(o) ==
    \/ at = "smartctl" /\ IF o.err # "none" THEN Step(Nothing, {at}, End)
                          ELSE Step(Nothing, {}, IF Cardinality(wanted) = 1
                                                 THEN NextDisk(1)
                                                 ELSE "smart_block")
    \/ at = "smart_block" /\ Step(Nothing, {}, IF o.err = "none" /\ o.rows
                                               THEN NextDisk(1) ELSE End)
    \/ \E i \in DOMAIN Disks :
            IF late /\ at = DiskSources(i).H THEN Step(Nothing, {}, End)
            ELSE gatherSMARTDevice(i, o)

\* Without smartctl the answer is an error in the errors field.  Unless a
\* device is given the disks are those of /sys/block, none if it cannot be
\* read.  The context is looked at between two disks.
GatherSMARTHealth(o) ==
    \/ at = "smartctl" /\ IF o.err # "none" THEN Step(Nothing, {at}, End)
                          ELSE Step(Nothing, {}, IF Cardinality(wanted) = 1
                                                 THEN NextDisk(1)
                                                 ELSE "smart_block")
    \/ at = "smart_block" /\ Step(Nothing, {}, IF o.err = "none" /\ o.rows
                                               THEN NextDisk(1) ELSE End)
    \/ \E i \in DOMAIN Disks :
            IF late /\ at = DiskSources(i).H THEN Step(Nothing, {at}, End)
            ELSE gatherSMARTDevice(i, o)

\* A supply whose uevent file is missing is passed over, a battery whose other
\* files cannot be read is told.
GatherPowerAnalytics(o) ==
    \/ at = "power_supply" /\ IF o.err # "none" THEN Step(Nothing, {at}, End)
                              ELSE Step(Nothing, {}, IF o.rows THEN "BAT0" ELSE End)
    \/ at = "BAT0" /\ IF o.err = "absent" THEN Step(Nothing, {}, End)
                      ELSE OrTold("battery", End, o)

\* Without /etc/group the users have no groups.
GatherUserInfo(o) ==
    \/ at = "/etc/passwd" /\ OrTold("users", IF o.err = "none" THEN "/etc/group"
                                             ELSE End, o)
    \/ at = "/etc/group" /\ Step(Found("groups", Parsed(o)), {}, End)

\* Partitions that cannot be read are skipped.
GatherDiskInfo(o) ==
    \/ /\ at = "partitions"
       /\ IF o.err # "none" THEN Fatal
          ELSE Step(Nothing, {}, IF o.rows THEN "usage" ELSE End)
    \/ /\ at = "usage"
       /\ Step(IF o.err = "none" THEN Found("partitions", Parsed(o)) ELSE Nothing,
               {}, End)

\* A directory that cannot be read is an empty one; what the deadline cuts
\* short is told, with the entries there are.
GatherLargestFiles(o) ==
    /\ at = "dir"
    /\ IF o.err = "none" /\ o.rows /\ late
       THEN Step(Found("entries", "some"), {at}, End)
       ELSE Step(Found("entries", Parsed(o)), {}, End)

\* All of several sources, without which there is no answer.
AllOrFatal(sources, section, o) ==
    \E i \in DOMAIN sources :
        /\ at = sources[i]
        /\ IF o.err # "none" THEN Fatal
           ELSE Step(Found(section, Parsed(o)), {},
                     IF i = Len(sources) THEN End ELSE sources[i + 1])

GatherCPUInfo(o) ==
    AllOrFatal(<<"cpu.Info", "cpu.Percent", "cpu.Counts">>, "cpu", o)

GatherMemoryInfo(o) == AllOrFatal(<<"VirtualMemory", "SwapMemory">>, "memory", o)

-----------------------------------------------------------------------------
(* Collectors of one source.                                               *)

GatherInodeUsage(o) == OrFatal("df -i", "inodes", o)

GatherMountOptions(o) == OrFatal("findmnt", "mounts", o)

GatherLoggedInUsers(o) == OrFatal("who", "users", o)

GatherJournalLogs(o) == OrFatal("journal", "entries", o)

GatherBootBlame(o) == OrFatal("blame", "units", o)

GatherBootCriticalChain(o) == OrFatal("critical-chain", "chain", o)

GatherBootTime(o) == OrFatal("time", "phases", o)

GatherRoutingTable(o) == OrFatal("ip route", "routes", o)

GatherKernelModules(o) == OrFatal("/proc/modules", "modules", o)

GatherDiskIOMetrics(o) == OrFatal("/proc/diskstats", "metrics", o)

GatherSystemInfo(o) == OrFatal("host.Info", "host", o)

GatherLoadAverage(o) == OrFatal("/proc/loadavg", "load", o)

GatherNetworkInfo(o) == OrFatal("IOCounters", "interfaces", o)

GatherListeningPorts(o) == OrFatal("ss", "ports", o)

GatherIPInfo(o) == OrFatal("ip-api", "ip", o)

GatherAuditLogs(o) == OrFatal("audit.log", "entries", o)

GatherSystemdUnits(o) == OrFatal("list-units", "units", o)

\* One source, whose error is told beside what it gave.
AndTold(s, section, o) ==
    at = s /\ Step(Found(section, Parsed(o)), IF o.err = "none" THEN {} ELSE {s}, End)

\* The resolver is not told of the deadline.
GatherDNSResolve(o) == AndTold("LookupHost", "addresses", o)

GatherCPUTemperature(o) == AndTold("sensors", "temperatures", o)

\* The rows of a failing program are dropped, its error is told.
GatherTopIOProcesses(o) == at = "pidstat" /\ OrTold("processes", End, o)

\* A failing ping with output, one without an answer say, is no error.
GatherPing(o) ==
    /\ at = "ping"
    /\ Step(Found("ping", Parsed(o)),
            IF o.err # "none" /\ o.text = "empty" THEN {at} ELSE {}, End)

\* The output of systemctl status is given together with its error.
GatherServiceStatus(o) == AndTold("systemctl status", "status", o)

\* A file that cannot be read is an empty one.
OrEmpty(s, section, o) == at = s /\ Step(Found(section, Parsed(o)), {}, End)

GatherRAIDStatus(o) == OrEmpty("/proc/mdstat", "arrays", o)

GatherFileLocks(o) == OrEmpty("/proc/locks", "locks", o)

GatherSharedMemorySegments(o) == OrEmpty("/proc/sysvipc/shm", "segments", o)

-----------------------------------------------------------------------------
(* A call.                                                                 *)

\* The source that a call of a tool asks first.
First == {<<"failed_logins", "lastb">>, <<"gpu_info", "nvidia-smi">>,
    <<"hardware_bus_info", "lspci">>, <<"selinux_apparmor", "getenforce">>,
    <<"user_automation", "crontab -l">>, <<"time_sync", "timedatectl">>,
    <<"logrotate", "logrotate.conf">>, <<"block_devices", "sys_block">>,
    <<"smart_health", "smartctl">>, <<"power", "power_supply">>,
    <<"user_info", "/etc/passwd">>, <<"inode_usage", "df -i">>,
    <<"mount_options", "findmnt">>, <<"logged_in_users", "who">>,
    <<"journal_logs", "journal">>, <<"boot_blame", "blame">>,
    <<"boot_critical_chain", "critical-chain">>, <<"boot_time", "time">>,
    <<"routing_table", "ip route">>, <<"kernel_modules", "/proc/modules">>,
    <<"disk_io_metrics", "/proc/diskstats">>, <<"top_io", "pidstat">>,
    <<"ping_host", "ping">>, <<"service_status", "systemctl status">>,
    <<"file_locks", "/proc/locks">>, <<"shared_memory", "/proc/sysvipc/shm">>,
    <<"system_info", "host.Info">>, <<"cpu_info", "cpu.Info">>,
    <<"cpu_temperature", "sensors">>, <<"memory_info", "VirtualMemory">>,
    <<"load_average", "/proc/loadavg">>, <<"disk_info", "partitions">>,
    <<"network_info", "IOCounters">>, <<"listening_ports", "ss">>,
    <<"resolve_dns", "LookupHost">>, <<"ip_info", "ip-api">>,
    <<"audit_logs", "audit.log">>, <<"systemd_units", "list-units">>,
    <<"raid_status", "/proc/mdstat">>, <<"largest_files", "dir">>}

Tools == {f[1] : f \in First} \cup {"installed_packages", "available_updates",
                            "cron_jobs", "proc_diagnostics"}

AllDisks == {DiskSources(i).H : i \in DOMAIN Disks}

\* The sources a call of t has to ask, as far as its arguments say it.
Wanted(t) == CASE t = "cron_jobs" -> {CronDirs \cup {"/etc/crontab"}}
               [] t = "proc_diagnostics" ->
                    {IF a = {} THEN Range(ProcSections) ELSE a : a \in SectionArgs}
               [] t = "smart_health" -> {AllDisks} \cup {{h} : h \in AllDisks}
               [] OTHER -> {{}}

Call(t) ==
    /\ tool = "none" /\ tool' = t
    /\ managers' \in IF t \in {"installed_packages", "available_updates"}
                     THEN SUBSET (PkgPrograms \cup {"dpkg"}) ELSE {{}}
    /\ wanted' \in Wanted(t)
    /\ at' \in CASE t = "installed_packages" -> {GatherInstalledPackages(managers')}
                 [] t = "available_updates" -> {GatherAvailableUpdates(managers')}
                 [] t = "cron_jobs" -> CronDirs
                 [] t = "proc_diagnostics" -> {NextSection(1)'}
                 [] OTHER -> {s \in Files \cup Commands : <<t, s>> \in First}
    /\ reply' = IF at' # End THEN "none"
                ELSE IF t = "proc_diagnostics" THEN "value" ELSE "error"
    /\ UNCHANGED <<late, out, errs, seen>>

\* The tools that look at their arguments before anything else.
Checked == {"service_status", "journal_logs", "boot_critical_chain", "ping_host",
            "resolve_dns", "disk_info", "ip_info"}

\* An argument is missing or not well formed.  Of an address that is none
\* get_ip_info makes an error in the errors field.
Reject(t) ==
    /\ tool = "none" /\ t \in Checked /\ tool' = t
    /\ IF t = "ip_info" THEN reply' = "value" /\ errs' = {"ip"}
       ELSE reply' = "error" /\ errs' = {}
    /\ UNCHANGED <<at, wanted, managers, late, out, seen>>

Deadline ==
    /\ tool # "none" /\ reply = "none" /\ ~late /\ late' = TRUE
    /\ UNCHANGED <<tool, at, wanted, managers, out, errs, reply, seen>>

Gather(o) ==
    \/ gatherPacmanPackages(o) \/ gatherDpkgPackages(o) \/ gatherRpmPackages(o)
    \/ gatherApkPackages(o) \/ gatherPacmanUpdates(o) \/ gatherAptUpdates(o)
    \/ gatherRpmUpdates(o) \/ gatherApkUpdates(o)
    \/ GatherFailedLogins(o) \/ GatherGPUInfo(o) \/ GatherHardwareBusInfo(o)
    \/ GatherSELinuxAppArmorStatus(o) \/ GatherUserAutomation(o)
    \/ GatherTimeSyncStatus(o) \/ GatherCronJobs(o) \/ GatherLogrotateStatus(o)
    \/ GatherProcDiagnostics(o) \/ GatherBlockDevices(o) \/ GatherSMARTHealth(o)
    \/ GatherPowerAnalytics(o) \/ GatherUserInfo(o)
    \/ GatherInodeUsage(o) \/ GatherMountOptions(o) \/ GatherLoggedInUsers(o)
    \/ GatherJournalLogs(o) \/ GatherBootBlame(o) \/ GatherBootCriticalChain(o)
    \/ GatherBootTime(o) \/ GatherRoutingTable(o) \/ GatherKernelModules(o)
    \/ GatherDiskIOMetrics(o) \/ GatherTopIOProcesses(o) \/ GatherPing(o)
    \/ GatherServiceStatus(o) \/ GatherFileLocks(o)
    \/ GatherSharedMemorySegments(o) \/ GatherRAIDStatus(o)
    \/ GatherSystemInfo(o) \/ GatherCPUInfo(o) \/ GatherCPUTemperature(o)
    \/ GatherMemoryInfo(o) \/ GatherLoadAverage(o) \/ GatherDiskInfo(o)
    \/ GatherNetworkInfo(o) \/ GatherListeningPorts(o) \/ GatherDNSResolve(o)
    \/ GatherIPInfo(o) \/ GatherAuditLogs(o) \/ GatherSystemdUnits(o)
    \/ GatherLargestFiles(o)

\* What is remembered of a source that was asked.
Remembered(o) == IF o.err \in {"none", "updates"} THEN "none"
                 ELSE IF o.err = "absent" THEN "absent" ELSE "failed"

\* The source is asked, and the collector goes on; a program that is killed
\* has met the deadline.
Ask ==
    /\ at # End
    /\ \E o \in Outcomes(at) :
        /\ Gather(o)
        /\ late' = (late \/ o.err = "killed")
        /\ seen' = With(seen, at, [err |-> Remembered(o), rows |-> o.rows])
    /\ UNCHANGED <<tool, wanted, managers>>

Return ==
    /\ reply # "none"
    /\ tool' = "none" /\ at' = End /\ wanted' = {} /\ managers' = {}
    /\ late' = FALSE /\ out' = <<>> /\ errs' = {} /\ reply' = "none"
    /\ seen' = <<>>

CNext == (\E t \in Tools : Call(t) \/ Reject(t)) \/ Deadline \/ Ask \/ Return

CSpec == CInit /\ [][CNext]_cvars

-----------------------------------------------------------------------------
\* The source that is asked in place of another.
Fallback == [s \in {"lastb", "nvidia-smi", "rocm-smi", "lspci", "lsusb",
                    "apparmor_sysfs", "status"} |->
    CASE s = "lastb" -> "journalctl"
      [] s = "nvidia-smi" -> "rocm-smi"
      [] s = "rocm-smi" -> "intel_gpu_top"
      [] s = "lspci" -> "pci_sysfs"
      [] s = "lsusb" -> "usb_sysfs"
      [] s = "apparmor_sysfs" -> "aa-status"
      [] OTHER -> "logrotate.status"]

\* The sources whose failure the answer may keep to itself.  For some of them
\* the tool descriptions say so (docs/tools.md: "missing modules report
\* 'not_enabled'", "an unreadable file is silently swallowed", "per-partition
\* read errors are skipped", "failures silently return empty results"); for pacman,
\* apt, lastb, journalctl, chronyc, smartctl -A and ping it is how the code
\* goes about a program that reports "nothing" by its exit status.
Silent == {"pacman -Qu", "apt list", "lastb", "journalctl", "getenforce", "aa-status",
           "chronyc", "smart_block", "/proc/locks",
           "/proc/sysvipc/shm", "/etc/group", "logrotate.conf", "logrotate.d",
           "logrotate.status", "BAT0", "ping", "/proc/mdstat", "usage", "dir"} \cup
          {DiskSources(i).A : i \in DOMAIN Disks}

Failed(s) == s \in DOMAIN seen /\ seen[s].err # "none"

\* The answer says that s failed: by its error, by the status of the disk, or
\* because another source answered for it or failed in its place.
Told(s) ==
    \/ s \in errs
    \/ \E i \in DOMAIN Disks :
            s = DiskSources(i).H /\ Disks[i] \in DOMAIN out
                                 /\ out[Disks[i]].rows = "unknown"
    \/ s \in DOMAIN Fallback /\ Fallback[s] \in DOMAIN seen

\* "failures such as a missing crontab land in the errors field", "per-section
\* failures land in the errors field", "if both fail the error goes in the
\* errors field" (docs/tools.md): a value never hides that a source failed, or
\* that the deadline kept it from being asked, except where Silent says so.
FailuresTold ==
    reply = "value" => \A s \in DOMAIN seen : Failed(s) => Told(s) \/ s \in Silent

\* A fallback answers only for a source that failed or had nothing to say, and
\* a call fails only when no source it asked had anything to give, except where
\* the answer needs all of several sources ("Fatal only if either source is
\* unreadable", docs/tools.md).
FallbackIsLastResort ==
    /\ \A x \in DOMAIN out, s \in DOMAIN Fallback :
            out[x].from = Fallback[s] => Failed(s) \/ ~seen[s].rows
    /\ reply = "error" /\ tool \notin {"cpu_info", "memory_info"} =>
            \A s \in DOMAIN seen : Failed(s) \/ ~seen[s].rows

\* What the call was to look at; names that are no section are not missed.
Covered == IF tool = "proc_diagnostics" THEN wanted \cap Range(ProcSections)
           ELSE wanted

\* Every section, directory or disk that the call was to cover was looked at,
\* unless the errors say otherwise or the disks could not be listed: neither a
\* failure before it nor the deadline makes one vanish.
NothingVanishes ==
    reply = "value" =>
        \/ Covered \subseteq DOMAIN seen
        \/ tool = "smart_health" /\ errs # {}
        \/ Failed("smart_block")
        \/ "smart_block" \in DOMAIN seen /\ ~seen["smart_block"].rows
=============================================================================
