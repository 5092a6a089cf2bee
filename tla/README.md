# linux-mcp in TLA+

linux-mcp is an MCP server for Linux diagnostics: a client starts it as a
subprocess and calls read-only tools over stdio. This directory holds
specifications of its parts that keep state, run concurrently, or decide
something a test hardly covers; TLC configurations that check them on small
instances; and proofs, checked by TLAPS, of the properties that matter most.

`PROJECT.json` maps every definition to the lines it models and lists the runs,
the mutants that show each property can fail, the findings and the hazards.

## 1. The system

| Component | Source | State it keeps | Operations | What makes it correct |
|---|---|---|---|---|
| Configuration store | `config/config.go` | the active `*Config` (atomic), the path | `Load`, `Reload`, `Get`, `ToolTimeout`, `IsDisabled` | only validated configurations are active; a failed reload changes nothing |
| Process lifecycle | `main.go` | startup phase, `sigCh`, log level | startup, SIGHUP, reload goroutine, exit | no reload is lost; log level and configuration agree |
| Tool call path | `tools/handler.go`, `tools/util.go`, `tools/register.go` | one goroutine and one context per request | timeout, gate, collector, answer | the policy holds, the deadline works, no answer without data or error |
| Aggregates | `tools/system.go`, `tools/storage.go` | sections and errors of one request | gated collectors in sequence | every collector is accounted for |
| Resources | `tools/resources.go` | none beyond the request | gate, resolve, answer | as the tool path |
| Health check | `tools/storage.go` | checks, flags, errors of one request | five collectors, verdict | the verdict is the worst reading |
| Docker stats | `tools/docker.go` | a goroutine per container, one channel | fan-out, fan-in | one entry per target, nobody blocked |
| Security audit | `tools/security_audit.go` | the process-wide umask | probes, umask, score | read-only; the score rewards fixes |
| Release procedure | `scripts/release.sh`, the publishing workflow | tags, releases, registry, retained artifacts | preflight, tag, build, push, upload, download, publish | nothing published is replaced; all of it comes from the tag |
| Process tree | `tools/process.go` | none beyond the request | list `/proc`, read file by file, walk | ends, visits nobody twice, shows the hierarchy |
| Process reads | `tools/process.go`, `tools/network.go` | none beyond the request | list, then read entry by entry: owners of sockets, rankings, descriptors | the answer is about what was there; rankings, groups and lists agree |
| Other Docker tools | `tools/docker.go` | one client per request, one log body | dial, ask, read the stream, project, close | nothing is held, nothing secret is shown |
| Collectors | rest of `tools/` | none beyond the request | ask programs and files, some in place of others | failures are told, fallbacks come last, nothing vanishes |
| Manual pages | `tools/man.go` | none (the client keeps the offset) | clean, search, offset, cut | pages make up the text |
| Parsers | `tools/network.go`, `tools/system.go`, `tools/storage.go` | none | routes, environment, mdstat | what was printed is read back |

How they interact. The configuration store is the only state that requests
share: it is written by the reload goroutine and read by every request, several
times per request (timeout, gate, and one gate per collector of an aggregate).
Aggregates call the collectors of other tools through the same gate. The
security audit touches one more piece of process-wide state, the umask.
Collectors depend on the outside: commands, `/proc`, the Docker daemon.

What is hard: a reload between two reads of one request; signals that merge in
a channel of one place; collectors that fail, hang or ignore their context; a
container that disappears between listing and sampling; processes, pids and
descriptors that change while they are read; a program killed at the deadline in
the middle of a chain of fallbacks; audits that overlap; a
release that is interrupted and repeated by someone else. The list, with lines,
is `hazards` in `PROJECT.json`.

## 2. Modules

| Module | Models | Notes |
|---|---|---|
| `ConfigStore` | `config.go` and the two goroutines of `main.go` | environment: operator (edits, SIGHUP), client (start, stop) |
| `ConfigStoreProofs` | theorems | |
| `ToolServer` | the request path, composed with `ConfigStore` | `EXTENDS ConfigStore`; a store step is a step of the server that every request observes |
| `ToolServerProofs` | theorems | about the request path, the account of the collectors and the refinement |
| `CallContract` | abstract: what a call promises | no gates, no order, no store |
| `ToolServerRefinement` | the refinement mapping | `ToolServer` implements `CallContract` |
| `HealthCheck` | `GatherSystemHealthCheck` and its handler | own policy variable: a reload may strike between two collectors |
| `HealthCheckProofs` | theorems | |
| `DockerStats` | `get_docker_container_stats` | daemon and containers are the environment |
| `DockerStatsProofs` | theorems | |
| `SecurityAudit` | `get_security_audit` | several audits in flight share `umask` |
| `SecurityAuditProofs` | theorems | |
| `ProcessTree` | `get_process_tree` | processes fork, exit and reuse pids while they are read |
| `Slices` | maps and slices of Go | operators that the modules below share |
| `Collectors` | 44 tools that ask programs and files in turn | one action per collector, under a deadline that may pass at any step |
| `CollectorsProofs` | theorems | |
| `ProcessReads` | `get_network_connections`, `get_process_info`, `get_process_fds` | the machine changes between any two reads |
| `DockerTools` | the other eleven Docker tools | daemon and deadline are the environment |
| `ManPages` | `get_man_page` | with a client that reads on while an answer is truncated |
| `Listings` | the parsers of routes, environment and mdstat | routes word by word; the other two as functions, applied to every input of the instance |
| `Release` | `release.sh` and the publishing workflow | several maintainers, crashes, re-runs |
| `ReleaseProofs` | theorems | |
| `MachineReadsProofs` | theorems | about `ProcessTree`, `ProcessReads`, `DockerTools`, `ManPages` and `Listings` |
| `MC*` | instances for TLC | `MCMachineReads` explores `ProcessTree` and the modules from `Collectors` to `Listings`, one part per behaviour, since their calls share no state |

### Correspondence with the code

*ConfigStore.* `current` is the `atomic.Value`, `filePath` the package variable,
`sigCh` the number of buffered signals, `loaded` the local variable of `Reload`
between read and store, `slogLevel` what `setupLogging` installed. A configuration
keeps the log level, the sign of each timeout and the disabled set: that is all
the code branches on. A file is a raw configuration or one of three values: absent,
unreadable, malformed. `request` is a history variable (a SIGHUP reached `sigCh`
since the last edit). A signal before `signal.Notify` ends the process.

*ToolServer.* A request is a record: `arm` (`WithToolTimeout`), `gate`
(`gatherEnabled`), `gather` (inside a collector) or `section`/`collect` (an
aggregate between and inside its collectors), `reply`, `answered`. `on` and `off`
are history: what the request has seen enabled and disabled. A collector ends with
an output, with an output and an error, or with an error only. In an aggregate an
error replaces the section by its fallback, a partial output included, as
`collectOrFallback` does. The answer of a tool and the answer of a resource differ
in their test for nil, and so do `ToolReply` and `ResourceReply`. The contract is
that of tool calls; the refinement mapping shows a resource read as no call, and of
the calls it shows one, `watched`, since calls are alike.

*HealthCheck.* One action per collector and way of ending. Percentages and loads
are integers on both sides of every threshold.

*DockerStats.* The handler (`pc`), a goroutine per container (`worker`), the
channel (`ch`) with capacity `ChanCap`, and a context that may end at any time.

*SecurityAudit.* `ClearUmask` and `RestoreUmask` are the two system calls of
`gatherUmask`. A umask is its octal text, the lines of `sshd_config` are a sequence
of settings and of Includes one level deep. An Include stands for the lines of the
drop-in where it occurs, and of several lines for a key the last one counts.

*ProcessTree.* `ppid` is the machine, `procs` what was read of it, `stack` the calls
of the recursive `walk` that are still to come. Children are visited in any order,
as the iteration over a Go map allows. `os.ReadDir` sorts names as strings, so the
pids come in any order. Names are left out.

*Collectors.* A call is the source it asks next (`at`), what it has found (`out`),
what its errors name (`errs`) and how it ended (`reply`). A source is a program or a
file; what it answers is how it ended (well, with an exit status, killed, absent)
and how much text there is. A collector is the action that says what becomes of an
answer: `Fatal` (a nil output and an error), told in the errors, passed over, or
followed by the next source. `Outcomes` is the machine: programs may fail and be
killed with part of their output, files fail at once and never see the context. The
parsers are abstracted to the rows they keep, except for those of `Listings`.

*ProcessReads.* `life`, `use` and `fd` are the machine, `rows` the list taken first,
`left` the entries still to be read, `got` what was read of them, `rout` the answer.
`was` is history: everything a pid or a descriptor has been during the call.
`sort.Slice` is not stable, so `Ranked` is the set of all orders it may leave.

*Slices.* `With` is an assignment to a map, `Ascending` the one order that sorting
distinct numbers leaves, and `Selected` what a loop with `append` keeps of a slice: the
elements at some places, in their order.

*DockerTools.* `clients` and `streams` count what is open. An object is a set of
facts (field and value), an answer is the facts that are kept, some of them masked.
`withDockerClient` is the moment when the function it was given returns.

*ManPages.* A line is its number, for paging, and a sequence of glyphs, for the
clean-up; a glyph is the bytes `man` writes for a plain, bold or underlined
character. `cleanManOutput` is one iteration of the loop over the bytes: `pos` is the
loop variable and `shown` the buffer; cutting an empty buffer is the panic. The client is external: it goes on at the offset where the last answer
stopped as long as an answer is truncated.

*Listings.* A text is a sequence of words. `Words` and `Lines` print what `ip` and
the kernel print, the parsers read it, and the properties compare both ends.
`RouteEntry` is one iteration of the loop over the words of a route: `word` is the
loop variable, `answer` the entry so far.

*Release.* Remote state (`originMain`, `originTags`, `releases`, `registry`) and,
for each maintainer, a checkout and a run of the script. Failing checks need no
action of their own: a step whose check fails is not enabled, and `Die` (with the
EXIT trap) and `Killed` (without) are possible at every step. GitHub, the registry
and `git pull` in a second terminal are the environment; GitHub refuses a second
release for a tag and the registry a second publication of a version. A repair
follows the script's message: the missing assets come from the retained artifacts
of the run that made the release.

## 3. Runs

| Run | Question | Bounds |
|---|---|---|
| `config_store` | Are only valid configurations served, is no SIGHUP lost, does a reload happen? | one tool, eight editions, one for each way the loader can end; no bound on edits, signals and restarts |
| `tool_server` | Policy, account of the collectors, deadline and the contract of a tool call, under reloads | one request at a time, an aggregate of two collectors, one of which ignores its context; three editions |
| `resource_failure` | violation: a failed resource read | as above |
| `health_check` | Is the verdict the worst reading, are omissions reported? | two partitions, five fill levels, three loads, three policies |
| `health_complete` | violation: OK although a check is missing | as above |
| `docker_stats` | Fan-out and fan-in | three containers, seven kinds of request |
| `docker_unknown_ids` | violation: an unknown id among several | as above |
| `security_audit` | umask and score without overlap | one audit at a time, four machines, three umasks |
| `umask_race` | violation: two audits overlap | two audits |
| `machine_reads`, tree | Does the walk end on links that were never all true at once, and what does the answer show? | pids 1 to 4 |
| `machine_reads`, collectors | Is every failure told, does a fallback answer only in need, does anything vanish? | 44 tools, two disks, all sets of package programs, four values of `sections` |
| `machine_reads`, reads | Do groups, rankings and descriptors hold while the machine changes? | two pids, two programs, up to three connections, two descriptors, two changes per call |
| `machine_reads`, Docker | Is anything held or disclosed, wherever the daemon goes away? | eleven tools, logs of up to three lines |
| `machine_reads`, pages | Do the pages make up the text, is it clean? | pages of five lines, every set of matches, limits 1 to 4, lines of three glyphs |
| `machine_reads`, listings | Is read back what was printed? | 144 routes, 16 environments under four searches |
| `raid_arrays` | violation: two arrays in `/proc/mdstat` | two arrays |
| `release` | One build per release, a registry that matches, versions in the order of history, nothing replaced | two maintainers, two versions, two commits, two builds; the assets are a binary and a manifest |

Why the bounds are enough. `config_store` has no bound besides the set of
editions: the loader and the store treat configurations alike except for the
tests the editions differ in. In `tool_server` one request suffices, since requests
share only the store, and a request does not change it; the policy is proved for any
number of requests. Two collectors cover first, last and both outcomes on either
side. In `docker_stats` three targets make the channel hold zero, some and all
results. In `machine_reads` four pids suffice for a cycle that hangs off nothing, a
cycle through the root and a branch beside it; a collector keeps nothing between
calls and meets at most seven sources, each with every outcome; two changes let a
pid exit and be used again, or one descriptor close and another open; five lines
allow two matches whose windows touch, overlap or stay apart, read in one piece or
several. In `release` two builds allow a crash and a
repetition or a rival, two versions and two commits are what an inversion needs,
and the bundle of a binary is uploaded and checked like the binary itself. The
capped counters are `MaxVersion`, `MaxCommit` and `MaxBuilds` of `Release` and
`MaxChanges` of `ProcessReads`; the
cap of `sigCh` is that of the code.

Deadlock is checked in every run.

### Fairness

* `ConfigStore`: weak fairness of the main goroutine's startup steps and of the
  reload goroutine. Both are goroutines without blocking calls other than a file
  read; the Go scheduler runs them. Client and operator are not assumed to do
  anything.
* `ToolServer`: weak fairness of a handler's own steps, of the timer, and of the
  return of a context-aware collector once its context is done. No collector is
  assumed to return otherwise: `DeadlineHonoured` therefore excepts a request that
  stays in a collector that ignores its context.
* `DockerStats`: weak fairness of the deadline, of the goroutines' sends, and of
  handler and sample once the context is done. The daemon may stay silent.
* `HealthCheck`, `SecurityAudit`, `Release` and the modules of `machine_reads` are
  checked for safety only; that the walk of `ProcessTree` ends follows from `NoPidTwice`, since every
  step of it adds a node.

## 4. Theorems

`ConfigStoreProofs`, for every set of tools and editions:
`TypeCorrect`, `OnlyValidConfigs`, `NoReloadIsLost`, `LevelIsConfigured`.
They follow from one inductive invariant, `StoreInv`: types, `ValidConfigServed`
and `LevelFollowsConfig` are part of it, and two strengthenings are needed.
`NoLostReload` speaks of a reloader at rest and says nothing of how it got there;
`FreshReload` follows it back through the steps of a reload: with no signal waiting,
the edition on disk is what the reload in progress holds, or what is active.
`QuietBeforeServe` says that nothing of a process survives it, without which a
restart could begin with a signal or a reload left over.

`ToolServerProofs`, for every number of requests and every plan of the aggregates:
`ServerTypeCorrect` and `PolicyHolds` (`PolicyWindow` always holds). The inductive
invariant `ServerInv` adds to `StoreInv` that a request has seen at least the
policy in force (`SeesPolicy`), which is what makes an open gate evidence, and that
a collector in progress is the head of a nonempty list. The composition is used as
such: a store step preserves `StoreInv` by the lemma of `ConfigStoreProofs`.

The same module, for every number of requests and every plan:
`NothingOmitted` (`NoSilentOmission` always holds) and `ContractKept` (the server
implements `CallContract`). `AccountInv` says of a request, step by step, where the
collectors of its aggregate are: each is still to come, done, refused or failed, and
only one of these; before the gate nothing is settled, and a collector that runs was
let through. `NoSilentOmission` speaks of the answer alone and does not tell how a
request got there. With `AccountInv` and `ServerInv` every step of the server is a
step of the contract or a stutter: an arriving
request opens the watched call; a store step widens what the call has seen, or
stutters; a gate that refuses, and a collector that ends, settle a part; the
reply answers; steps of other requests, and an open gate, stutter.

`ReleaseProofs`, for any number of maintainers, versions, commits and builds:
`ReleaseTypeCorrect`, `OneBuildPerRelease`, `RegistryNamesRelease`,
`HistoryIsFollowed` and, an action property, `NothingIsReplaced`. `ReleaseInv` adds
to the four invariants what each run knows at its step: the commit it works on, that
its tag is in the checkout until it is pushed and on origin from then on, which build
its artifacts are, and what it has seen of the history. None of the four is inductive
without it, since a run that uploads relies on a check it made several steps before.
The argument is that remote state only grows (`RemoteGrows`), so that what a run
knows is not undone by the steps of others, by their crash or by the workflow.

`SecurityAuditProofs`, for any number of audits and any machines:
`AuditTypeCorrect`; `ScoreIsFair` (fixing a finding never lowers the score), from
`AuditInv`, which says that the score of an answer is computed from that answer;
and `UmaskIsKept` and `UmaskIsTold` under the hypothesis `[]WindowsApart`: no two
audits are between their two system calls at the same time. It is not a mere
convenience of the proof: the run `umask_race` shows the violation without it. It holds
when there is one audit (the corollary `SoleAudit`). `MaskIsOwn` is the strengthening:
what an audit has read, from the first system call to its answer, is the umask of the
process.

`DockerStatsProofs`, for any finite set of containers:
`EveryTargetHasItsEntry` and `NoGoroutineLeaks`. `StatsInv` needs `NothingLost`:
while the handler collects, the goroutines at work, the results in the channel and
the entries are together the targets, by name and by number. By name alone the handler
could stop early, by number alone an entry could stand for another container.

`HealthCheckProofs`, for any finite set of partitions and any readings:
`HealthTypeCorrect`, `WorstReadingDecides`, `OmissionsAreTold`. `HealthInv` says
which collectors have had their turn (`TurnsTaken`), that the others have read
nothing (`NotYetRead`), that the two flags tell the readings so far (`FlagsTell`) and
that every collector which failed or was refused is named once (`ErrorsTell`). The
flags are the heart of it: the verdict is computed from them and not from the
readings, one partition after the other may set them, and none may clear them.

`CollectorsProofs`, for any number of disks, any sections, and whatever the sources
answer: `CollectorsTellFailures`, `CollectorsFallBackLast` and
`CollectorsLoseNothing`. The three properties speak of the answer; `CollectorsInv`
follows them through the call. A failure met on the way is told, allowed to be silent,
or its fallback is the source asked next (`FailuresKnown`); a fallback is asked only
after a source that gave nothing (`FallbackInNeed`), and since the sources of a chain
of fallbacks are asked in their order and once (`ChainInOrder`), none of them can speak
up afterwards; where a call may still fail, nothing it asked has given it anything
(`NothingYet`); and what is to be looked at was asked or is ahead of the source asked
next (`CoveredOrAhead`), which is where a skipped section would show. The proof takes
the collectors once: each is an `Asked` step, which says what becomes of an answer and
where the call goes, and the invariant follows from `Asked` alone.

`MachineReadsProofs`:

* the tree, for any number of processes: `VisitedOnce`, `DepthsTell`,
  `SteadyAreListed`. What was read may contain cycles, as links of different moments
  are mixed. `TreeInv` says that the links of the machine at one moment are a forest
  (a rank above that of the parent), that a process was visited or waits, once and not
  both (`Once`), and that it is there because the walk began with it or has visited its
  parent (`Grounded`); since a process has one parent in what was read, it cannot be
  reached twice. `DepthsWait` relates the stack to the list already written.
  For `SteadyAreListed`, `LeftBehind` says that no child of a visited process is
  forgotten, and `SteadyRead` that without an exit what was read of a steady process
  is its link; a process of least rank among those left out would have a parent that
  was visited, which is a contradiction.
* the reads, for any numbers of processes and descriptors: `RankingsAreRight` and
  `DescriptorsOnce`. `RankInv` and `FdsInv` turn on the history of the call: what was
  not got was not there all along, and what was got has its own figures or belongs
  to a pid that was free in between.
* the Docker tools, for every set of values and every log: `EverythingIsClosed` and
  `SecretsStay`, from `DockerInv`, which counts the client and the body of the log
  by the step of the call.
* the owners of sockets, for any connections and any processes: `OwnersAreToldOnce`.
  `ConnsInv` says of an owner that its name was got, that it is still to be read, or that
  the pid was free for a moment, and that a name that was got is one of the call. The
  groups are proved to be those of the cut list from the lemmas about `Ascending` and
  `Selected` (`AscendingListing`, `SelectedSlice`).
* manual pages, for pages and lines of any length: `PagesAreWhole` and
  `LinesAreCleaned`. For the pages, what the client has is the part of the wanted lines
  up to the next offset, and this offset is within the text as long as an answer is
  truncated (`PagedInv`): otherwise it would be ignored, and the first lines would come
  again. For the clean-up, the buffer holds the characters of the glyphs that are done,
  and one byte more between a byte and the backspace behind it (`CleanInv`), so that it
  is never empty at a backspace.
* the texts, for any names, those of the keys among them, and any environment:
  `RoutesAreReadBack` and `VariablesAreListed`. `RouteInv` says that the loop has taken
  the keys before its word, each with its value, and that it never stops at the value of
  a key, only at that of `src`, which no name can be mistaken for.

Assumptions on the constants, all evaluated by TLC on the instances:
`ContentsAssumption` (the special file contents are not configurations),
`PlanAssumption` (an aggregate runs plain collectors, each once),
`WatchedAssumption` (the watched call is one), `BoundsAssumption` and
`NothingAssumption` (the bounds of `Release` are positive, there are a binary and a
manifest, and "no build" and "no tag" are neither), `MachinesAssumption` (the fields
of a machine are what the probes can find), `RequestsAssumption` (finitely many
containers; a reference stands for a set of them), `ReadingsAssumption` (finitely many
partitions, natural numbers, and the mark of a missing reading is none),
`PidsAssumption` (there is a pid, and the mark of an absent process is no number),
`ReadsAssumption` (finite sets of pids and descriptors; limits are positive, as
`clampZero` leaves them, and the argument `max_connections` is any integer),
`DisksAssumption` (there is a disk, and disks and their queries have names of their own),
`ManAssumption` (the limits of the tool are positive, offsets are not negative, and a
backspace is no character of a text) and `EnvPairsAssumption` (a pair has one part at
least).

Every invariant and action property that a passing run checks is a theorem, the two on
the umask under the hypothesis above. Only model-checked:

* liveness (`ReloadConverges`, `DeadlineHonoured`, `CallAnswered`), since the prover
  does not reach fairness and ENABLED;
* what `parseMDStat` computes, which is a fold over the lines and would need induction
  over data; its one property, `EveryArrayShown`, is violated (see below). The loops of
  `cleanManOutput` and `GatherRoutingTable` are proved about because they are actions, one
  per iteration, whose induction is that of the specification.

## 5. Findings

1. `resource_failure`: a resource read whose collector fails is answered with
   `null` and no error, since a nil pointer in an `any` is not nil
   (`tools/resources.go:251`).
2. `health_complete`: without a core count, or with a partition that cannot be
   read, checks are missing and the verdict may be OK (`tools/storage.go:668`,
   `tools/disk.go:53`); the documentation promises UNKNOWN.
3. `docker_unknown_ids`: with two or more ids, unknown ones are dropped
   (`tools/docker.go:598`); the documentation promises an error.
4. `umask_race`: two overlapping audits can leave the server with umask 0000
   (`tools/security_audit.go:183`).
5. `raid_arrays`: with two arrays in `/proc/mdstat` only the first is shown, with
   the device counts of the last (`tools/storage.go:364`): a header is looked for
   only before the first array.

Without a run of their own, where the code and a text of the repository differ:

* a setting of `sshd_config` after the Include overrides the drop-in
  (`tools/security_audit.go:79`), against the comment at line 68;
* an array without counts is shown as active, since 0 of 0 devices are missing
  (`tools/storage.go:344`), and the kernel prints `[total/active]` where the comment
  says active/total; the status is the same either way;
* a failing `nvidia-smi` is passed over like one that is not installed, so the call
  may fail with GPU tools present ("Fatal only if no GPU tool is installed");
* a missing `smartctl` is an error in the errors field ("only a missing smartctl is
  fatal"), and a nonzero exit status, which smartctl also uses for warnings, makes
  the disk "unknown";
* names that are no section of `get_proc_diagnostics` give an empty answer without
  an error;
* the resource `system:///disk/`, described as the root, gives all partitions
  (`tools/resources.go:166`);
* a bullet in front of a failed unit shifts the columns `systemctl` prints
  (`tools/service.go:96`);
* a killed `pacman -Qu` counts as no updates (`tools/packages.go:308`), a killed
  `journalctl` as no failed logins (`tools/security.go:103`);
* an offset past the end of a manual page gives its first lines again, with the mark
  "truncated" (`tools/man.go:108`), and the clean-up removes a byte where its comment
  says a character.

Besides: a process whose parent exits while `/proc` is read is
missing from the full tree, with its descendants; `SteadyListed` holds only with the
proviso that nobody exits.

## 6. Plan

Done: every component of the inventory has its module, its runs and, but for
liveness, its theorems.

Open, in this order:

1. The routing of resource URIs (`findResource`) and counter differences of
   `docker.go` on bounded words.
2. The mdstat parser as a loop over lines, once its header test is settled (finding 5).

## 7. Not modelled

The columns and number formats the collectors parse (other than routes, environment
and mdstat): they are abstracted to whether rows were found, and what could be wrong
with them is the text format of another program. The look-up of remote host names,
the desktop session (a copy of environment variables), the matching of resource URIs
and the arithmetic on Docker counters. The wire protocol belongs to the go-sdk. Sizes, names,
messages and log lines are left out wherever nothing branches on them. A command
that leaves a child behind holding its output pipe can delay `execOutput` past the
deadline (`tools/util.go:147`); the model counts such a collector as one that
ignores its context. Recording scripts and tests are not part of the program.
