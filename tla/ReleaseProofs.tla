--------------------------- MODULE ReleaseProofs ---------------------------
(***************************************************************************)
(* Proofs about the release procedure, for any number of maintainers,      *)
(* assets, versions and commits.                                           *)
(*                                                                         *)
(* The argument: what a run knows at a step (its artifacts are one build   *)
(* of its source, its tag is on origin, the release is its own) stays true *)
(* while others act, since what is on origin, on GitHub and in the         *)
(* registry is only ever added to.                                         *)
(***************************************************************************)
EXTENDS Release, TLAPS

\* A release that was not made has no files.
NoReleaseNoFiles ==
    \A v \in Versions : ~releases[v].exists => releases[v].assets = NoFiles

\* The steps of a run that makes a release, from the resolved version on.
Making == {"test", "build", "sign", "push", "create", "upload"}

\* What a run has settled by its step.
SourceSettled(m) ==
    /\ job[m].pc # "idle" => job[m].source \in Commits
    /\ job[m].pc \in Making \cup {"download", "publish"} =>
           job[m].version \in Versions
    /\ job[m].pc \in Making => ~job[m].resume

\* The tag is in the checkout until it is pushed, and on origin from then on.
TagSettled(m) ==
    /\ job[m].pc \in {"build", "sign", "push"} =>
           tags[m][job[m].version] # NoTag
    /\ job[m].pc \in {"create", "upload"} =>
           /\ originTags[job[m].version] # NoTag
           /\ originTags[job[m].version].commit = job[m].source

\* The artifacts are one build of the source, the release under way is of that
\* build, and what is about to be published is what the release holds.
FilesSettled(m) ==
    /\ job[m].pc \in {"sign", "push", "create", "upload"} =>
           /\ job[m].art["binary"] \in Build
           /\ job[m].art["binary"].version = job[m].version
           /\ job[m].art["binary"].commit = job[m].source
    /\ job[m].pc \in {"push", "create", "upload"} =>
           \A a \in Assets : job[m].art[a] = job[m].art["binary"]
    /\ job[m].pc = "upload" =>
           /\ releases[job[m].version].exists
           /\ releases[job[m].version].build = job[m].art["binary"]
    /\ job[m].pc = "publish" =>
           /\ \A a \in Assets : job[m].art[a] # NoBuild
           /\ job[m].art["manifest"] = job[m].art["binary"]
           /\ job[m].art["manifest"].version = job[m].version
           /\ \A a \in Assets :
                  releases[job[m].version].assets[a] = job[m].art[a]

\* No commit is ahead of main, and while main stays where a run saw it, every
\* tag that was pushed behind its back names a commit no older than its source.
HistorySeen(m) ==
    /\ head[m] <= originMain
    /\ job[m].pc # "idle" /\ ~job[m].resume =>
           /\ job[m].source <= originMain
           /\ job[m].pc \in {"list", "resolve"} =>
                  \A w \in Versions :
                      originTags[w] # NoTag /\ tags[m][w] = NoTag =>
                          job[m].source <= originTags[w].commit
           /\ job[m].pc \in {"test", "build", "sign", "push"} =>
                  \A w \in Versions :
                      originTags[w] # NoTag /\ w > job[m].version =>
                          job[m].source <= originTags[w].commit

ReleaseInv ==
    /\ TypeOK
    /\ NoReleaseNoFiles
    /\ ReleaseIsOneBuild
    /\ RegistryMatchesRelease
    /\ VersionsFollowHistory
    /\ \A m \in Maintainers : SourceSettled(m)
    /\ \A m \in Maintainers : TagSettled(m)
    /\ \A m \in Maintainers : FilesSettled(m)
    /\ \A m \in Maintainers : HistorySeen(m)

-----------------------------------------------------------------------------
\* A run of the script, as TypeOK has it.
Job == [pc : Steps, resume : BOOLEAN, version : 0..MaxVersion,
        source : 0..MaxCommit, seen : SUBSET Versions, art : Files]

\* The files of a release as TypeOK has them.
ReleaseRecord == [exists : BOOLEAN, build : Build \cup {NoBuild}, assets : Files]

\* The type of each variable, without the last part of TypeOK, which a run settles.
VariableTypes ==
    /\ originMain \in Commits
    /\ originTags \in [Versions -> Tag \cup {NoTag}]
    /\ releases \in [Versions -> ReleaseRecord]
    /\ registry \in [Versions -> Build \cup {NoBuild}]
    /\ head \in [Maintainers -> Commits]
    /\ tags \in [Maintainers -> [Versions -> Tag \cup {NoTag}]]
    /\ bin \in [Maintainers -> Files]
    /\ builds \in 0..MaxBuilds
    /\ job \in [Maintainers -> Job]

\* The type invariant, in these terms.
LEMMA Types == TypeOK => VariableTypes /\ originMain \in Nat
  BY BoundsAssumption DEF TypeOK, VariableTypes, ReleaseRecord, Job, Commits

\* A step of the run of m replaces its job and no other.
LEMMA JobStep ==
    ASSUME job \in [Maintainers -> Job], NEW m \in Maintainers, NEW j \in Job,
           job' = [job EXCEPT ![m] = j]
    PROVE  /\ job' \in [Maintainers -> Job]
           /\ job'[m] = j
           /\ \A o \in Maintainers \ {m} : job'[o] = job[o]
  OBVIOUS

\* The initial states satisfy the inductive invariant.
LEMMA InitReleaseInv == Init => ReleaseInv
<1> SUFFICES ASSUME Init PROVE ReleaseInv
  OBVIOUS
<1>1. NoFiles \in Files
  BY DEF NoFiles, Files
<1>2. NoJob \in Job /\ NoRelease \in ReleaseRecord
  BY <1>1, BoundsAssumption DEF NoJob, Job, NoRelease, ReleaseRecord, Steps
<1>3. TypeOK
  BY <1>1, <1>2, BoundsAssumption
  DEF Init, TypeOK, Job, ReleaseRecord, Commits, NoJob
<1>4. NoReleaseNoFiles /\ ReleaseIsOneBuild /\ RegistryMatchesRelease
      /\ VersionsFollowHistory
  BY DEF Init, NoReleaseNoFiles, ReleaseIsOneBuild, RegistryMatchesRelease,
         VersionsFollowHistory, NoRelease, Versions
<1>5. ASSUME NEW m \in Maintainers
      PROVE  SourceSettled(m) /\ TagSettled(m) /\ FilesSettled(m) /\ HistorySeen(m)
  BY DEF Init, SourceSettled, TagSettled, FilesSettled, HistorySeen, NoJob, Making
<1>6. QED
  BY <1>3, <1>4, <1>5 DEF ReleaseInv

-----------------------------------------------------------------------------
(* What a step does to what a run relies on.                               *)

\* What is on origin and on GitHub stays, and a new tag names the head of main.
RemoteGrows ==
    /\ originMain <= originMain'
    /\ \A v \in Versions :
        /\ originTags[v] # NoTag => originTags'[v] = originTags[v]
        /\ originTags[v] = NoTag /\ originTags'[v] # NoTag =>
               originTags'[v].commit = originMain
        /\ releases[v].exists => /\ releases'[v].exists
                                 /\ releases'[v].build = releases[v].build
        /\ \A a \in Assets : releases[v].assets[a] # NoBuild =>
               releases'[v].assets[a] = releases[v].assets[a]

\* A checkout keeps its tags and is not ahead of main.
CheckoutGrows(m) ==
    /\ head'[m] <= originMain'
    /\ \A v \in Versions : tags[m][v] # NoTag => tags'[m][v] = tags[m][v]

Settled(m) ==
    SourceSettled(m) /\ TagSettled(m) /\ FilesSettled(m) /\ HistorySeen(m)

\* What a run has settled is not undone by the steps of others.
LEMMA StaysSettled ==
    ASSUME ReleaseInv, VariableTypes', RemoteGrows, NEW m \in Maintainers,
           CheckoutGrows(m), job'[m] = job[m]
    PROVE  Settled(m)'
<1>1. job[m] \in Job /\ originMain \in Nat /\ originMain' \in Nat
  BY Types, BoundsAssumption DEF ReleaseInv, VariableTypes, Commits
<1>2. SourceSettled(m) /\ TagSettled(m) /\ FilesSettled(m) /\ HistorySeen(m)
  BY DEF ReleaseInv
<1>3. SourceSettled(m)'
  BY <1>2 DEF SourceSettled
<1>4. TagSettled(m)'
  BY <1>2 DEF SourceSettled, TagSettled, RemoteGrows, CheckoutGrows, Making
<1>5. FilesSettled(m)'
  BY <1>2 DEF SourceSettled, FilesSettled, RemoteGrows, Making
<1>6. HistorySeen(m)'
  <2>1. ASSUME job[m].pc # "idle", ~job[m].resume
        PROVE  job[m].source <= originMain /\ job[m].source \in Nat
    BY <1>1, <1>2, <2>1 DEF HistorySeen, Job
  <2>2. ASSUME job[m].pc # "idle", ~job[m].resume
        PROVE  job[m].source <= originMain'
    BY <1>1, <2>1, <2>2 DEF RemoteGrows
  <2>3. ASSUME ~job[m].resume, job[m].pc \in {"list", "resolve"},
               NEW w \in Versions, originTags'[w] # NoTag, tags'[m][w] = NoTag
        PROVE  job[m].source <= originTags'[w].commit
    <3>1. tags[m][w] = NoTag
      BY <2>3 DEF CheckoutGrows
    <3>2. CASE originTags[w] # NoTag
      BY <1>2, <2>3, <3>1, <3>2 DEF RemoteGrows, HistorySeen
    <3>3. CASE originTags[w] = NoTag
      BY <2>1, <2>3, <3>3 DEF RemoteGrows
    <3>4. QED
      BY <3>2, <3>3
  <2>4. ASSUME ~job[m].resume, job[m].pc \in {"test", "build", "sign", "push"},
               NEW w \in Versions, originTags'[w] # NoTag, w > job[m].version
        PROVE  job[m].source <= originTags'[w].commit
    <3>2. CASE originTags[w] # NoTag
      BY <1>2, <2>4, <3>2 DEF RemoteGrows, HistorySeen
    <3>3. CASE originTags[w] = NoTag
      BY <2>1, <2>4, <3>3 DEF RemoteGrows
    <3>4. QED
      BY <3>2, <3>3
  <2>5. QED
    BY <2>2, <2>3, <2>4 DEF HistorySeen, CheckoutGrows
<1>7. QED
  BY <1>3, <1>4, <1>5, <1>6 DEF Settled

\* For a step that changes origin, GitHub or the registry, by m if by a run.
LEMMA RemoteStepInv ==
    ASSUME ReleaseInv, VariableTypes', RemoteGrows,
           NoReleaseNoFiles', ReleaseIsOneBuild', RegistryMatchesRelease',
           VersionsFollowHistory',
           \A o \in Maintainers : CheckoutGrows(o),
           \A o \in Maintainers : job'[o] = job[o] \/ Settled(o)'
    PROVE  ReleaseInv'
<1>1. ASSUME NEW o \in Maintainers PROVE Settled(o)'
  BY StaysSettled
<1>2. ASSUME NEW m \in Maintainers,
             job'[m].pc \in {"sign", "push", "create", "upload", "publish"}
      PROVE  /\ job'[m].version \in Versions /\ job'[m].source \in Commits
             /\ job'[m].art["binary"] \in Build
  <2>1. SourceSettled(m)' /\ FilesSettled(m)' /\ job'[m] \in Job
    BY <1>1 DEF Settled, VariableTypes
  <2>2. job'[m].version \in Versions /\ job'[m].source \in Commits
    BY <1>2, <2>1 DEF SourceSettled, Making
  <2>3. CASE job'[m].pc # "publish"
    BY <1>2, <2>1, <2>2, <2>3 DEF FilesSettled
  <2>4. CASE job'[m].pc = "publish"
    BY <2>1, <2>2, <2>4, BoundsAssumption DEF FilesSettled, Job, Files
  <2>5. QED
    BY <2>3, <2>4
<1>3. TypeOK'
  BY <1>2 DEF TypeOK, VariableTypes, Job, ReleaseRecord
<1>4. QED
  BY <1>1, <1>3 DEF ReleaseInv, Settled

\* For a step of a run that only reads what is remote.
LEMMA LocalStepInv ==
    ASSUME ReleaseInv, VariableTypes', UNCHANGED remote,
           \A o \in Maintainers : CheckoutGrows(o),
           \A o \in Maintainers : job'[o] = job[o] \/ Settled(o)'
    PROVE  ReleaseInv'
<1>1. originMain \in Nat
  BY Types DEF ReleaseInv
<1>2. RemoteGrows
  BY <1>1 DEF RemoteGrows, remote
<1>3. NoReleaseNoFiles' /\ ReleaseIsOneBuild' /\ RegistryMatchesRelease'
      /\ VersionsFollowHistory'
  BY DEF ReleaseInv, remote, NoReleaseNoFiles, ReleaseIsOneBuild,
         RegistryMatchesRelease, VersionsFollowHistory
<1>4. QED
  BY <1>2, <1>3, RemoteStepInv

-----------------------------------------------------------------------------
(* The steps of a run that only read what is remote.                       *)

\* A checkout that fetches keeps its tags.
LEMMA FetchGrows ==
    ASSUME ReleaseInv, NEW m \in Maintainers
    PROVE  /\ Fetched(m) \in [Versions -> Tag \cup {NoTag}]
           /\ \A v \in Versions :
                  /\ tags[m][v] # NoTag => Fetched(m)[v] = tags[m][v]
                  /\ Fetched(m)[v] = NoTag => originTags[v] = NoTag
  BY Types DEF ReleaseInv, VariableTypes, Fetched

\* The job of a run that has fetched.
LEMMA StartedJob ==
    ASSUME NEW resume \in BOOLEAN, NEW h \in 0..MaxCommit, NEW j,
           j = [NoJob EXCEPT !.pc = "list", !.resume = resume, !.source = h]
    PROVE  j = [pc |-> "list", resume |-> resume, version |-> 0, source |-> h,
                seen |-> {}, art |-> NoFiles]
  BY Zenon DEF NoJob

\* preflight: a run starts from the head of main, knowing every tag there is.
LEMMA PreflightInv ==
    ASSUME ReleaseInv, NEW m \in Maintainers, NEW resume \in BOOLEAN,
           Preflight(m, resume)
    PROVE  ReleaseInv'
<1>0. PICK j : j = [NoJob EXCEPT !.pc = "list", !.resume = resume,
                                 !.source = head[m]]
  BY Zenon
<1>1. VariableTypes /\ originMain \in Nat /\ HistorySeen(m)
  BY Types DEF ReleaseInv
<1>2. head[m] \in 0..MaxCommit
  BY <1>1 DEF VariableTypes, Commits
<1>3. /\ j \in Job /\ j.pc = "list" /\ j.resume = resume /\ j.source = head[m]
  <2>1. j = [pc |-> "list", resume |-> resume, version |-> 0,
             source |-> head[m], seen |-> {}, art |-> NoFiles]
    BY <1>0, <1>2, StartedJob, Zenon
  <2>2. NoFiles \in Files /\ "list" \in Steps
    BY DEF NoFiles, Files, Steps
  <2>3. j \in Job
    BY <1>2, <2>1, <2>2, BoundsAssumption DEF Job
  <2>4. QED
    BY <2>1, <2>3, Zenon
<1>4. /\ job' \in [Maintainers -> Job]
      /\ job'[m] = j
      /\ \A o \in Maintainers \ {m} : job'[o] = job[o]
  <2>1. job' = [job EXCEPT ![m] = j]
    BY <1>0, Zenon DEF Preflight
  <2>2. QED
    BY <1>1, <1>3, <2>1, JobStep DEF VariableTypes
<1>5. /\ tags' \in [Maintainers -> [Versions -> Tag \cup {NoTag}]]
      /\ tags'[m] = Fetched(m)
      /\ \A o \in Maintainers \ {m} : tags'[o] = tags[o]
  BY <1>1, FetchGrows DEF Preflight, VariableTypes
<1>6. VariableTypes'
  BY <1>1, <1>4, <1>5 DEF VariableTypes, Preflight, remote
<1>7. ASSUME NEW o \in Maintainers PROVE CheckoutGrows(o)
  BY <1>5, FetchGrows DEF CheckoutGrows, Preflight, remote, ReleaseInv, HistorySeen
<1>8. SourceSettled(m)' /\ TagSettled(m)' /\ FilesSettled(m)'
  BY <1>1, <1>3, <1>4 DEF SourceSettled, TagSettled, FilesSettled, Making,
                          VariableTypes
<1>9. HistorySeen(m)'
  BY <1>1, <1>3, <1>4, <1>5, FetchGrows DEF HistorySeen, Preflight, remote
<1>10. QED
  BY <1>4, <1>6, <1>7, <1>8, <1>9, LocalStepInv DEF Preflight, Settled

\* git pull in a second terminal.
LEMMA PullInv ==
    ASSUME ReleaseInv, NEW m \in Maintainers, Pull(m)
    PROVE  ReleaseInv'
<1>1. VariableTypes /\ originMain \in Nat
  BY Types DEF ReleaseInv
<1>2. /\ tags' \in [Maintainers -> [Versions -> Tag \cup {NoTag}]]
      /\ tags'[m] = Fetched(m)
      /\ \A o \in Maintainers \ {m} : tags'[o] = tags[o]
  BY <1>1, FetchGrows DEF Pull, VariableTypes
<1>3. /\ head' \in [Maintainers -> Commits]
      /\ \A o \in Maintainers : head'[o] = head[o] \/ head'[o] = originMain
  BY <1>1 DEF Pull, VariableTypes
<1>4. VariableTypes'
  BY <1>1, <1>2, <1>3 DEF VariableTypes, Pull, remote
<1>5. ASSUME NEW o \in Maintainers PROVE CheckoutGrows(o)
  BY <1>1, <1>2, <1>3, FetchGrows
  DEF CheckoutGrows, Pull, remote, ReleaseInv, HistorySeen
<1>6. QED
  BY <1>4, <1>5, LocalStepInv DEF Pull

\* For a step of a run that changes nothing but its job and what it retains.
LEMMA JobStepInv ==
    ASSUME ReleaseInv, NEW m \in Maintainers,
           job' \in [Maintainers -> Job],
           \A o \in Maintainers \ {m} : job'[o] = job[o],
           UNCHANGED <<remote, head, tags>>,
           builds' \in 0..MaxBuilds, bin' \in [Maintainers -> Files],
           SourceSettled(m)', TagSettled(m)', FilesSettled(m)', HistorySeen(m)'
    PROVE  ReleaseInv'
<1>1. VariableTypes
  BY Types DEF ReleaseInv
<1>2. VariableTypes'
  BY <1>1 DEF VariableTypes, remote
<1>3. ASSUME NEW o \in Maintainers PROVE CheckoutGrows(o)
  BY DEF CheckoutGrows, remote, ReleaseInv, HistorySeen
<1>4. QED
  BY <1>2, <1>3, LocalStepInv DEF Settled

\* RELEASE_TAGS is filled.
LEMMA ListReleasesInv ==
    ASSUME ReleaseInv, NEW m \in Maintainers, ListReleases(m)
    PROVE  ReleaseInv'
<1>1. VariableTypes /\ job[m] \in Job /\ SourceSettled(m) /\ HistorySeen(m)
  BY Types DEF ReleaseInv, VariableTypes
<1>2. /\ job' \in [Maintainers -> Job]
      /\ \A o \in Maintainers \ {m} : job'[o] = job[o]
      /\ job'[m].pc = "resolve"
      /\ job'[m].resume = job[m].resume /\ job'[m].source = job[m].source
  BY <1>1 DEF ListReleases, VariableTypes, Job, Steps
<1>3. SourceSettled(m)' /\ TagSettled(m)' /\ FilesSettled(m)'
  BY <1>1, <1>2 DEF ListReleases, SourceSettled, TagSettled, FilesSettled, Making
<1>4. HistorySeen(m)'
  BY <1>1, <1>2 DEF ListReleases, HistorySeen, remote
<1>5. QED
  BY <1>1, <1>2, <1>3, <1>4, JobStepInv DEF ListReleases, VariableTypes

\* resolve_version: the tags the checkout does not know are of commits no older
\* than the source, and the ones it knows are not of a higher version.
LEMMA ResolveNewInv ==
    ASSUME ReleaseInv, NEW m \in Maintainers, NEW v \in Versions,
           ResolveNew(m, v)
    PROVE  ReleaseInv'
<1>1. VariableTypes /\ job[m] \in Job /\ SourceSettled(m) /\ HistorySeen(m)
  BY Types DEF ReleaseInv, VariableTypes
<1>2. /\ job' \in [Maintainers -> Job]
      /\ \A o \in Maintainers \ {m} : job'[o] = job[o]
      /\ job'[m].pc = "test" /\ job'[m].version = v
      /\ job'[m].resume = job[m].resume /\ job'[m].source = job[m].source
  <2>1. v \in 0..MaxVersion /\ {} \in SUBSET Versions /\ "test" \in Steps
    BY BoundsAssumption DEF Versions, Steps
  <2>2. QED
    BY <1>1, <2>1 DEF ResolveNew, VariableTypes, Job
<1>3. SourceSettled(m)' /\ TagSettled(m)' /\ FilesSettled(m)'
  BY <1>1, <1>2 DEF ResolveNew, SourceSettled, TagSettled, FilesSettled, Making
<1>4. ASSUME NEW w \in Versions, originTags[w] # NoTag, w > v
      PROVE  job[m].source <= originTags[w].commit
  <2>1. tags[m][w] = NoTag
    BY <1>4 DEF ResolveNew, NotOlder, Versions
  <2>2. QED
    BY <1>1, <1>4, <2>1 DEF ResolveNew, HistorySeen
<1>5. HistorySeen(m)'
  BY <1>1, <1>2, <1>4 DEF ResolveNew, HistorySeen, remote
<1>6. QED
  BY <1>1, <1>2, <1>3, <1>5, JobStepInv DEF ResolveNew, VariableTypes

\* --resume-publish takes the tag as its source.
LEMMA ResolveResumeInv ==
    ASSUME ReleaseInv, NEW m \in Maintainers, NEW v \in Versions,
           ResolveResume(m, v)
    PROVE  ReleaseInv'
<1>1. VariableTypes /\ job[m] \in Job /\ SourceSettled(m) /\ HistorySeen(m)
  BY Types DEF ReleaseInv, VariableTypes
<1>2. tags[m][v].commit \in Commits
  BY <1>1 DEF ResolveResume, VariableTypes, Tag
<1>3. /\ job' \in [Maintainers -> Job]
      /\ \A o \in Maintainers \ {m} : job'[o] = job[o]
      /\ job'[m].pc = "download" /\ job'[m].version = v
      /\ job'[m].resume = job[m].resume /\ job'[m].source = tags[m][v].commit
  <2>1. /\ v \in 0..MaxVersion /\ {} \in SUBSET Versions
        /\ "download" \in Steps /\ tags[m][v].commit \in 0..MaxCommit
    BY <1>2, BoundsAssumption DEF Versions, Steps, Commits
  <2>2. QED
    BY <1>1, <2>1 DEF ResolveResume, VariableTypes, Job
<1>4. SourceSettled(m)' /\ TagSettled(m)' /\ FilesSettled(m)'
  BY <1>1, <1>2, <1>3
  DEF ResolveResume, SourceSettled, TagSettled, FilesSettled, Making
<1>5. HistorySeen(m)'
  BY <1>1, <1>3 DEF ResolveResume, HistorySeen, remote
<1>6. QED
  BY <1>1, <1>3, <1>4, <1>5, JobStepInv DEF ResolveResume, VariableTypes

\* The source is tagged, or its tag is taken as it is.
LEMMA TagSourceInv ==
    ASSUME ReleaseInv, NEW m \in Maintainers, TagSource(m)
    PROVE  ReleaseInv'
<1> DEFINE v == job[m].version
           t == [commit |-> job[m].source, by |-> m]
<1>1. VariableTypes /\ job[m] \in Job /\ job[m].pc = "test"
      /\ SourceSettled(m) /\ HistorySeen(m)
  BY Types DEF ReleaseInv, VariableTypes, TagSource, Goto
<1>2. v \in Versions /\ job[m].source \in Commits
  BY <1>1 DEF SourceSettled, Making
<1>3. t \in Tag /\ t # NoTag
  BY <1>2, NothingAssumption DEF Tag
<1>4. /\ tags' \in [Maintainers -> [Versions -> Tag \cup {NoTag}]]
      /\ tags'[m][v] # NoTag
      /\ \A o \in Maintainers : \A w \in Versions :
             tags[o][w] # NoTag => tags'[o][w] = tags[o][w]
  <2> HIDE DEF t
  <2>1. CASE tags[m][v] # NoTag
    BY <1>1, <2>1 DEF TagSource, VariableTypes
  <2>2. CASE tags[m][v] = NoTag
    <3>1. tags' = [tags EXCEPT ![m][v] = t]
      BY <2>2 DEF TagSource, t
    <3>2. QED
      BY <1>1, <1>2, <1>3, <2>2, <3>1 DEF VariableTypes
  <2>3. QED
    BY <2>1, <2>2
<1>5. /\ job' \in [Maintainers -> Job]
      /\ \A o \in Maintainers \ {m} : job'[o] = job[o]
      /\ job'[m].pc = "build" /\ job'[m].version = v
      /\ job'[m].resume = job[m].resume /\ job'[m].source = job[m].source
  BY <1>1 DEF TagSource, Goto, VariableTypes, Job, Steps
<1>6. VariableTypes'
  BY <1>1, <1>4, <1>5 DEF VariableTypes, TagSource, remote
<1>7. ASSUME NEW o \in Maintainers PROVE CheckoutGrows(o)
  BY <1>4 DEF CheckoutGrows, TagSource, remote, ReleaseInv, HistorySeen
<1>8. SourceSettled(m)' /\ TagSettled(m)' /\ FilesSettled(m)'
  BY <1>1, <1>2, <1>4, <1>5 DEF SourceSettled, TagSettled, FilesSettled, Making
<1>9. HistorySeen(m)'
  BY <1>1, <1>5 DEF HistorySeen, TagSource, remote
<1>10. QED
  BY <1>5, <1>6, <1>7, <1>8, <1>9, LocalStepInv DEF TagSource, Settled

\* The build is of the tagged commit, which is the source.
LEMMA BuildTaggedInv ==
    ASSUME ReleaseInv, NEW m \in Maintainers, BuildTagged(m)
    PROVE  ReleaseInv'
<1> DEFINE v == job[m].version
           built == [n |-> builds + 1, version |-> v, commit |-> tags[m][v].commit]
           art == [job[m].art EXCEPT !["binary"] = built]
<1>1. VariableTypes /\ job[m] \in Job /\ job[m].pc = "build"
      /\ SourceSettled(m) /\ TagSettled(m) /\ HistorySeen(m)
  BY Types DEF ReleaseInv, VariableTypes, BuildTagged
<1>2. v \in Versions /\ job[m].source \in Commits
  BY <1>1 DEF SourceSettled, Making
<1>3. built \in Build /\ built.version = v /\ built.commit = job[m].source
  <2>1. builds + 1 \in 1..MaxBuilds
    BY <1>1, BoundsAssumption DEF BuildTagged, VariableTypes
  <2>2. tags[m][v].commit = job[m].source
    BY DEF BuildTagged
  <2>3. QED
    BY <1>2, <2>1, <2>2 DEF Build
<1> HIDE DEF built
<1>4. art \in Files /\ art["binary"] = built
  BY <1>1, <1>3, BoundsAssumption DEF Job, Files
<1>5. job' = [job EXCEPT ![m].pc = "sign", ![m].art = art]
  BY <1>1 DEF BuildTagged, VariableTypes, built
<1> HIDE DEF art
<1>6. /\ job' \in [Maintainers -> Job]
      /\ \A o \in Maintainers \ {m} : job'[o] = job[o]
      /\ job'[m].pc = "sign" /\ job'[m].version = v /\ job'[m].art = art
      /\ job'[m].resume = job[m].resume /\ job'[m].source = job[m].source
  BY <1>1, <1>4, <1>5 DEF VariableTypes, Job, Steps
<1>7. SourceSettled(m)' /\ TagSettled(m)'
  BY <1>1, <1>2, <1>6 DEF SourceSettled, TagSettled, Making, BuildTagged, remote
<1>8. FilesSettled(m)'
  BY <1>3, <1>4, <1>6 DEF FilesSettled
<1>9. HistorySeen(m)'
  BY <1>1, <1>6 DEF HistorySeen, BuildTagged, remote
<1>10. builds' \in 0..MaxBuilds
  BY <1>1, BoundsAssumption DEF BuildTagged, VariableTypes
<1>11. QED
  BY <1>1, <1>6, <1>7, <1>8, <1>9, <1>10, JobStepInv DEF BuildTagged, VariableTypes

\* All the artifacts are made from the one binary.
LEMMA SignAndRetainInv ==
    ASSUME ReleaseInv, NEW m \in Maintainers, SignAndRetain(m)
    PROVE  ReleaseInv'
<1> DEFINE files == [a \in Assets |-> job[m].art["binary"]]
<1>1. VariableTypes /\ job[m] \in Job /\ job[m].pc = "sign" /\ SourceSettled(m)
      /\ TagSettled(m) /\ FilesSettled(m) /\ HistorySeen(m)
  BY Types DEF ReleaseInv, VariableTypes, SignAndRetain
<1>2. /\ files \in Files /\ files["binary"] = job[m].art["binary"]
      /\ \A a \in Assets : files[a] = files["binary"]
  BY <1>1, BoundsAssumption DEF Files, FilesSettled
<1>3. /\ job' = [job EXCEPT ![m].pc = "push", ![m].art = files]
      /\ bin' = [bin EXCEPT ![m] = files]
  BY DEF SignAndRetain
<1> HIDE DEF files
<1>4. /\ job' \in [Maintainers -> Job]
      /\ \A o \in Maintainers \ {m} : job'[o] = job[o]
      /\ job'[m].pc = "push" /\ job'[m].version = job[m].version
      /\ job'[m].art = files
      /\ job'[m].resume = job[m].resume /\ job'[m].source = job[m].source
  BY <1>1, <1>2, <1>3 DEF VariableTypes, Job, Steps
<1>5. SourceSettled(m)' /\ TagSettled(m)'
  BY <1>1, <1>4 DEF SourceSettled, TagSettled, Making, SignAndRetain, remote
<1>6. FilesSettled(m)'
  BY <1>1, <1>2, <1>4 DEF FilesSettled
<1>7. HistorySeen(m)'
  BY <1>1, <1>4 DEF HistorySeen, SignAndRetain, remote
<1>8. bin' \in [Maintainers -> Files]
  BY <1>1, <1>2, <1>3 DEF VariableTypes
<1>9. QED
  BY <1>1, <1>4, <1>5, <1>6, <1>7, <1>8, JobStepInv DEF SignAndRetain, VariableTypes

\* Every asset is uploaded.
LEMMA UploadedInv ==
    ASSUME ReleaseInv, NEW m \in Maintainers, Uploaded(m)
    PROVE  ReleaseInv'
<1>1. VariableTypes /\ job[m] \in Job /\ job[m].pc = "upload" /\ SourceSettled(m)
      /\ HistorySeen(m)
  BY Types DEF ReleaseInv, VariableTypes, Uploaded, Goto
<1>2. /\ job' \in [Maintainers -> Job]
      /\ \A o \in Maintainers \ {m} : job'[o] = job[o]
      /\ job'[m].pc = "download" /\ job'[m].version = job[m].version
      /\ job'[m].resume = job[m].resume /\ job'[m].source = job[m].source
  BY <1>1 DEF Uploaded, Goto, VariableTypes, Job, Steps
<1>3. SourceSettled(m)' /\ TagSettled(m)' /\ FilesSettled(m)'
  BY <1>1, <1>2 DEF SourceSettled, TagSettled, FilesSettled, Making
<1>4. HistorySeen(m)'
  BY <1>1, <1>2 DEF HistorySeen, Uploaded, remote
<1>5. QED
  BY <1>1, <1>2, <1>3, <1>4, JobStepInv DEF Uploaded, VariableTypes

\* What was downloaded is whole, of the version, and what the release holds.
LEMMA DownloadInv ==
    ASSUME ReleaseInv, NEW m \in Maintainers, Download(m)
    PROVE  ReleaseInv'
<1> DEFINE files == releases[job[m].version].assets
<1>1. VariableTypes /\ job[m] \in Job /\ job[m].pc = "download"
      /\ SourceSettled(m) /\ HistorySeen(m)
  BY Types DEF ReleaseInv, VariableTypes, Download
<1>2. job[m].version \in Versions
  BY <1>1 DEF SourceSettled
<1>3. files \in Files
  BY <1>1, <1>2 DEF VariableTypes, ReleaseRecord
<1>4. /\ \A a \in Assets : files[a] # NoBuild
      /\ files["manifest"] = files["binary"]
      /\ files["manifest"].version = job[m].version
  BY DEF Download, Intact
<1>5. /\ job' = [job EXCEPT ![m].pc = "publish", ![m].art = files]
      /\ bin' = [bin EXCEPT ![m] = files]
      /\ releases' = releases
  BY DEF Download, remote
<1>6. releases'[job[m].version].assets = files
  BY <1>5
<1> HIDE DEF files
<1>7. /\ job' \in [Maintainers -> Job]
      /\ \A o \in Maintainers \ {m} : job'[o] = job[o]
      /\ job'[m].pc = "publish" /\ job'[m].version = job[m].version
      /\ job'[m].art = files
      /\ job'[m].resume = job[m].resume /\ job'[m].source = job[m].source
  BY <1>1, <1>3, <1>5 DEF VariableTypes, Job, Steps
<1>8. SourceSettled(m)' /\ TagSettled(m)'
  BY <1>1, <1>7 DEF SourceSettled, TagSettled, Making
<1>9. FilesSettled(m)'
  BY <1>4, <1>6, <1>7 DEF FilesSettled
<1>10. HistorySeen(m)'
  BY <1>1, <1>7 DEF HistorySeen, Download, remote
<1>11. bin' \in [Maintainers -> Files]
  BY <1>1, <1>3, <1>5 DEF VariableTypes
<1>12. QED
  BY <1>1, <1>7, <1>8, <1>9, <1>10, <1>11, JobStepInv DEF Download, VariableTypes

\* A run that is over has settled nothing.
LEMMA NoJobSettled ==
    ASSUME ReleaseInv, NEW m \in Maintainers, job' = [job EXCEPT ![m] = NoJob]
    PROVE  /\ job' \in [Maintainers -> Job]
           /\ \A o \in Maintainers \ {m} : job'[o] = job[o]
           /\ job'[m].pc = "idle"
           /\ SourceSettled(m)' /\ TagSettled(m)' /\ FilesSettled(m)'
<1>1. job \in [Maintainers -> Job]
  BY Types DEF ReleaseInv, VariableTypes
<1>2. NoFiles \in Files
  BY DEF NoFiles, Files
<1>3. NoJob \in Job /\ NoJob.pc = "idle"
  BY <1>2, BoundsAssumption DEF NoJob, Job, Steps
<1>4. /\ job' \in [Maintainers -> Job]
      /\ \A o \in Maintainers \ {m} : job'[o] = job[o]
      /\ job'[m].pc = "idle"
  BY <1>1, <1>3, JobStep
<1>5. QED
  BY <1>4 DEF SourceSettled, TagSettled, FilesSettled, Making

\* A run fails, with or without its trap.
LEMMA DieInv ==
    ASSUME ReleaseInv, NEW m \in Maintainers, Die(m) \/ Killed(m)
    PROVE  ReleaseInv'
<1>1. VariableTypes /\ HistorySeen(m)
  BY Types DEF ReleaseInv
<1>2. job' = [job EXCEPT ![m] = NoJob] /\ UNCHANGED <<remote, head, tags, builds>>
  BY DEF Die, Killed
<1>3. bin' \in [Maintainers -> Files]
  BY <1>1 DEF Die, Killed, VariableTypes, Job
<1>4. HistorySeen(m)'
  BY <1>1, <1>2, NoJobSettled DEF HistorySeen, remote
<1>5. builds' \in 0..MaxBuilds
  BY <1>1, <1>2 DEF VariableTypes
<1>6. QED
  BY <1>2, <1>3, <1>4, <1>5, NoJobSettled, JobStepInv

-----------------------------------------------------------------------------
(* The steps that change what is remote.                                   *)

\* A merge moves main ahead of every tag.
LEMMA MergeInv == ASSUME ReleaseInv, Merge PROVE ReleaseInv'
<1>1. VariableTypes /\ originMain \in Nat
  BY Types DEF ReleaseInv
<1>2. originMain' \in Commits /\ originMain' = originMain + 1
  BY <1>1, BoundsAssumption DEF Merge, VariableTypes, Commits
<1>3. VariableTypes'
  BY <1>1, <1>2 DEF VariableTypes, Merge
<1>4. RemoteGrows
  BY <1>1, <1>2 DEF RemoteGrows, Merge
<1>5. NoReleaseNoFiles' /\ ReleaseIsOneBuild' /\ RegistryMatchesRelease'
  BY DEF Merge, ReleaseInv, NoReleaseNoFiles, ReleaseIsOneBuild,
         RegistryMatchesRelease
<1>6. VersionsFollowHistory'
  <2>1. ASSUME NEW v \in Versions, originTags[v] # NoTag
        PROVE  originTags[v].commit \in Nat
    BY <1>1, <2>1, BoundsAssumption DEF VariableTypes, Tag, Commits
  <2>2. QED
    BY <1>1, <1>2, <2>1 DEF Merge, ReleaseInv, VersionsFollowHistory
<1>7. ASSUME NEW o \in Maintainers PROVE CheckoutGrows(o)
  <2>1. head[o] \in Nat /\ head[o] <= originMain
    BY <1>1, BoundsAssumption DEF ReleaseInv, HistorySeen, VariableTypes, Commits
  <2>2. QED
    BY <1>1, <1>2, <2>1 DEF CheckoutGrows, Merge
<1>8. QED
  BY <1>3, <1>4, <1>5, <1>6, <1>7, RemoteStepInv DEF Merge

\* Steps that leave main and the checkouts alone.
LEMMA CheckoutsStay ==
    ASSUME ReleaseInv, UNCHANGED <<originMain, head, tags>>,
           NEW o \in Maintainers
    PROVE  CheckoutGrows(o)
  BY DEF CheckoutGrows, ReleaseInv, HistorySeen

\* The workflow publishes what the release holds.
LEMMA WorkflowInv ==
    ASSUME ReleaseInv, NEW v \in Versions, Workflow(v)
    PROVE  ReleaseInv'
<1>1. VariableTypes /\ originMain \in Nat
  BY Types DEF ReleaseInv
<1>2. releases[v].assets \in Files
  BY <1>1 DEF VariableTypes, ReleaseRecord
<1>3. releases[v].assets["manifest"] \in Build \cup {NoBuild}
  BY <1>2, BoundsAssumption DEF Files
<1>4. VariableTypes'
  BY <1>1, <1>3 DEF VariableTypes, Workflow
<1>5. RemoteGrows
  BY <1>1 DEF RemoteGrows, Workflow
<1>6. NoReleaseNoFiles' /\ ReleaseIsOneBuild' /\ VersionsFollowHistory'
  BY DEF Workflow, ReleaseInv, NoReleaseNoFiles, ReleaseIsOneBuild,
         VersionsFollowHistory
<1>7. RegistryMatchesRelease'
  BY <1>1 DEF Workflow, ReleaseInv, RegistryMatchesRelease, VariableTypes
<1>8. QED
  BY <1>4, <1>5, <1>6, <1>7, CheckoutsStay, RemoteStepInv DEF Workflow

\* Nothing but what is missing is added to a release.
FilesGrow(v) ==
    /\ releases[v].exists => /\ releases'[v].exists
                             /\ releases'[v].build = releases[v].build
    /\ \A a \in Assets : releases[v].assets[a] # NoBuild =>
           releases'[v].assets[a] = releases[v].assets[a]
    /\ ~releases'[v].exists => releases'[v].assets = NoFiles
    /\ releases'[v].exists =>
        /\ originTags[v] # NoTag
        /\ releases'[v].build.version = v
        /\ releases'[v].build.commit = originTags[v].commit
        /\ \A a \in Assets :
               releases'[v].assets[a] \in {NoBuild, releases'[v].build}

\* For a step that changes releases only in this way.
LEMMA ReleaseStepInv ==
    ASSUME ReleaseInv, releases' \in [Versions -> ReleaseRecord],
           job' \in [Maintainers -> Job],
           UNCHANGED <<originMain, originTags, registry, head, tags, bin, builds>>,
           \A v \in Versions : releases'[v] = releases[v] \/ FilesGrow(v),
           \A o \in Maintainers : job'[o] = job[o] \/ Settled(o)'
    PROVE  ReleaseInv'
<1>1. VariableTypes /\ originMain \in Nat
  BY Types DEF ReleaseInv
<1>2. VariableTypes'
  BY <1>1 DEF VariableTypes
<1>3. \A v \in Versions : FilesGrow(v)
  BY DEF FilesGrow, ReleaseInv, NoReleaseNoFiles, ReleaseIsOneBuild
<1>4. RemoteGrows
  BY <1>1, <1>3 DEF RemoteGrows, FilesGrow
<1>5. NoReleaseNoFiles' /\ ReleaseIsOneBuild'
  BY <1>3 DEF FilesGrow, NoReleaseNoFiles, ReleaseIsOneBuild
<1>6. RegistryMatchesRelease'
  BY <1>3, BoundsAssumption DEF FilesGrow, ReleaseInv, RegistryMatchesRelease
<1>7. VersionsFollowHistory'
  BY DEF ReleaseInv, VersionsFollowHistory
<1>8. QED
  BY <1>2, <1>4, <1>5, <1>6, <1>7, CheckoutsStay, RemoteStepInv

\* A repair adds files of the build of the release.
LEMMA RepairInv ==
    ASSUME ReleaseInv, NEW m \in Maintainers, NEW v \in Versions, Repair(m, v)
    PROVE  ReleaseInv'
<1>1. VariableTypes /\ bin[m] \in Files /\ releases[v] \in ReleaseRecord
  BY Types DEF ReleaseInv, VariableTypes
<1>2. /\ releases' \in [Versions -> ReleaseRecord]
      /\ releases'[v].exists = releases[v].exists
      /\ releases'[v].build = releases[v].build
      /\ releases'[v].assets = bin[m]
      /\ \A w \in Versions \ {v} : releases'[w] = releases[w]
  BY <1>1 DEF Repair, VariableTypes, ReleaseRecord
<1>3. FilesGrow(v)
  BY <1>1, <1>2 DEF Repair, FilesGrow, ReleaseInv, ReleaseIsOneBuild
<1>4. QED
  BY <1>1, <1>2, <1>3, ReleaseStepInv DEF Repair, VariableTypes

\* gh release create: there was no release, so none of its files is lost.
LEMMA CreateReleaseInv ==
    ASSUME ReleaseInv, NEW m \in Maintainers, CreateRelease(m)
    PROVE  ReleaseInv'
<1> DEFINE v == job[m].version
           build == job[m].art["binary"]
<1>1. VariableTypes /\ job[m] \in Job /\ job[m].pc = "create" /\ SourceSettled(m)
      /\ TagSettled(m) /\ FilesSettled(m) /\ HistorySeen(m)
  BY Types DEF ReleaseInv, VariableTypes, CreateRelease, Goto
<1>2. v \in Versions /\ build \in Build /\ build.version = v
      /\ build.commit = job[m].source /\ originTags[v] # NoTag
      /\ originTags[v].commit = job[m].source
  BY <1>1 DEF SourceSettled, TagSettled, FilesSettled, Making
<1>3. /\ releases' = [releases EXCEPT ![v].exists = TRUE, ![v].build = build]
      /\ releases[v].assets = NoFiles /\ releases[v] \in ReleaseRecord
  BY <1>1, <1>2 DEF CreateRelease, ReleaseInv, NoReleaseNoFiles, VariableTypes
<1> HIDE DEF build
<1>4. /\ releases' \in [Versions -> ReleaseRecord]
      /\ releases'[v].exists
      /\ releases'[v].build = build
      /\ releases'[v].assets = NoFiles
      /\ \A w \in Versions \ {v} : releases'[w] = releases[w]
  BY <1>1, <1>2, <1>3 DEF VariableTypes, ReleaseRecord
<1>5. FilesGrow(v)
  <2>1. \A a \in Assets : NoFiles[a] = NoBuild
    BY DEF NoFiles
  <2>2. ~releases[v].exists
    BY DEF CreateRelease
  <2>3. QED
    BY <1>2, <1>3, <1>4, <2>1, <2>2 DEF FilesGrow
<1>6. /\ job' \in [Maintainers -> Job]
      /\ \A o \in Maintainers \ {m} : job'[o] = job[o]
      /\ job'[m].pc = "upload" /\ job'[m].version = v
      /\ job'[m].art = job[m].art
      /\ job'[m].resume = job[m].resume /\ job'[m].source = job[m].source
  BY <1>1 DEF CreateRelease, Goto, VariableTypes, Job, Steps
<1>7. SourceSettled(m)' /\ TagSettled(m)'
  BY <1>1, <1>2, <1>6 DEF SourceSettled, TagSettled, Making, CreateRelease
<1>8. FilesSettled(m)'
  BY <1>1, <1>4, <1>6 DEF FilesSettled, build
<1>9. HistorySeen(m)'
  BY <1>1, <1>6 DEF HistorySeen, CreateRelease
<1>10. QED
  BY <1>4, <1>5, <1>6, <1>7, <1>8, <1>9, ReleaseStepInv DEF CreateRelease, Settled

\* An upload adds a file of the build of the release.
LEMMA UploadInv ==
    ASSUME ReleaseInv, NEW m \in Maintainers, NEW a \in Assets, Upload(m, a)
    PROVE  ReleaseInv'
<1> DEFINE v == job[m].version
           files == [releases[v].assets EXCEPT ![a] = job[m].art[a]]
<1>1. VariableTypes /\ job[m] \in Job /\ job[m].pc = "upload" /\ SourceSettled(m)
      /\ FilesSettled(m)
  BY Types DEF ReleaseInv, VariableTypes, Upload
<1>2. v \in Versions /\ releases[v].exists
      /\ releases[v].build = job[m].art[a] /\ job[m].art[a] \in Build
  BY <1>1 DEF SourceSettled, FilesSettled, Making
<1>3. releases[v] \in ReleaseRecord /\ releases[v].assets \in Files
  BY <1>1, <1>2 DEF VariableTypes, ReleaseRecord
<1>4. /\ files \in Files /\ files[a] = releases[v].build
      /\ \A b \in Assets \ {a} : files[b] = releases[v].assets[b]
  BY <1>2, <1>3 DEF Files
<1>5. releases' = [releases EXCEPT ![v].assets = files]
  BY <1>1 DEF Upload, VariableTypes
<1> HIDE DEF files
<1>6. /\ releases' \in [Versions -> ReleaseRecord]
      /\ releases'[v].exists
      /\ releases'[v].build = releases[v].build
      /\ releases'[v].assets = files
      /\ \A w \in Versions \ {v} : releases'[w] = releases[w]
  BY <1>1, <1>2, <1>3, <1>4, <1>5 DEF VariableTypes, ReleaseRecord
<1>7. FilesGrow(v)
  BY <1>2, <1>4, <1>6 DEF FilesGrow, ReleaseInv, ReleaseIsOneBuild
<1>8. QED
  BY <1>1, <1>6, <1>7, ReleaseStepInv DEF Upload, VariableTypes

\* What is published is the manifest the release holds.
LEMMA PublishInv ==
    ASSUME ReleaseInv, NEW m \in Maintainers, Publish(m)
    PROVE  ReleaseInv'
<1> DEFINE v == job[m].version
           build == job[m].art["manifest"]
<1>1. VariableTypes /\ originMain \in Nat /\ job[m] \in Job
      /\ job[m].pc = "publish" /\ SourceSettled(m) /\ FilesSettled(m)
      /\ HistorySeen(m)
  BY Types DEF ReleaseInv, VariableTypes, Publish
<1>2. v \in Versions /\ build \in Build \cup {NoBuild} /\ build.version = v
      /\ releases[v].assets["binary"] = build
  BY <1>1, BoundsAssumption DEF SourceSettled, FilesSettled, Job, Files
<1>3. /\ registry' = [registry EXCEPT ![v] = build]
      /\ job' = [job EXCEPT ![m] = NoJob]
  BY DEF Publish
<1> HIDE DEF build
<1>4. VariableTypes'
  BY <1>1, <1>2, <1>3, NoJobSettled DEF VariableTypes, Publish
<1>5. RemoteGrows
  BY <1>1 DEF RemoteGrows, Publish
<1>6. NoReleaseNoFiles' /\ ReleaseIsOneBuild' /\ VersionsFollowHistory'
  BY DEF Publish, ReleaseInv, NoReleaseNoFiles, ReleaseIsOneBuild,
         VersionsFollowHistory
<1>7. RegistryMatchesRelease'
  BY <1>1, <1>2, <1>3 DEF Publish, ReleaseInv, RegistryMatchesRelease, VariableTypes
<1>8. HistorySeen(m)'
  BY <1>1, <1>3, NoJobSettled DEF HistorySeen, Publish
<1>9. ASSUME NEW o \in Maintainers PROVE job'[o] = job[o] \/ Settled(o)'
  BY <1>3, <1>8, NoJobSettled DEF Settled
<1>10. QED
  BY <1>4, <1>5, <1>6, <1>7, <1>9, CheckoutsStay, RemoteStepInv DEF Publish

\* The atomic push: the tag names the head of main, main has not moved since
\* preflight, so every higher version was tagged at this commit too.
LEMMA PushInv ==
    ASSUME ReleaseInv, NEW m \in Maintainers, Push(m)
    PROVE  ReleaseInv'
<1> DEFINE v == job[m].version
           t == tags[m][v]
<1>1. VariableTypes /\ originMain \in Nat /\ job[m] \in Job
      /\ job[m].pc = "push" /\ SourceSettled(m) /\ TagSettled(m)
      /\ FilesSettled(m) /\ HistorySeen(m)
  BY Types DEF ReleaseInv, VariableTypes, Push, Goto
<1>2. v \in Versions /\ t # NoTag /\ t \in Tag /\ ~job[m].resume
  BY <1>1 DEF SourceSettled, TagSettled, Making, VariableTypes
<1>3. /\ t.commit = job[m].source /\ t.commit = originMain
      /\ originTags[v] \in {NoTag, t}
      /\ originTags' = [originTags EXCEPT ![v] = t]
  BY DEF Push
<1> HIDE DEF t
<1>4. /\ originTags' \in [Versions -> Tag \cup {NoTag}]
      /\ originTags'[v] = t
      /\ \A w \in Versions \ {v} : originTags'[w] = originTags[w]
  BY <1>1, <1>2, <1>3 DEF VariableTypes
<1>5. /\ job' \in [Maintainers -> Job]
      /\ \A o \in Maintainers \ {m} : job'[o] = job[o]
      /\ job'[m].pc = "create" /\ job'[m].version = v
      /\ job'[m].art = job[m].art
      /\ job'[m].resume = job[m].resume /\ job'[m].source = job[m].source
  BY <1>1 DEF Push, Goto, VariableTypes, Job, Steps
<1>6. VariableTypes'
  BY <1>1, <1>4, <1>5 DEF VariableTypes, Push
<1>7. RemoteGrows
  BY <1>1, <1>3, <1>4 DEF RemoteGrows, Push
<1>8. NoReleaseNoFiles' /\ ReleaseIsOneBuild' /\ RegistryMatchesRelease'
  BY <1>7 DEF Push, RemoteGrows, ReleaseInv, NoReleaseNoFiles,
              ReleaseIsOneBuild, RegistryMatchesRelease
<1>9. VersionsFollowHistory'
  <2>1. ASSUME NEW u \in Versions, originTags[u] # NoTag
        PROVE  originTags[u].commit \in Nat /\ originTags[u].commit <= originMain
    BY <1>1, <2>1, BoundsAssumption
    DEF VariableTypes, Tag, Commits, ReleaseInv, VersionsFollowHistory
  <2>2. ASSUME NEW u \in Versions, originTags'[u] # NoTag
        PROVE  originTags'[u].commit <= originMain
    BY <1>1, <1>3, <1>4, <2>1, <2>2
  <2>3. ASSUME NEW u \in Versions, originTags'[u] # NoTag,
               NEW w \in 1..u, originTags'[w] # NoTag
        PROVE  originTags'[w].commit <= originTags'[u].commit
    <3>1. w \in Versions /\ u \in Nat /\ w \in Nat /\ w <= u
      BY BoundsAssumption DEF Versions
    <3>2. CASE u = v
      BY <1>3, <1>4, <2>2, <2>3, <3>1, <3>2
    <3>3. CASE u # v /\ w = v
      <4>1. u > v /\ originTags'[u] = originTags[u]
        BY <1>2, <1>4, <3>1, <3>3
      <4>2. job[m].source <= originTags[u].commit
        BY <1>1, <1>2, <2>3, <4>1 DEF HistorySeen
      <4>3. QED
        BY <1>3, <1>4, <3>3, <4>1, <4>2
    <3>4. CASE u # v /\ w # v
      BY <1>4, <2>3, <3>1, <3>4 DEF ReleaseInv, VersionsFollowHistory
    <3>5. QED
      BY <3>2, <3>3, <3>4
  <2>4. QED
    BY <2>2, <2>3 DEF VersionsFollowHistory, Push
<1>10. SourceSettled(m)' /\ TagSettled(m)'
  BY <1>1, <1>2, <1>3, <1>4, <1>5 DEF SourceSettled, TagSettled, Making
<1>11. FilesSettled(m)'
  BY <1>1, <1>5 DEF FilesSettled
<1>12. HistorySeen(m)'
  BY <1>1, <1>5 DEF HistorySeen, Push
<1>13. ASSUME NEW o \in Maintainers PROVE job'[o] = job[o] \/ Settled(o)'
  BY <1>5, <1>10, <1>11, <1>12 DEF Settled
<1>14. QED
  BY <1>6, <1>7, <1>8, <1>9, <1>13, CheckoutsStay, RemoteStepInv DEF Push

-----------------------------------------------------------------------------
\* Every step preserves the inductive invariant.
LEMMA NextReleaseInv == ReleaseInv /\ [Next]_vars => ReleaseInv'
<1> SUFFICES ASSUME ReleaseInv, [Next]_vars PROVE ReleaseInv'
  OBVIOUS
<1>1. CASE UNCHANGED vars
  BY <1>1
  DEF vars, ReleaseInv, TypeOK, NoReleaseNoFiles, ReleaseIsOneBuild,
      RegistryMatchesRelease, VersionsFollowHistory, SourceSettled, TagSettled,
      FilesSettled, HistorySeen
<1>2. CASE Merge
  BY <1>2, MergeInv
<1>3. CASE \E v \in Versions : Workflow(v)
  BY <1>3, WorkflowInv
<1>4. ASSUME NEW m \in Maintainers, Pull(m) PROVE ReleaseInv'
  BY <1>4, PullInv
<1>5. ASSUME NEW m \in Maintainers, NEW v \in Versions, Repair(m, v)
      PROVE  ReleaseInv'
  BY <1>5, RepairInv
<1>6. ASSUME NEW m \in Maintainers, Run(m) PROVE ReleaseInv'
  BY <1>6, PreflightInv, ListReleasesInv, ResolveNewInv, ResolveResumeInv,
     TagSourceInv, BuildTaggedInv, SignAndRetainInv, PushInv, CreateReleaseInv,
     UploadInv, UploadedInv, DownloadInv, PublishInv, DieInv, Zenon
  DEF Run
<1>7. QED
  BY <1>1, <1>2, <1>3, <1>4, <1>5, <1>6 DEF Next

\* The inductive invariant holds throughout.
THEOREM ReleaseInvariant == Spec => []ReleaseInv
  BY InitReleaseInv, NextReleaseInv, PTL DEF Spec

\* The state of the script and of what it works on is well formed.
THEOREM ReleaseTypeCorrect == Spec => []TypeOK
<1>1. ReleaseInv => TypeOK
  BY DEF ReleaseInv
<1>2. QED
  BY <1>1, ReleaseInvariant, PTL

\* "Never rebuild published assets": all assets of a release are of one build of
\* the commit its tag names, however runs fail, repeat, resume and interleave.
THEOREM OneBuildPerRelease == Spec => []ReleaseIsOneBuild
<1>1. ReleaseInv => ReleaseIsOneBuild
  BY DEF ReleaseInv
<1>2. QED
  BY <1>1, ReleaseInvariant, PTL

\* The registry names a version only with the binary its release holds.
THEOREM RegistryNamesRelease == Spec => []RegistryMatchesRelease
<1>1. ReleaseInv => RegistryMatchesRelease
  BY DEF ReleaseInv
<1>2. QED
  BY <1>1, ReleaseInvariant, PTL

\* A higher version never names an earlier commit, without any lock between
\* the maintainers.
THEOREM HistoryIsFollowed == Spec => []VersionsFollowHistory
<1>1. ReleaseInv => VersionsFollowHistory
  BY DEF ReleaseInv
<1>2. QED
  BY <1>1, ReleaseInvariant, PTL

\* What one step may do to what is published.
Final(v) ==
    /\ originTags[v] # NoTag => originTags'[v] = originTags[v]
    /\ releases[v].exists => releases'[v].exists
    /\ \A a \in Assets : releases[v].assets[a] # NoBuild =>
           releases'[v].assets[a] = releases[v].assets[a]
    /\ registry[v] # NoBuild => registry'[v] = registry[v]

\* No step takes back or replaces a tag, an asset or a registry entry.
LEMMA NextIsFinal ==
    ASSUME ReleaseInv, [Next]_vars, NEW v \in Versions
    PROVE  Final(v)
<1>1. VariableTypes
  BY Types DEF ReleaseInv
<1>2. CASE UNCHANGED <<originTags, releases, registry>>
  BY <1>2 DEF Final
<1>3. ASSUME NEW w \in Versions, Workflow(w) PROVE Final(v)
  BY <1>1, <1>3 DEF Workflow, Final, VariableTypes
<1>4. ASSUME NEW m \in Maintainers, Push(m) PROVE Final(v)
  BY <1>1, <1>4 DEF Push, Final, VariableTypes
<1>5. ASSUME NEW m \in Maintainers, Publish(m) PROVE Final(v)
  BY <1>1, <1>5 DEF Publish, Final, VariableTypes
<1>6. ASSUME NEW m \in Maintainers, NEW w \in Versions, Repair(m, w)
      PROVE  Final(v)
  <2>1. \A a \in Assets : releases[w].assets[a] \in {NoBuild, bin[m][a]}
    BY <1>6 DEF Repair, ReleaseInv, ReleaseIsOneBuild
  <2>2. CASE v = w
    <3>1. releases'[v].assets = bin[m] /\ releases'[v].exists
      BY <1>1, <1>6, <2>2 DEF Repair, VariableTypes, ReleaseRecord
    <3>2. QED
      BY <1>6, <2>1, <2>2, <3>1 DEF Repair, Final
  <2>3. CASE v # w
    BY <1>1, <1>6, <2>3 DEF Repair, Final, VariableTypes
  <2>4. QED
    BY <2>2, <2>3
<1>7. ASSUME NEW m \in Maintainers, CreateRelease(m) PROVE Final(v)
  BY <1>1, <1>7 DEF CreateRelease, Final, VariableTypes, ReleaseRecord
<1>8. ASSUME NEW m \in Maintainers, NEW a \in Assets, Upload(m, a)
      PROVE  Final(v)
  <2> DEFINE w == job[m].version
  <2>1. job[m].pc = "upload" /\ SourceSettled(m) /\ FilesSettled(m)
    BY <1>8 DEF Upload, ReleaseInv
  <2>2. w \in Versions /\ releases[w].exists /\ releases[w].build = job[m].art[a]
    BY <2>1 DEF SourceSettled, FilesSettled, Making
  <2>3. releases[w].assets[a] = NoBuild
    BY <1>8, <2>2 DEF Upload, ReleaseInv, ReleaseIsOneBuild
  <2>4. QED
    BY <1>1, <1>8, <2>2, <2>3 DEF Upload, Final, VariableTypes, ReleaseRecord, Files
<1>9. QED
  BY <1>2, <1>3, <1>4, <1>5, <1>6, <1>7, <1>8
  DEF Next, Run, vars, remote, Merge, Pull, Preflight, ListReleases, ResolveNew,
      ResolveResume, TagSource, BuildTagged, SignAndRetain, Uploaded, Download,
      Die, Killed

\* "Existing tags are never moved ... this script never replaces release assets
\* or deletes a release": for any number of maintainers, with any failures.
THEOREM NothingIsReplaced == Spec => PublishedIsFinal
<1>1. ReleaseInv /\ [Next]_vars => [\A v \in Versions : Final(v)]_vars
  BY NextIsFinal
<1>2. QED
  BY <1>1, ReleaseInvariant, PTL DEF Spec, PublishedIsFinal, Final

=============================================================================
