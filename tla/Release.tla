------------------------------ MODULE Release ------------------------------
(***************************************************************************)
(* The release procedure (scripts/release.sh): maintainers run the script, *)
(* each in a checkout of his own, against one origin, one set of GitHub    *)
(* releases and one registry.  A run may fail or be killed between any two *)
(* of its steps, and is then repeated or resumed with --resume-publish.    *)
(*                                                                         *)
(* History on main is linear, so a commit is its number, and a version is  *)
(* its rank.  A build stands for the bytes that one run of the script      *)
(* made: no two runs make the same.  The primary and the static binary are *)
(* treated alike by the script and are one asset here; the asset "bundle"  *)
(* is valid for the build it was made for, and the asset "manifest" names  *)
(* the build it hashed.                                                    *)
(***************************************************************************)
EXTENDS Naturals

CONSTANTS
    Maintainers,
    Assets,       \* the files of a release
    MaxVersion,   \* versions are 1..MaxVersion
    MaxCommit,    \* bound on the commits pushed to main
    MaxBuilds,    \* bound on the builds that are made
    NoBuild,      \* no such file
    NoTag         \* no such tag

ASSUME BoundsAssumption ==
    /\ MaxVersion \in Nat \ {0} /\ MaxCommit \in Nat \ {0}
    /\ MaxBuilds \in Nat \ {0}
    /\ {"binary", "manifest"} \subseteq Assets

Versions == 1..MaxVersion

Commits == 1..MaxCommit

Build == [n : 1..MaxBuilds, version : Versions, commit : Commits]

\* An annotated tag is an object of whoever made it: two of them differ even
\* when they name the same commit.
Tag == [commit : Commits, by : Maintainers]

ASSUME NothingAssumption == NoBuild \notin Build /\ NoTag \notin Tag

VARIABLES
    originMain,   \* refs/heads/main of origin
    originTags,   \* originTags[v]: refs/tags/v of origin
    releases,     \* releases[v]: whether there is one, its build, its assets
    registry,     \* registry[v]: the build the published manifest names
    head,         \* head[m]: HEAD of the checkout of m
    tags,         \* tags[m][v]: refs/tags/v in the checkout of m
    bin,          \* bin[m]: the artifacts retained in bin/
    builds,       \* how many builds have been made
    job           \* job[m]: the run of the script in progress

remote == <<originMain, originTags, releases, registry>>

vars == <<originMain, originTags, releases, registry, head, tags, bin, builds,
          job>>

NoFiles == [a \in Assets |-> NoBuild]

NoRelease == [exists |-> FALSE, build |-> NoBuild, assets |-> NoFiles]

NoJob == [pc |-> "idle", resume |-> FALSE, version |-> 0, source |-> 0,
          seen |-> {}, art |-> NoFiles]

Init ==
    /\ originMain = 1 /\ originTags = [v \in Versions |-> NoTag]
    /\ releases = [v \in Versions |-> NoRelease]
    /\ registry = [v \in Versions |-> NoBuild]
    /\ head = [m \in Maintainers |-> 1]
    /\ tags = [m \in Maintainers |-> originTags]
    /\ bin = [m \in Maintainers |-> NoFiles]
    /\ builds = 0
    /\ job = [m \in Maintainers |-> NoJob]

-----------------------------------------------------------------------------
(* The surroundings of the script.                                         *)

\* A change is merged on GitHub.
Merge ==
    /\ originMain < MaxCommit
    /\ originMain' = originMain + 1
    /\ UNCHANGED <<originTags, releases, registry, head, tags, bin, builds, job>>

\* The tags of a checkout after a fetch: those it has are left alone.
Fetched(m) == [v \in Versions |->
                  IF tags[m][v] = NoTag THEN originTags[v] ELSE tags[m][v]]

\* git pull, in a second terminal if a run is in progress.
Pull(m) ==
    /\ head' = [head EXCEPT ![m] = originMain]
    /\ tags' = [tags EXCEPT ![m] = Fetched(m)]
    /\ UNCHANGED <<remote, bin, builds, job>>

\* "Partial uploads must be repaired explicitly": whoever still holds the
\* retained artifacts of the run that made the release adds what is missing.
Repair(m, v) ==
    /\ releases[v].exists
    /\ \A a \in Assets : bin[m][a] = releases[v].build
    /\ releases' = [releases EXCEPT ![v].assets = bin[m]]
    /\ UNCHANGED <<originMain, originTags, registry, head, tags, bin, builds,
                   job>>

\* The manual workflow publishes the manifest of a release that has both its
\* files; the registry takes a version once.
Workflow(v) ==
    /\ originTags[v] # NoTag
    /\ LET files == releases[v].assets
       IN /\ files["binary"] # NoBuild
          /\ files["manifest"] = files["binary"]
          /\ files["manifest"].version = v
          /\ registry[v] = NoBuild
          /\ registry' = [registry EXCEPT ![v] = files["manifest"]]
    /\ UNCHANGED <<originMain, originTags, releases, head, tags, bin, builds,
                   job>>

-----------------------------------------------------------------------------
(* A run of the script.                                                    *)

\* The step at pc of the run of m is done, and next follows.
Goto(m, pc, next) ==
    /\ job[m].pc = pc
    /\ job' = [job EXCEPT ![m].pc = next]

\* preflight up to git fetch, which fails if it would clobber a local tag.
Preflight(m, resume) ==
    /\ job[m].pc = "idle"
    /\ \A v \in Versions : originTags[v] # NoTag =>
           tags[m][v] \in {NoTag, originTags[v]}
    /\ resume \/ head[m] = originMain
    /\ tags' = [tags EXCEPT ![m] = Fetched(m)]
    /\ job' = [job EXCEPT ![m] = [NoJob EXCEPT !.pc = "list",
                                               !.resume = resume,
                                               !.source = head[m]]]
    /\ UNCHANGED <<remote, head, bin, builds>>

\* RELEASE_TAGS: the releases there are now.
ListReleases(m) ==
    /\ job[m].pc = "list"
    /\ job' = [job EXCEPT ![m].pc = "resolve",
                          ![m].seen = {v \in Versions : releases[v].exists}]
    /\ UNCHANGED <<remote, head, tags, bin, builds>>

\* Mutant of NotOlder: an older version is let through.
AnyVersion(m, v) == TRUE

NotOlder(m, v) == \A w \in Versions : tags[m][w] # NoTag => w <= v

\* resolve_version, after the prompt.  RELEASE_TAGS is not used again.
ResolveNew(m, v) ==
    /\ job[m].pc = "resolve" /\ ~job[m].resume
    /\ v \notin job[m].seen
    /\ tags[m][v] # NoTag => tags[m][v].commit = job[m].source
    /\ NotOlder(m, v)
    /\ job' = [job EXCEPT ![m].pc = "test", ![m].version = v,
                          ![m].seen = {}]
    /\ UNCHANGED <<remote, head, tags, bin, builds>>

ResolveResume(m, v) ==
    /\ job[m].pc = "resolve" /\ job[m].resume
    /\ v \in job[m].seen
    /\ tags[m][v] # NoTag
    /\ job' = [job EXCEPT ![m].pc = "download", ![m].version = v,
                          ![m].seen = {},
                          ![m].source = tags[m][v].commit]
    /\ UNCHANGED <<remote, head, tags, bin, builds>>

\* make test has passed and HEAD is where it was: the source is tagged, or a tag
\* that exists by now is taken as it is.
TagSource(m) ==
    /\ Goto(m, "test", "build")
    /\ head[m] = job[m].source
    /\ LET v == job[m].version
       IN tags' = IF tags[m][v] # NoTag THEN tags
                  ELSE [tags EXCEPT ![m][v] = [commit |-> job[m].source,
                                               by |-> m]]
    /\ UNCHANGED <<remote, head, bin, builds>>

\* The worktree is the tagged commit; verify_binaries holds vcs.revision
\* against SOURCE_COMMIT.
BuildTagged(m) ==
    /\ job[m].pc = "build" /\ builds < MaxBuilds
    /\ builds' = builds + 1
    /\ LET v == job[m].version
           built == [n |-> builds + 1, version |-> v,
                     commit |-> tags[m][v].commit]
       IN /\ built.commit = job[m].source
          /\ job' = [job EXCEPT ![m].pc = "sign", ![m].art["binary"] = built]
    /\ UNCHANGED <<remote, head, tags, bin>>

\* sign, update_server_json and retain_artifacts work on files only this run
\* sees: the binary gets its bundle and its manifest, and bin/ all of them.
SignAndRetain(m) ==
    /\ job[m].pc = "sign"
    /\ LET files == [a \in Assets |-> job[m].art["binary"]]
       IN /\ job' = [job EXCEPT ![m].pc = "push", ![m].art = files]
          /\ bin' = [bin EXCEPT ![m] = files]
    /\ UNCHANGED <<remote, head, tags, builds>>

\* Mutant of Push: the tag is forced.
PushForced(m) ==
    /\ Goto(m, "push", "create")
    /\ head[m] = job[m].source /\ originMain = head[m]
    /\ LET v == job[m].version
       IN /\ tags[m][v].commit = job[m].source
          /\ originTags' = [originTags EXCEPT ![v] = tags[m][v]]
    /\ UNCHANGED <<originMain, releases, registry, head, tags, bin, builds>>

\* git push --atomic: both refs or none.  HEAD is not behind main, since that
\* would not be a fast-forward, and a tag of origin is never replaced.
Push(m) ==
    /\ Goto(m, "push", "create")
    /\ head[m] = job[m].source /\ originMain = head[m]
    /\ LET v == job[m].version
       IN /\ tags[m][v].commit = job[m].source
          /\ originTags[v] \in {NoTag, tags[m][v]}
          /\ originTags' = [originTags EXCEPT ![v] = tags[m][v]]
    /\ UNCHANGED <<originMain, releases, registry, head, tags, bin, builds>>

\* Mutant of CreateRelease: a release that exists is uploaded to.
CreateOrReuse(m) ==
    /\ Goto(m, "create", "upload")
    /\ originTags[job[m].version] # NoTag
    /\ releases' = [releases EXCEPT ![job[m].version].exists = TRUE,
                        ![job[m].version].build = job[m].art["binary"]]
    /\ UNCHANGED <<originMain, originTags, registry, head, tags, bin, builds>>

\* gh release create --verify-tag makes the release, if there is none ...
CreateRelease(m) ==
    /\ Goto(m, "create", "upload")
    /\ originTags[job[m].version] # NoTag
    /\ ~releases[job[m].version].exists
    /\ releases' = [releases EXCEPT ![job[m].version].exists = TRUE,
                        ![job[m].version].build = job[m].art["binary"]]
    /\ UNCHANGED <<originMain, originTags, registry, head, tags, bin, builds>>

\* ... and uploads the assets, in any order.
Upload(m, a) ==
    /\ job[m].pc = "upload"
    /\ releases[job[m].version].assets[a] # job[m].art[a]
    /\ releases' = [releases EXCEPT ![job[m].version].assets[a] = job[m].art[a]]
    /\ UNCHANGED <<originMain, originTags, registry, head, tags, bin, builds,
                   job>>

Uploaded(m) ==
    /\ Goto(m, "upload", "download")
    /\ releases[job[m].version].assets = job[m].art
    /\ UNCHANGED <<remote, head, tags, bin, builds>>

\* Mutant of Intact: a resumed run only needs the manifest.
IntactManifestOnly(m, files) ==
    /\ files["manifest"] # NoBuild
    /\ ~job[m].resume => files = job[m].art

\* What download_release asks of the files it got.
Intact(m, files) ==
    /\ \A a \in Assets : files[a] # NoBuild
    /\ ~job[m].resume => files = job[m].art
    /\ files["manifest"] = files["binary"]
    /\ files["manifest"].version = job[m].version
    /\ job[m].resume => /\ \A a \in Assets : files[a] = files["binary"]
                        /\ files["binary"].commit = job[m].source
                        /\ files["binary"].version = job[m].version

\* Mutant of Download: ARTIFACT_DIR is not set to the downloaded files.
DownloadKeepsDir(m) ==
    /\ job[m].pc = "download"
    /\ Intact(m, releases[job[m].version].assets)
    /\ bin' = [bin EXCEPT ![m] = job[m].art]
    /\ job' = [job EXCEPT ![m].pc = "publish"]
    /\ UNCHANGED <<remote, head, tags, builds>>

\* download_release, which retains the files in bin/ as well.
Download(m) ==
    /\ job[m].pc = "download"
    /\ LET files == releases[job[m].version].assets
       IN /\ Intact(m, files)
          /\ bin' = [bin EXCEPT ![m] = files]
          /\ job' = [job EXCEPT ![m].pc = "publish", ![m].art = files]
    /\ UNCHANGED <<remote, head, tags, builds>>

\* The registry refuses a version it has.
Publish(m) ==
    /\ job[m].pc = "publish"
    /\ registry[job[m].version] = NoBuild
    /\ registry' = [registry EXCEPT ![job[m].version] = job[m].art["manifest"]]
    /\ job' = [job EXCEPT ![m] = NoJob]
    /\ UNCHANGED <<originMain, originTags, releases, head, tags, bin, builds>>

\* A check or a command fails, or the maintainer interrupts the script: the
\* EXIT trap retains the artifacts once there is a manifest.
Die(m) ==
    /\ job[m].pc # "idle"
    /\ bin' = IF job[m].art["manifest"] = NoBuild THEN bin
              ELSE [bin EXCEPT ![m] = job[m].art]
    /\ job' = [job EXCEPT ![m] = NoJob]
    /\ UNCHANGED <<remote, head, tags, builds>>

\* The machine goes down: no trap runs.
Killed(m) ==
    /\ job[m].pc # "idle"
    /\ job' = [job EXCEPT ![m] = NoJob]
    /\ UNCHANGED <<remote, head, tags, bin, builds>>

Run(m) ==
    \/ \E resume \in BOOLEAN : Preflight(m, resume)
    \/ ListReleases(m)
    \/ \E v \in Versions : ResolveNew(m, v) \/ ResolveResume(m, v)
    \/ TagSource(m) \/ BuildTagged(m)
    \/ SignAndRetain(m) \/ Push(m) \/ CreateRelease(m)
    \/ \E a \in Assets : Upload(m, a)
    \/ Uploaded(m) \/ Download(m) \/ Publish(m) \/ Die(m) \/ Killed(m)

Next ==
    \/ Merge
    \/ \E v \in Versions : Workflow(v)
    \/ \E m \in Maintainers :
        Pull(m) \/ Run(m) \/ \E v \in Versions : Repair(m, v)

Spec == Init /\ [][Next]_vars

-----------------------------------------------------------------------------
Files == [Assets -> Build \cup {NoBuild}]

Steps == {"idle", "list", "resolve", "test", "build", "sign",
          "push", "create", "upload", "download",
          "publish"}

TypeOK ==
    /\ originMain \in Commits
    /\ originTags \in [Versions -> Tag \cup {NoTag}]
    /\ releases \in [Versions -> [exists : BOOLEAN,
                                  build : Build \cup {NoBuild},
                                  assets : Files]]
    /\ registry \in [Versions -> Build \cup {NoBuild}]
    /\ head \in [Maintainers -> Commits]
    /\ tags \in [Maintainers -> [Versions -> Tag \cup {NoTag}]]
    /\ bin \in [Maintainers -> Files]
    /\ builds \in 0..MaxBuilds
    /\ job \in [Maintainers ->
                   [pc : Steps, resume : BOOLEAN, version : 0..MaxVersion,
                    source : 0..MaxCommit, seen : SUBSET Versions, art : Files]]
    /\ \A m \in Maintainers :
        job[m].pc \in {"sign", "push", "create", "upload", "publish"} =>
            /\ job[m].version \in Versions /\ job[m].source \in Commits
            /\ job[m].art["binary"] \in Build

\* However often a release is interrupted, repeated and repaired, and whoever
\* joins in, all of its assets come from one build, and that was made from the
\* commit its tag names on origin ("never rebuild published assets").
ReleaseIsOneBuild ==
    \A v \in Versions : releases[v].exists =>
        /\ originTags[v] # NoTag
        /\ releases[v].build.version = v
        /\ releases[v].build.commit = originTags[v].commit
        /\ \A a \in Assets :
               releases[v].assets[a] \in {NoBuild, releases[v].build}

\* The registry names a version only when its release is there, with the binary
\* the published manifest was hashed from, whether the manifest came from the
\* run that made the release, from --resume-publish or from the workflow.
RegistryMatchesRelease ==
    \A v \in Versions : registry[v] # NoBuild =>
        /\ releases[v].assets["binary"] = registry[v]
        /\ registry[v].version = v

\* Versions follow history: a higher version never names an earlier commit, and
\* every released commit is on main.  No lock protects this, only the fetch in
\* preflight and the atomic push.
VersionsFollowHistory ==
    \A v \in Versions : originTags[v] # NoTag =>
        /\ originTags[v].commit <= originMain
        /\ \A w \in 1..v : originTags[w] # NoTag =>
               originTags[w].commit <= originTags[v].commit

\* "Existing tags are never moved ... this script never replaces release assets
\* or deletes a release" (usage text of release.sh).
PublishedIsFinal ==
    [][\A v \in Versions :
        /\ originTags[v] # NoTag => originTags'[v] = originTags[v]
        /\ releases[v].exists => releases'[v].exists
        /\ \A a \in Assets : releases[v].assets[a] # NoBuild =>
               releases'[v].assets[a] = releases[v].assets[a]
        /\ registry[v] # NoBuild => registry'[v] = registry[v]]_vars
=============================================================================
