---------------------------- MODULE DockerTools ----------------------------
(***************************************************************************)
(* The Docker tools besides the statistics (tools/docker.go): each opens a *)
(* client with withDockerClient, asks the daemon one thing, reads a stream *)
(* in the case of the logs, copies what it may show and closes the client  *)
(* on every path.  get_docker_info does so twice, for the containers and   *)
(* for the images.                                                         *)
(*                                                                         *)
(* What the daemon tells of an object is a set of facts, each a field and  *)
(* a value.  The daemon may be gone, and the deadline may pass, at any     *)
(* step.                                                                   *)
(***************************************************************************)
EXTENDS Naturals, Sequences, TLC

CONSTANTS
    Values,     \* what a field may hold
    LogLines,   \* the most lines of a log
    TailArgs,   \* the values of tail
    TailDefault, TailMost   \* 100 and 10000 in the code

Redacted == "***"
NoId == "no id"

\* Two facts of the environment: one is NAME=value, one has no equals sign.
EnvField == "env"
BareEnv == "env without ="

CommandFields == {"path", "args", "entrypoint", "cmd", "created_by", "command"}

\* The fields of the objects the daemon tells of.
ContainerFields == {"id", "name", "image", "created", "state", "mounts",
                    "network", "ports", "path", "args", EnvField, BareEnv}
ProcessFields == {"pid", "ppid", "user", "stat", "comm", "command"}
ImageFields == {"id", "repo_tags", "repo_digests", "created", "author",
                "architecture", "os", "size", "entrypoint", "cmd", EnvField,
                BareEnv, "working_dir", "labels", "layers"}
LayerFields == {"id", "created", "created_by", "size", "tags", "comment"}

VARIABLES
    dtool,      \* the tool that is called, "none" between calls
    dpc,        \* "idle", "dial", "ask", "stream", "dial again", "ask again", "done"
    clients,    \* how many clients are open
    streams,    \* how many response bodies are open
    gone,       \* whether the daemon is gone or the deadline has passed
    logTail,    \* the lines that are still to come in the log stream
    dout        \* the facts of the answer, or the error

dvars == <<dtool, dpc, clients, streams, gone, logTail, dout>>

Failure == {[field |-> "error", value |-> "error"]}

DInit ==
    /\ dtool = "none" /\ dpc = "idle" /\ clients = 0 /\ streams = 0
    /\ gone = FALSE /\ logTail = 0 /\ dout = {}

-----------------------------------------------------------------------------
(* What an answer keeps of what the daemon says.                           *)

Kept(facts, fields) == {f \in facts : f.field \in fields}

Masked(facts, fields) == {[f EXCEPT !.value = Redacted] : f \in Kept(facts, fields)}

\* The value after the first equals sign goes, and so does an entry without.
redactSensitiveEnv(facts) == Masked(facts, {EnvField, BareEnv})

\* Mutant of GatherContainerDetail: the environment is copied as it is.
DetailWithEnv(facts) ==
    Kept(facts, ContainerFields \ CommandFields) \cup Masked(facts, {"path"})

GatherContainerDetail(facts) ==
    Kept(facts, ContainerFields \ (CommandFields \cup {EnvField, BareEnv}))
    \cup redactSensitiveEnv(facts) \cup Masked(facts, {"path"})

\* The columns are fixed, whatever args says.
GatherContainerTop(facts) == Kept(facts, {"pid", "ppid", "user", "stat", "comm"})

GatherContainerDiff(facts) == Kept(facts, {"kind", "path_changed"})

GatherImageHistory(facts) ==
    Kept(facts, LayerFields \ {"created_by"}) \cup Masked(facts, {"created_by"})

GatherImageDetail(facts) ==
    Kept(facts, ImageFields \ {EnvField, BareEnv, "entrypoint", "cmd"})
    \cup redactSensitiveEnv(facts)

GatherDockerNetworks(facts) == Kept(facts, {"id", "name", "driver", "labels"})

GatherDockerVolumes(facts) == Kept(facts, {"name", "driver", "size", "labels"})

GatherDockerSystemInfo(facts) == Kept(facts, {"id", "server_version", "runtimes"})

GatherDockerDiskUsage(facts) == Kept(facts, {"total_size", "reclaimable"})

ListDockerContainers(facts) == Kept(facts, {"id", "name", "image", "status"})

ListDockerImages(facts) == Kept(facts, {"repository", "tag", "id", "size"})

\* The tools that need an id, the fields of what they ask about, the answer.
WithId == {"details", "logs", "top", "diff", "history", "image"}

Tool == WithId \cup {"info", "networks", "volumes", "system_info", "disk_usage"}

FieldsOf(t) == CASE t = "details" -> ContainerFields
                 [] t = "top" -> ProcessFields
                 [] t = "diff" -> {"kind", "path_changed"}
                 [] t = "history" -> LayerFields
                 [] t = "image" -> ImageFields
                 [] t = "networks" -> {"id", "name", "driver", "labels"}
                 [] t = "volumes" -> {"name", "driver", "size", "labels"}
                 [] t = "system_info" -> {"id", "server_version", "runtimes"}
                 [] t = "disk_usage" -> {"total_size", "reclaimable"}
                 [] t = "info" -> {"id", "name", "image", "status", "command",
                                   "labels", "repository", "tag", "size"}

AnswerOf(t, facts) == CASE t = "details" -> GatherContainerDetail(facts)
                        [] t = "top" -> GatherContainerTop(facts)
                        [] t = "diff" -> GatherContainerDiff(facts)
                        [] t = "history" -> GatherImageHistory(facts)
                        [] t = "image" -> GatherImageDetail(facts)
                        [] t = "networks" -> GatherDockerNetworks(facts)
                        [] t = "volumes" -> GatherDockerVolumes(facts)
                        [] t = "system_info" -> GatherDockerSystemInfo(facts)
                        [] t = "disk_usage" -> GatherDockerDiskUsage(facts)

-----------------------------------------------------------------------------
(* A call.                                                                 *)

clampTail(val) ==
    IF val <= 0 THEN TailDefault ELSE IF val > TailMost THEN TailMost ELSE val

\* requireField turns an empty id away before a client is opened.
Handle(t, id, tail) ==
    /\ dpc = "idle" /\ dtool' = t
    /\ IF t \in WithId /\ id = NoId
       THEN dpc' = "done" /\ dout' = Failure
       ELSE dpc' = "dial" /\ dout' = {}
    /\ logTail' = IF t = "logs" THEN clampTail(tail) ELSE 0
    /\ UNCHANGED <<clients, streams, gone>>

DaemonGone ==
    /\ dpc \notin {"idle", "done"} /\ ~gone /\ gone' = TRUE
    /\ UNCHANGED <<dtool, dpc, clients, streams, logTail, dout>>

\* dockersdk.New: an error leaves no client behind.
Dial ==
    /\ dpc \in {"dial", "dial again"}
    /\ \/ /\ ~gone /\ clients' = clients + 1
          /\ dpc' = IF dpc = "dial" THEN "ask" ELSE "ask again"
          /\ UNCHANGED dout
       \/ dpc' = "done" /\ dout' = Failure /\ UNCHANGED clients
    /\ UNCHANGED <<dtool, streams, gone, logTail>>

\* Mutant of withDockerClient: the client is closed after the error check.
ClosedOnSuccess(result, next) ==
    /\ clients' = IF result = Failure THEN clients ELSE clients - 1
    /\ dpc' = next /\ dout' = result

\* fn has returned, and the deferred Close runs.
withDockerClient(result, next) ==
    /\ clients' = clients - 1
    /\ dpc' = next /\ dout' = result

\* The request of fn fails, or the object is not known.
AskFails ==
    /\ dpc \in {"ask", "ask again"}
    /\ withDockerClient(Failure, "done")
    /\ UNCHANGED <<dtool, streams, gone, logTail>>

AskObject(facts) ==
    /\ dpc = "ask" /\ dtool \notin {"logs", "info"} /\ ~gone
    /\ withDockerClient(AnswerOf(dtool, facts), "done")
    /\ UNCHANGED <<dtool, streams, gone, logTail>>

\* Two clients, one after the other; images without containers are no answer.
GatherDockerInfo(facts) ==
    /\ dtool = "info" /\ ~gone
    /\ \/ /\ dpc = "ask"
          /\ withDockerClient(ListDockerContainers(facts), "dial again")
       \/ /\ dpc = "ask again"
          /\ withDockerClient(dout \cup ListDockerImages(facts), "done")
    /\ UNCHANGED <<dtool, streams, gone, logTail>>

OpenLogs ==
    /\ dpc = "ask" /\ dtool = "logs" /\ ~gone
    /\ dpc' = "stream" /\ streams' = streams + 1
    /\ \E n \in 0..LogLines :
        logTail' = IF n < logTail THEN n ELSE logTail   \* the daemon cuts
    /\ UNCHANGED <<dtool, clients, gone, dout>>

\* A line is read, the log ends, or the scanner stops: the stream broke or a
\* line is longer than its buffer, and the lines read are dropped.
GatherContainerLogs ==
    /\ dpc = "stream"
    /\ \/ /\ logTail > 0 /\ ~gone /\ logTail' = logTail - 1
          /\ dout' = dout \cup {[field |-> "line", value |-> logTail]}
          /\ UNCHANGED <<dpc, clients, streams>>
       \/ /\ logTail = 0 /\ streams' = streams - 1
          /\ withDockerClient(dout, "done") /\ UNCHANGED logTail
       \/ /\ streams' = streams - 1
          /\ withDockerClient(Failure, "done") /\ UNCHANGED logTail
    /\ UNCHANGED <<dtool, gone>>

DReturn ==
    /\ dpc = "done" /\ dpc' = "idle" /\ dtool' = "none"
    /\ gone' = FALSE /\ logTail' = 0 /\ dout' = {}
    /\ UNCHANGED <<clients, streams>>

\* What the daemon may tell: an object with its configuration, or without one.
Replies(t) ==
    {{[field |-> f, value |-> v] : f \in FieldsOf(t) \ missing} :
        missing \in {{}, {EnvField, BareEnv, "entrypoint", "cmd", "working_dir",
                          "labels"}}, v \in Values}

DNext ==
    \/ \E t \in Tool, id \in {NoId, "id"}, tail \in TailArgs : Handle(t, id, tail)
    \/ DaemonGone \/ Dial \/ AskFails \/ OpenLogs \/ GatherContainerLogs \/ DReturn
    \/ /\ dtool \notin {"none", "logs"}
       /\ \E facts \in Replies(dtool) : AskObject(facts) \/ GatherDockerInfo(facts)

DSpec == DInit /\ [][DNext]_dvars

-----------------------------------------------------------------------------
\* withDockerClient and the deferred Close of the log body: however a call ends,
\* and wherever the daemon or the deadline cut it short, neither a client nor a
\* response body outlives it, and no call holds two clients at once.
NothingHeld ==
    /\ clients <= 1 /\ streams <= clients
    /\ dpc \in {"idle", "done"} => clients = 0 /\ streams = 0

\* "Environment values and raw command arguments are omitted", "without command
\* arguments", "Raw build commands are omitted" (docs/tools.md): no answer has
\* a value of the environment, nor a command, of any object.
NothingDisclosed ==
    \A f \in dout :
        f.field \in CommandFields \cup {EnvField, BareEnv} => f.value = Redacted
=============================================================================
