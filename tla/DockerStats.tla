---------------------------- MODULE DockerStats ----------------------------
(***************************************************************************)
(* get_docker_container_stats (tools/docker.go): HandleGetContainerStats   *)
(* picks the path, GatherContainerStats asks the daemon about one          *)
(* container, GatherDockerStatsAll lists the running containers, starts a  *)
(* goroutine for each one it wants and collects their results from a       *)
(* buffered channel.                                                       *)
(*                                                                         *)
(* The daemon and the containers are external: a container may start, stop *)
(* or be removed between the listing and the sample.  A reference stands   *)
(* for a full id, a short id or a name, whichever the client wrote.  What  *)
(* is sampled is abstracted to whether there is a sample.                  *)
(***************************************************************************)
EXTENDS Naturals, Sequences, FiniteSets, SequencesExt

CONSTANTS
    Containers,    \* the containers the daemon may know
    Refs,          \* the references a client may write
    RefersTo,      \* RefersTo[r]: the containers reference r matches
    Requests,      \* the values of container_ids, split at the commas
    AllRef         \* the word "all", special when it stands alone

\* The daemon knows finitely many containers.
ASSUME RequestsAssumption ==
    /\ IsFiniteSet(Containers)
    /\ AllRef \in Refs
    /\ RefersTo \in [Refs -> SUBSET Containers]
    /\ Requests \subseteq Seq(Refs)

\* The empty string, and the string "all".
Empty == <<>>

All == <<AllRef>>

VARIABLES
    running,    \* the containers that run now
    request,    \* input.ContainerIDs of the call in progress
    pc,         \* where the handler is
    ctx,        \* "live", or "done" after deadline or cancellation
    targets,    \* the containers to sample, in the order of the listing
    worker,     \* worker[c]: the goroutine of target c
    ch,         \* the channel, as a sequence of results
    received,   \* how many results the handler has taken from it
    entries,    \* the entries collected
    errs,       \* the containers named in the errors
    reply,      \* "none", "value" or "error"
    listed      \* history: what ContainerList returned

vars == <<running, request, pc, ctx, targets, worker, ch, received, entries,
          errs, reply, listed>>

NoWorkers == [c \in Containers |-> "none"]

Init ==
    /\ running \in SUBSET Containers
    /\ request = Empty /\ pc = "free" /\ ctx = "live"
    /\ targets = <<>> /\ worker = NoWorkers /\ ch = <<>>
    /\ received = 0 /\ entries = <<>> /\ errs = <<>>
    /\ reply = "none" /\ listed = {}

-----------------------------------------------------------------------------
(* The environment: the client, the deadline and the daemon.               *)

\* A call arrives, and requireField rejects an empty one.
Call(r) ==
    /\ pc = "free"
    /\ request' = r
    /\ pc' = IF r = Empty THEN "answered" ELSE "choose"
    /\ reply' = IF r = Empty THEN "error" ELSE "none"
    /\ UNCHANGED <<running, ctx, targets, worker, ch, received, entries, errs,
                   listed>>

\* The timeout of the call passes, or the client cancels it.
CtxDone ==
    /\ pc \notin {"free", "answered"} /\ ctx = "live"
    /\ ctx' = "done"
    /\ UNCHANGED <<running, request, pc, targets, worker, ch, received, entries,
                   errs, reply, listed>>

\* A container starts, stops or is removed.
ContainerChanges(c) ==
    /\ running' = IF c \in running THEN running \ {c} ELSE running \cup {c}
    /\ UNCHANGED <<request, pc, ctx, targets, worker, ch, received, entries,
                   errs, reply, listed>>

\* The answer has been sent and the handler has returned.
Return ==
    /\ pc = "answered"
    /\ request' = Empty /\ pc' = "free" /\ ctx' = "live"
    /\ targets' = <<>> /\ received' = 0 /\ entries' = <<>> /\ errs' = <<>>
    /\ reply' = "none" /\ listed' = {}
    /\ worker' = [c \in Containers |->
                     IF worker[c] = "gone" THEN "none" ELSE worker[c]]
    /\ UNCHANGED <<running, ch>>

-----------------------------------------------------------------------------
(* One container: the path of a single reference.                          *)

Answer(r) == pc' = "answered" /\ reply' = r

\* One reference alone goes straight to the daemon.
IsSingle(r) == r # All /\ Len(r) = 1

SingleSample(c) ==
    /\ pc = "choose" /\ IsSingle(request)
    /\ ctx = "live"
    /\ c \in running \cap RefersTo[request[1]]
    /\ entries' = <<[id |-> c, ok |-> TRUE]>>
    /\ Answer("value")
    /\ UNCHANGED <<running, request, ctx, targets, worker, ch, received, errs,
                   listed>>

\* No such container, no connection, a bad body, or the context is done: the
\* output is nil and the error is the answer.
SingleFails ==
    /\ pc = "choose" /\ IsSingle(request)
    /\ Answer("error")
    /\ UNCHANGED <<running, request, ctx, targets, worker, ch, received,
                   entries, errs, listed>>

-----------------------------------------------------------------------------
(* Several containers: fan out, fan in.                                    *)

\* The filter of GatherDockerStatsAll; an empty filter keeps everything.
Wanted(c) ==
    request = All \/ \E i \in DOMAIN request : c \in RefersTo[request[i]]

\* No client, or ContainerList failed.
ListFails ==
    /\ pc = "choose" /\ ~IsSingle(request)
    /\ Answer("error")
    /\ UNCHANGED <<running, request, ctx, targets, worker, ch, received,
                   entries, errs, listed>>

\* ContainerList answers, the filter is applied, the channel is made with room
\* for every target and a goroutine is started for each.
ListAndStart ==
    /\ pc = "choose" /\ ~IsSingle(request)
    /\ ctx = "live"
    /\ listed' = running
    /\ targets' = SetToSeq({c \in running : Wanted(c)})
    /\ worker' = [c \in Containers |-> IF c \in running /\ Wanted(c)
                                       THEN "sampling" ELSE worker[c]]
    /\ ch' = <<>>
    /\ pc' = "collect"
    /\ UNCHANGED <<running, request, ctx, received, entries, errs, reply>>

\* GatherContainerStats returns in the goroutine of c: with a sample if the
\* container still runs, or with an error at any time.
Sampled(c) ==
    /\ worker[c] = "sampling"
    /\ \/ ctx = "live" /\ c \in running
            /\ worker' = [worker EXCEPT ![c] = "ok"]
       \/ worker' = [worker EXCEPT ![c] = "failed"]
    /\ UNCHANGED <<running, request, pc, ctx, targets, ch, received, entries,
                   errs, reply, listed>>

ChanCap == Len(targets)

\* Mutant of Send: a container without a sample sends nothing.
SendSamplesOnly(c) ==
    /\ worker[c] \in {"ok", "failed"}
    /\ Len(ch) < ChanCap
    /\ ch' = IF worker[c] = "ok" THEN Append(ch, [id |-> c, ok |-> TRUE]) ELSE ch
    /\ worker' = [worker EXCEPT ![c] = "gone"]
    /\ UNCHANGED <<running, request, pc, ctx, targets, received, entries, errs,
                   reply, listed>>

\* The goroutine puts its result into the channel and ends.  The output of
\* GatherContainerStats always holds one entry, so it always sends.
Send(c) ==
    /\ worker[c] \in {"ok", "failed"}
    /\ Len(ch) < ChanCap
    /\ ch' = Append(ch, [id |-> c, ok |-> worker[c] = "ok"])
    /\ worker' = [worker EXCEPT ![c] = "gone"]
    /\ UNCHANGED <<running, request, pc, ctx, targets, received, entries, errs,
                   reply, listed>>

\* Mutant of Receive: a failed result makes no entry.
ReceiveSamplesOnly ==
    /\ pc = "collect"
    /\ received < Len(targets)
    /\ ch # <<>>
    /\ received' = received + 1
    /\ ch' = Tail(ch)
    /\ entries' = IF Head(ch).ok THEN Append(entries, Head(ch)) ELSE entries
    /\ errs' = IF Head(ch).ok THEN errs ELSE Append(errs, Head(ch).id)
    /\ UNCHANGED <<running, request, pc, ctx, targets, worker, reply, listed>>

\* One turn of `for range targets`.
Receive ==
    /\ pc = "collect"
    /\ received < Len(targets)
    /\ ch # <<>>
    /\ received' = received + 1
    /\ ch' = Tail(ch)
    /\ entries' = Append(entries, Head(ch))
    /\ errs' = IF Head(ch).ok THEN errs ELSE Append(errs, Head(ch).id)
    /\ UNCHANGED <<running, request, pc, ctx, targets, worker, reply, listed>>

\* Mutant of Collected: the handler stops waiting when its context is done.
CollectedOrDone ==
    /\ pc = "collect"
    /\ received = Len(targets) \/ ctx = "done"
    /\ Answer("value")
    /\ UNCHANGED <<running, request, ctx, targets, worker, ch, received,
                   entries, errs, listed>>

Collected ==
    /\ pc = "collect"
    /\ received = Len(targets)
    /\ Answer("value")
    /\ UNCHANGED <<running, request, ctx, targets, worker, ch, received,
                   entries, errs, listed>>

-----------------------------------------------------------------------------
HandlerStep == ListFails \/ ListAndStart \/ SingleFails
                 \/ (\E c \in Containers : SingleSample(c))
                 \/ Receive \/ Collected

WorkerStep(c) == Sampled(c) \/ Send(c)

Next ==
    \/ \E r \in Requests : Call(r)
    \/ \E c \in Containers : ContainerChanges(c) \/ WorkerStep(c)
    \/ HandlerStep \/ CtxDone \/ Return

\* Goroutines that can run do run.  The daemon need not answer, but the client
\* library gives up when the context is done, and the deadline comes.
Fairness ==
    /\ WF_vars(CtxDone)
    /\ WF_vars(HandlerStep /\ (pc = "choose" => ctx = "done"))
    /\ \A c \in Containers :
           WF_vars(Sampled(c) /\ ctx = "done") /\ WF_vars(Send(c))

Spec == Init /\ [][Next]_vars /\ Fairness

-----------------------------------------------------------------------------
\* A bulk answer has exactly one entry for every running container the filter
\* kept, whichever order the results arrived in and whatever became of the
\* container since; the errors name exactly the entries without a sample.
OneEntryPerTarget ==
    pc = "answered" /\ reply = "value" /\ ~IsSingle(request) =>
        /\ Len(entries) = Len(targets)
        /\ {entries[i].id : i \in DOMAIN entries} = {c \in listed : Wanted(c)}
        /\ {errs[i] : i \in DOMAIN errs} =
               {entries[i].id : i \in {j \in DOMAIN entries : ~entries[j].ok}}

\* When the handler returns it leaves no goroutine behind, and no result in a
\* channel nobody reads.
NoWorkerLeft ==
    pc \in {"free", "answered"} =>
        ch = <<>> /\ \A c \in Containers : worker[c] \in {"none", "gone"}

\* Every call is answered, although the daemon may never reply.
CallAnswered == (pc # "free") ~> (pc = "answered")

\* "unknown or stopped ids error" (docs/tools.md, and the description of the
\* tool in tools/register.go): a reference that matches no running container
\* makes the call fail or shows up in its errors.
UnknownIdsError ==
    pc = "answered" /\ reply = "value" /\ request \notin {Empty, All}
        /\ ~IsSingle(request) =>
        \A i \in DOMAIN request :
            RefersTo[request[i]] \cap listed = {} => errs # <<>>
=============================================================================
