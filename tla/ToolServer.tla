----------------------------- MODULE ToolServer -----------------------------
(***************************************************************************)
(* The request path of linux-mcp: every tool call and resource read runs   *)
(* in a goroutine of its own (tools/handler.go, tools/util.go,             *)
(* tools/resources.go, and the aggregate handlers of tools/system.go and   *)
(* tools/storage.go) and consults the configuration store of ConfigStore   *)
(* several times, while a reload may replace it between any two reads.     *)
(*                                                                         *)
(* A plain tool gathers by itself; an aggregate tool gathers by running,   *)
(* one after the other, the collectors Plan gives it.  What a collector    *)
(* collects is abstracted to how it ends: "ok", "partial" (an output and   *)
(* an error) or "failed" (an error only).                                  *)
(***************************************************************************)
EXTENDS ConfigStore, Sequences

CONSTANTS
    Calls,          \* the requests that can be in flight at once
    Plan,           \* Plan[t]: the collectors of aggregate t, <<>> if t is plain
    ResourceTools,  \* the tools that are also exposed as a resource
    CtxAware        \* the collectors that return once their context is done

Collectors(t) == {Plan[t][i] : i \in 1..Len(Plan[t])}

Plain(t) == Plan[t] = <<>>

\* An aggregate runs plain collectors, none of them twice.
ASSUME PlanAssumption ==
    /\ Plan \in [Tools -> Seq(Tools)]
    /\ \A t \in Tools : \A s \in Collectors(t) : Plain(s)
    /\ \A t \in Tools : \A i, j \in 1..Len(Plan[t]) :
            Plan[t][i] = Plan[t][j] => i = j
    /\ ResourceTools \subseteq Tools
    /\ CtxAware \subseteq {t \in Tools : Plain(t)}

VARIABLE calls      \* calls[c]: the goroutine of request c

serverVars == <<vars, calls>>

Outcomes == {"ok", "partial", "failed"}

Phases == {"arm", "gate", "gather", "section", "collect", "reply", "answered"}

\* on and off are history: the names that were enabled, respectively disabled,
\* at some moment since the request arrived.
Call == [pc : Phases, kind : {"tool", "resource"}, tool : Tools,
         ctx : {"live", "done"}, todo : Seq(Tools),
         ran : SUBSET Tools,       \* collectors that were invoked
         refused : SUBSET Tools,   \* "tool disabled by configuration"
         failed : SUBSET Tools,    \* an error of the collector was recorded
         done : SUBSET Tools,      \* the output is in the answer
         reply : {"none", "value", "error", "null"},
         on : SUBSET Tools, off : SUBSET Tools]

\* A slot without a request.
Free == [pc |-> "free"]

InFlight(c) == calls[c].pc \notin {"free", "answered"}

\* Takes call c to a changed record and leaves the store alone.
Becomes(c, call) ==
    /\ calls' = [calls EXCEPT ![c] = call]
    /\ UNCHANGED vars

-----------------------------------------------------------------------------
(* Arrival, deadline and cancellation of a request.                        *)

Invoke(c, kind, t) ==
    /\ main = "serve"
    /\ calls[c].pc = "free"
    /\ kind = "resource" => t \in ResourceTools
    /\ Becomes(c, [pc |-> "arm", kind |-> kind, tool |-> t, ctx |-> "live",
                   todo |-> <<>>, ran |-> {}, refused |-> {}, failed |-> {},
                   done |-> {}, reply |-> "none",
                   on |-> Tools \ Get.disabled, off |-> Get.disabled])

\* WithToolTimeout reads the configuration; a resource gets ten seconds.  A
\* context made with a zero or negative timeout is done from the start.
Arm(c) ==
    /\ calls[c].pc = "arm"
    /\ LET expired == /\ calls[c].kind = "tool"
                      /\ ToolTimeout(calls[c].tool) = "nonpositive"
       IN Becomes(c, [calls[c] EXCEPT
              !.pc = "gate", !.ctx = IF expired THEN "done" ELSE @])

\* Mutant of Expire: the collectors run under a context of their own, which
\* has no deadline.
ExpireOutsideCollectors(c) ==
    /\ calls[c].pc \in {"gate", "section", "reply"}
    /\ calls[c].ctx = "live"
    /\ Becomes(c, [calls[c] EXCEPT !.ctx = "done"])

\* The timer of the context fires.
Expire(c) ==
    /\ InFlight(c) /\ calls[c].pc # "arm"
    /\ calls[c].ctx = "live"
    /\ Becomes(c, [calls[c] EXCEPT !.ctx = "done"])

\* The client cancels the request.
Cancel(c) ==
    /\ InFlight(c)
    /\ calls[c].ctx = "live"
    /\ Becomes(c, [calls[c] EXCEPT !.ctx = "done"])

-----------------------------------------------------------------------------
(* gatherEnabled and the gather functions.                                 *)

\* The gate of the tool itself.
GateCloses(c) ==
    /\ calls[c].pc = "gate"
    /\ IsDisabled(calls[c].tool)
    /\ Becomes(c, [calls[c] EXCEPT !.refused = {calls[c].tool}, !.pc = "reply"])

GateOpens(c) ==
    LET t == calls[c].tool
    IN /\ calls[c].pc = "gate"
       /\ ~IsDisabled(t)
       /\ Becomes(c, [calls[c] EXCEPT
              !.ran = {t}, !.todo = Plan[t],
              !.pc = IF Plain(t) THEN "gather" ELSE "section"])

\* A collector that honours its context has no good result once that is done.
CanEnd(s, ctx, outcome) == outcome = "ok" /\ s \in CtxAware => ctx = "live"

\* The gather of a plain tool returns.
GatherReturns(c, outcome) ==
    LET t == calls[c].tool
    IN /\ calls[c].pc = "gather"
       /\ CanEnd(t, calls[c].ctx, outcome)
       /\ Becomes(c, [calls[c] EXCEPT
              !.done = IF outcome = "failed" THEN @ ELSE {t},
              !.failed = IF outcome = "ok" THEN @ ELSE {t},
              !.pc = "reply"])

\* Mutant of SectionSkipped: the omission is not recorded in the errors.
SectionSkippedSilently(c) ==
    /\ calls[c].pc = "section" /\ calls[c].todo # <<>>
    /\ IsDisabled(Head(calls[c].todo))
    /\ Becomes(c, [calls[c] EXCEPT !.todo = Tail(@)])

\* collectOrFallback finds the next collector disabled.
SectionSkipped(c) ==
    /\ calls[c].pc = "section" /\ calls[c].todo # <<>>
    /\ IsDisabled(Head(calls[c].todo))
    /\ Becomes(c, [calls[c] EXCEPT
           !.refused = @ \cup {Head(calls[c].todo)}, !.todo = Tail(@)])

\* Mutant of SectionStarts: the collector is called without gatherEnabled.
SectionStartsUngated(c) ==
    /\ calls[c].pc = "section" /\ calls[c].todo # <<>>
    /\ Becomes(c, [calls[c] EXCEPT
           !.ran = @ \cup {Head(calls[c].todo)}, !.pc = "collect"])

SectionStarts(c) ==
    /\ calls[c].pc = "section" /\ calls[c].todo # <<>>
    /\ ~IsDisabled(Head(calls[c].todo))
    /\ Becomes(c, [calls[c] EXCEPT
           !.ran = @ \cup {Head(calls[c].todo)}, !.pc = "collect"])

\* Mutant of CollectReturns: an error of the collector ends the aggregate.
CollectReturnsEarly(c, outcome) ==
    LET s == Head(calls[c].todo)
    IN /\ calls[c].pc = "collect"
       /\ CanEnd(s, calls[c].ctx, outcome)
       /\ Becomes(c, [calls[c] EXCEPT
              !.done = IF outcome = "ok" THEN @ \cup {s} ELSE @,
              !.failed = IF outcome = "ok" THEN @ ELSE @ \cup {s},
              !.todo = Tail(@),
              !.pc = IF outcome = "ok" THEN "section" ELSE "reply"])

\* An error makes the section its fallback value, a partial output included.
CollectReturns(c, outcome) ==
    LET s == Head(calls[c].todo)
    IN /\ calls[c].pc = "collect"
       /\ CanEnd(s, calls[c].ctx, outcome)
       /\ Becomes(c, [calls[c] EXCEPT
              !.done = IF outcome = "ok" THEN @ \cup {s} ELSE @,
              !.failed = IF outcome = "ok" THEN @ ELSE @ \cup {s},
              !.todo = Tail(@), !.pc = "section"])

SectionsDone(c) ==
    /\ calls[c].pc = "section" /\ calls[c].todo = <<>>
    /\ Becomes(c, [calls[c] EXCEPT !.pc = "reply"])

-----------------------------------------------------------------------------
(* The answer.                                                             *)

\* handleToolCall: an output that is not nil is the answer, with the error
\* added to its errors; a nil output turns the error into the answer.
ToolReply(call) ==
    IF call.tool \in call.refused THEN "error"
    ELSE IF Plain(call.tool) /\ call.done = {} THEN "error" ELSE "value"

\* handleReadResource: data == nil holds for the nil interface of a closed
\* gate only.  The nil pointer of a failed gather is data, which json.Marshal
\* turns into null, and the error is dropped.
ResourceReply(call) ==
    IF call.tool \in call.refused THEN "error"
    ELSE IF Plain(call.tool) /\ call.done = {} THEN "null" ELSE "value"

Reply(c) ==
    /\ calls[c].pc = "reply"
    /\ Becomes(c, [calls[c] EXCEPT
           !.reply = IF calls[c].kind = "tool" THEN ToolReply(calls[c])
                                               ELSE ResourceReply(calls[c]),
           !.pc = "answered"])

\* The session has written the answer out.
Delivered(c) ==
    /\ calls[c].pc = "answered"
    /\ Becomes(c, Free)

-----------------------------------------------------------------------------
(* The composition with the configuration store.                           *)

\* What an in-flight request has seen of the policy, one store step later.
Observe(call) ==
    IF call.pc = "free" THEN call
    ELSE [call EXCEPT !.on = @ \cup (Tools \ Get'.disabled),
                      !.off = @ \cup Get'.disabled]

\* A step of the store; the exit of the process takes the requests along.
StoreStep ==
    /\ Next
    /\ calls' = [c \in Calls |-> IF main' = "down" THEN Free
                                                   ELSE Observe(calls[c])]

\* The steps a handler takes by itself.
HandlerStep(c) == Arm(c) \/ GateCloses(c) \/ GateOpens(c) \/ SectionSkipped(c)
                    \/ SectionStarts(c) \/ SectionsDone(c) \/ Reply(c)

CollectorStep(c) == \E outcome \in Outcomes : GatherReturns(c, outcome)
                                                \/ CollectReturns(c, outcome)

ClientStep(c) ==
    \/ \E kind \in {"tool", "resource"}, t \in Tools : Invoke(c, kind, t)
    \/ Cancel(c)

CallStep(c) == ClientStep(c) \/ HandlerStep(c) \/ CollectorStep(c)
                 \/ Expire(c) \/ Delivered(c)

ServerInit == Init /\ calls = [c \in Calls |-> Free]

ServerNext == StoreStep \/ \E c \in Calls : CallStep(c)

\* The collector call c is in.
Collecting(c) == IF calls[c].pc = "gather" THEN calls[c].tool
                                           ELSE Head(calls[c].todo)

InCollector(c) == calls[c].pc \in {"gather", "collect"}

\* A collector that honours its context returns once that is done.
AbortStep(c) ==
    /\ InCollector(c) /\ calls[c].ctx = "done" /\ Collecting(c) \in CtxAware
    /\ CollectorStep(c)

\* Runnable goroutines run, timers fire and context-aware collectors return
\* when their context is done.  No collector is assumed to return otherwise.
ServerFairness == \A c \in Calls :
    WF_serverVars(HandlerStep(c)) /\ WF_serverVars(Expire(c))
        /\ WF_serverVars(AbortStep(c))

ServerSpec == ServerInit /\ [][ServerNext]_serverVars /\ ServerFairness

-----------------------------------------------------------------------------
ServerTypeOK == TypeOK /\ calls \in [Calls -> Call \cup {Free}]

\* "Tool names to disable, including their resource and aggregate collector
\* paths" (README.md), under a configuration that changes while requests run:
\* what a request invoked was enabled at some moment of the request, and what
\* it refused was disabled at some moment of it.  A tool that is disabled from
\* before the request until its end is never invoked.
PolicyWindow ==
    \A c \in Calls : calls[c].pc # "free" =>
        /\ calls[c].ran \subseteq calls[c].on
        /\ calls[c].refused \subseteq calls[c].off

\* "Disabled collectors are skipped by aggregate tools and reported in their
\* errors" (README.md): the answer of an aggregate accounts for every one of
\* its collectors exactly once, as delivered, as refused or as failed.
NoSilentOmission ==
    \A c \in Calls : calls[c].pc = "answered" /\ ~Plain(calls[c].tool)
                        /\ calls[c].reply = "value" =>
        /\ calls[c].done \cup calls[c].refused \cup calls[c].failed
                = Collectors(calls[c].tool)
        /\ calls[c].done \cap (calls[c].refused \cup calls[c].failed) = {}
        /\ calls[c].refused \cap calls[c].failed = {}

\* A request never ends with neither data nor an error: an answer without an
\* error carries the data that was asked for.  For a resource this is what
\* handleReadResource sets out to do ("resource unavailable: %w").
FailureIsAnError ==
    \A c \in Calls : calls[c].pc = "answered" /\ Plain(calls[c].tool)
                        /\ calls[c].done = {} => calls[c].reply = "error"

\* The deadline works: a request is answered, or goes with the process, unless
\* it stays for ever in a collector that ignores its context.
DeadlineHonoured ==
    \A c \in Calls :
        \/ []<>~InFlight(c)
        \/ <>[](InCollector(c) /\ Collecting(c) \notin CtxAware)
=============================================================================
