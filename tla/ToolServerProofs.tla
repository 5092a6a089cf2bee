-------------------------- MODULE ToolServerProofs --------------------------
(***************************************************************************)
(* Theorems about ToolServer, for every number of concurrent requests,     *)
(* every set of tools and every plan of the aggregates: types, and that    *)
(* the policy of the configuration file holds for every request while      *)
(* reloads interleave with it; that the request path accounts for every    *)
(* collector; and that it keeps the contract of a call.                    *)
(***************************************************************************)
EXTENDS ToolServerRefinement, ConfigStoreProofs

\* A request has seen at least the policy in force now.
SeesPolicy ==
    \A c \in Calls : calls[c].pc # "free" =>
        /\ Tools \ Get.disabled \subseteq calls[c].on
        /\ Get.disabled \subseteq calls[c].off

\* A collector that runs is the head of a list that is not empty.
CollectHasHead == \A c \in Calls : calls[c].pc = "collect" => calls[c].todo # <<>>

\* The inductive invariant of the request path.
ServerInv == /\ StoreInv
             /\ calls \in [Calls -> Call \cup {Free}]
             /\ CollectHasHead
             /\ SeesPolicy
             /\ PolicyWindow

-----------------------------------------------------------------------------
\* A slot is free or holds a well-formed call.
LEMMA FreeOrCall ==
    ASSUME calls \in [Calls -> Call \cup {Free}], NEW c \in Calls
    PROVE  /\ calls[c].pc # "free" => calls[c] \in Call
           /\ calls[c].pc = "free" => calls[c] = Free
  BY DEF Call, Free, Phases

\* The steps of one call leave the store alone and replace that call: what has
\* to be shown is about the new record only.
LEMMA BecomesInv ==
    ASSUME ServerInv, NEW c \in Calls, NEW call \in Call \cup {Free},
           Becomes(c, call),
           call.pc = "collect" => call.todo # <<>>,
           call.pc # "free" => /\ Tools \ Get.disabled \subseteq call.on
                               /\ Get.disabled \subseteq call.off
                               /\ call.ran \subseteq call.on
                               /\ call.refused \subseteq call.off
    PROVE  ServerInv'
<1>1. StoreInv'
  BY NextStoreInv DEF ServerInv, Becomes
<1>2. /\ calls' \in [Calls -> Call \cup {Free}]
      /\ calls' = [calls EXCEPT ![c] = call]
  BY DEF ServerInv, Becomes
<1>3. \A d \in Calls : calls'[d] = IF d = c THEN call ELSE calls[d]
  BY <1>2 DEF ServerInv
<1>4. Get' = Get
  BY DEF Becomes, vars, Get
<1>5. CollectHasHead'
  BY <1>3 DEF ServerInv, CollectHasHead
<1>6. SeesPolicy'
  BY <1>3, <1>4 DEF ServerInv, SeesPolicy
<1>7. PolicyWindow'
  BY <1>3 DEF ServerInv, PolicyWindow
<1>8. QED
  BY <1>1, <1>2, <1>5, <1>6, <1>7 DEF ServerInv

\* The initial states satisfy the inductive invariant.
LEMMA InitServerInv == ServerInit => ServerInv
  BY InitStoreInv
  DEF ServerInit, ServerInv, Free, CollectHasHead, SeesPolicy, PolicyWindow

\* A step of the store, a reload among them, preserves the inductive
\* invariant: the calls in flight observe the policy it leaves behind.
LEMMA StoreStepInv == ServerInv /\ StoreStep => ServerInv'
<1> SUFFICES ASSUME ServerInv, StoreStep PROVE ServerInv'
  OBVIOUS
<1>1. StoreInv'
  BY NextStoreInv DEF ServerInv, StoreStep
<1>2. Get' \in Config
  BY <1>1, DefaultConfigType DEF StoreInv, TypeOK, Get
<1>3. ASSUME NEW c \in Calls
      PROVE  /\ calls'[c] \in Call \cup {Free}
             /\ calls'[c].pc \in {calls[c].pc, "free"}
             /\ calls'[c].pc # "free" =>
                    /\ calls'[c].on = calls[c].on \cup (Tools \ Get'.disabled)
                    /\ calls'[c].off = calls[c].off \cup Get'.disabled
                    /\ calls'[c].ran = calls[c].ran
                    /\ calls'[c].refused = calls[c].refused
                    /\ calls'[c].todo = calls[c].todo
  <2>1. calls'[c] = IF main' = "down" THEN Free ELSE Observe(calls[c])
    BY DEF StoreStep
  <2>2. CASE main' = "down" \/ calls[c].pc = "free"
    BY <2>1, <2>2, FreeOrCall DEF ServerInv, Observe, Free
  <2>3. CASE main' # "down" /\ calls[c].pc # "free"
    <3>1. calls[c] \in Call
      BY <2>3, FreeOrCall DEF ServerInv
    <3>2. Get'.disabled \subseteq Tools
      BY <1>2 DEF Config
    <3>3. calls'[c] = [calls[c] EXCEPT
                          !.on = @ \cup (Tools \ Get'.disabled),
                          !.off = @ \cup Get'.disabled]
      BY <2>1, <2>3 DEF Observe
    <3>4. calls[c].on \subseteq Tools /\ calls[c].off \subseteq Tools
      BY <3>1 DEF Call
    <3>5. DEFINE on == calls[c].on \cup (Tools \ Get'.disabled)
                 off == calls[c].off \cup Get'.disabled
    <3>6. on \in SUBSET Tools /\ off \in SUBSET Tools
      BY <3>2, <3>4
    <3>7. calls'[c] = [calls[c] EXCEPT !.on = on, !.off = off]
      BY <3>3
    <3> HIDE DEF on, off
    <3>8. calls'[c] \in Call
      BY <3>1, <3>6, <3>7 DEF Call
    <3>9. /\ calls'[c].pc = calls[c].pc
          /\ calls'[c].on = on /\ calls'[c].off = off
          /\ calls'[c].ran = calls[c].ran
          /\ calls'[c].refused = calls[c].refused
          /\ calls'[c].todo = calls[c].todo
      BY <3>1, <3>7 DEF Call
    <3>10. QED
      BY <3>8, <3>9 DEF on, off
  <2>4. QED
    BY <2>2, <2>3
<1>4. calls' \in [Calls -> Call \cup {Free}]
  BY <1>3 DEF StoreStep
<1>5. CollectHasHead'
  BY <1>3 DEF ServerInv, CollectHasHead
<1>6. SeesPolicy'
  BY <1>3 DEF SeesPolicy
<1>7. PolicyWindow'
  BY <1>3 DEF ServerInv, PolicyWindow
<1>8. QED
  BY <1>1, <1>4, <1>5, <1>6, <1>7 DEF ServerInv

\* Every step of a call preserves the inductive invariant.
LEMMA CallStepInv ==
    ASSUME ServerInv, NEW c \in Calls, CallStep(c)
    PROVE  ServerInv'
<1>0. Get \in Config /\ Get.disabled \subseteq Tools
  BY GetType DEF ServerInv, StoreInv, Config
<1>a. calls[c].pc # "free" =>
        /\ calls[c] \in Call
        /\ Tools \ Get.disabled \subseteq calls[c].on
        /\ Get.disabled \subseteq calls[c].off
        /\ calls[c].ran \subseteq calls[c].on
        /\ calls[c].refused \subseteq calls[c].off
  BY FreeOrCall DEF ServerInv, SeesPolicy, PolicyWindow
<1>b. calls[c].pc = "collect" => calls[c].todo # <<>>
  BY DEF ServerInv, CollectHasHead
<1>c. calls[c].pc # "free" /\ calls[c].todo # <<>> =>
        Head(calls[c].todo) \in Tools /\ Tail(calls[c].todo) \in Seq(Tools)
  <2> SUFFICES ASSUME calls[c].pc # "free", calls[c].todo # <<>>
               PROVE  Head(calls[c].todo) \in Tools
                        /\ Tail(calls[c].todo) \in Seq(Tools)
    OBVIOUS
  <2>1. calls[c].todo \in Seq(Tools)
    BY <1>a DEF Call
  <2>2. QED
    BY <2>1
<1>1. ASSUME NEW kind \in {"tool", "resource"}, NEW t \in Tools,
             Invoke(c, kind, t)
      PROVE  ServerInv'
  <2> DEFINE call == [pc |-> "arm", kind |-> kind, tool |-> t, ctx |-> "live",
                   todo |-> <<>>, ran |-> {}, refused |-> {}, failed |-> {},
                   done |-> {}, reply |-> "none",
                   on |-> Tools \ Get.disabled, off |-> Get.disabled]
  <2>1. Becomes(c, call)
    BY <1>1 DEF Invoke
  <2>2. call \in Call
    BY <1>0 DEF Call, Phases
  <2>3. QED
    BY <2>1, <2>2, BecomesInv
<1>2. CASE Arm(c)
  <2> DEFINE call == [calls[c] EXCEPT !.pc = "gate",
          !.ctx = IF /\ calls[c].kind = "tool"
                     /\ ToolTimeout(calls[c].tool) = "nonpositive"
                  THEN "done" ELSE @]
  <2>1. Becomes(c, call) /\ calls[c].pc # "free"
    BY <1>2 DEF Arm
  <2>2. call \in Call
    BY <1>a, <2>1 DEF Call, Phases
  <2>3. QED
    BY <1>a, <2>1, <2>2, BecomesInv DEF Arm, Call
<1>3. CASE Expire(c)
  <2> DEFINE call == [calls[c] EXCEPT !.ctx = "done"]
  <2>1. Becomes(c, call) /\ calls[c].pc # "free"
    BY <1>3 DEF Expire, InFlight
  <2>2. call \in Call
    BY <1>a, <2>1 DEF Call, Phases
  <2>3. QED
    BY <1>a, <2>1, <2>2, <1>b, BecomesInv DEF Expire, Call
<1>4. CASE Cancel(c)
  <2> DEFINE call == [calls[c] EXCEPT !.ctx = "done"]
  <2>1. Becomes(c, call) /\ calls[c].pc # "free"
    BY <1>4 DEF Cancel, InFlight
  <2>2. call \in Call
    BY <1>a, <2>1 DEF Call, Phases
  <2>3. QED
    BY <1>a, <2>1, <2>2, <1>b, BecomesInv DEF Cancel, Call
<1>5. CASE GateCloses(c)
  <2> DEFINE call == [calls[c] EXCEPT !.refused = {calls[c].tool}, !.pc = "reply"]
  <2>1. Becomes(c, call) /\ calls[c].pc # "free"
    BY <1>5 DEF GateCloses
  <2>2. call \in Call
    BY <1>a, <2>1 DEF Call, Phases
  <2>3. QED
    BY <1>a, <2>1, <2>2, <1>5, BecomesInv DEF GateCloses, IsDisabled, Call
<1>6. CASE GateOpens(c)
  <2> DEFINE call == [calls[c] EXCEPT
          !.ran = {calls[c].tool}, !.todo = Plan[calls[c].tool],
          !.pc = IF Plain(calls[c].tool) THEN "gather" ELSE "section"]
  <2>1. Becomes(c, call) /\ calls[c].pc # "free"
    BY <1>6 DEF GateOpens
  <2>2. call \in Call
    BY <1>a, <2>1, PlanAssumption DEF Call, Phases
  <2>3. QED
    BY <1>a, <2>1, <2>2, <1>6, BecomesInv DEF GateOpens, IsDisabled, Call
<1>7. CASE SectionSkipped(c)
  <2> DEFINE call == [calls[c] EXCEPT
          !.refused = @ \cup {Head(calls[c].todo)}, !.todo = Tail(@)]
  <2>1. Becomes(c, call) /\ calls[c].pc # "free"
    BY <1>7 DEF SectionSkipped
  <2>2. call \in Call
    BY <1>a, <1>c, <2>1, <1>7 DEF SectionSkipped, Call, Phases
  <2>3. QED
    BY <1>a, <2>1, <2>2, <1>7, BecomesInv DEF SectionSkipped, IsDisabled, Call
<1>8. CASE SectionStarts(c)
  <2> DEFINE call == [calls[c] EXCEPT
          !.ran = @ \cup {Head(calls[c].todo)}, !.pc = "collect"]
  <2>1. Becomes(c, call) /\ calls[c].pc # "free"
    BY <1>8 DEF SectionStarts
  <2>2. call \in Call
    BY <1>a, <1>c, <2>1, <1>8 DEF SectionStarts, Call, Phases
  <2>3. QED
    BY <1>a, <2>1, <2>2, <1>8, BecomesInv DEF SectionStarts, IsDisabled, Call
<1>9. CASE SectionsDone(c)
  <2> DEFINE call == [calls[c] EXCEPT !.pc = "reply"]
  <2>1. Becomes(c, call) /\ calls[c].pc # "free"
    BY <1>9 DEF SectionsDone
  <2>2. call \in Call
    BY <1>a, <2>1 DEF Call, Phases
  <2>3. QED
    BY <1>a, <2>1, <2>2, BecomesInv DEF SectionsDone, Call
<1>10. CASE Reply(c)
  <2> DEFINE call == [calls[c] EXCEPT
          !.reply = IF calls[c].kind = "tool" THEN ToolReply(calls[c])
                                              ELSE ResourceReply(calls[c]),
          !.pc = "answered"]
  <2>1. Becomes(c, call) /\ calls[c].pc # "free"
    BY <1>10 DEF Reply
  <2>a. {ToolReply(calls[c]), ResourceReply(calls[c])}
            \subseteq {"none", "value", "error", "null"}
    BY DEF ToolReply, ResourceReply
  <2>2. call \in Call
    BY <1>a, <2>1, <2>a DEF Call, Phases
  <2>3. QED
    BY <1>a, <2>1, <2>2, BecomesInv DEF Reply, Call
<1>11. CASE Delivered(c)
  BY <1>11, BecomesInv DEF Delivered, Free
<1>12. ASSUME NEW outcome \in Outcomes, GatherReturns(c, outcome)
       PROVE  ServerInv'
  <2> DEFINE call == [calls[c] EXCEPT
          !.done = IF outcome = "failed" THEN @ ELSE {calls[c].tool},
          !.failed = IF outcome = "ok" THEN @ ELSE {calls[c].tool},
          !.pc = "reply"]
  <2>1. Becomes(c, call) /\ calls[c].pc # "free"
    BY <1>12 DEF GatherReturns
  <2>2. call \in Call
    BY <1>a, <2>1 DEF Call, Phases
  <2>3. QED
    BY <1>a, <2>1, <2>2, BecomesInv DEF GatherReturns, Call
<1>13. ASSUME NEW outcome \in Outcomes, CollectReturns(c, outcome)
       PROVE  ServerInv'
  <2> DEFINE call == [calls[c] EXCEPT
          !.done = IF outcome = "ok" THEN @ \cup {Head(calls[c].todo)} ELSE @,
          !.failed = IF outcome = "ok" THEN @ ELSE @ \cup {Head(calls[c].todo)},
          !.todo = Tail(@), !.pc = "section"]
  <2>1. Becomes(c, call) /\ calls[c].pc # "free"
    BY <1>13 DEF CollectReturns
  <2>2. call \in Call
    BY <1>a, <1>b, <1>c, <2>1, <1>13 DEF CollectReturns, Call, Phases
  <2>3. QED
    BY <1>a, <2>1, <2>2, BecomesInv DEF CollectReturns, Call
<1>14. QED
  BY <1>1, <1>2, <1>3, <1>4, <1>5, <1>6, <1>7, <1>8, <1>9, <1>10, <1>11, <1>12, <1>13
  DEF CallStep, ClientStep, HandlerStep, CollectorStep

\* Every step of the server preserves the inductive invariant.
LEMMA NextServerInv == ServerInv /\ [ServerNext]_serverVars => ServerInv'
<1> SUFFICES ASSUME ServerInv, [ServerNext]_serverVars PROVE ServerInv'
  OBVIOUS
<1>1. CASE StoreStep
  BY <1>1, StoreStepInv
<1>2. CASE \E c \in Calls : CallStep(c)
  BY <1>2, CallStepInv
<1>3. CASE UNCHANGED serverVars
  <2>1. calls' = calls /\ UNCHANGED vars /\ Get' = Get
    BY <1>3 DEF serverVars, vars, Get
  <2>2. StoreInv'
    BY <2>1, NextStoreInv DEF ServerInv
  <2>3. QED
    BY <2>1, <2>2 DEF ServerInv, CollectHasHead, SeesPolicy, PolicyWindow
<1>4. QED
  BY <1>1, <1>2, <1>3 DEF ServerNext

-----------------------------------------------------------------------------
\* The inductive invariant holds throughout every behaviour of the server.
THEOREM ServerInvariant == ServerSpec => []ServerInv
  BY InitServerInv, NextServerInv, PTL DEF ServerSpec

\* Type correctness of the store and of every request.
THEOREM ServerTypeCorrect == ServerSpec => []ServerTypeOK
<1>1. ServerInv => ServerTypeOK
  BY DEF ServerInv, StoreInv, ServerTypeOK
<1>2. QED
  BY <1>1, ServerInvariant, PTL

\* However reloads and requests interleave, and however many requests are in
\* flight, a request invokes only what the configuration enabled at some moment
\* of that request and refuses only what it disabled at some moment of it.
THEOREM PolicyHolds == ServerSpec => []PolicyWindow
<1>1. ServerInv => PolicyWindow
  BY DEF ServerInv
<1>2. QED
  BY <1>1, ServerInvariant, PTL

-----------------------------------------------------------------------------
(* The account of the collectors, and the refinement.                      *)

\* The collectors a call has not come to yet, and those that are accounted for.
Left(call) == {call.todo[i] : i \in 1..Len(call.todo)}

Accounted(call) == call.done \cup call.refused \cup call.failed

\* A collector is accounted for once.
OnceOnly(call) ==
    /\ call.done \cap (call.refused \cup call.failed) = {}
    /\ call.refused \cap call.failed = {}

\* Nothing is accounted for before the gate, ...
BeforeGate(call) == call.pc \in {"arm", "gate", "gather"} => Accounted(call) = {}

\* ... a plain tool and the collector at the head were let through, ...
LetThrough(call) ==
    /\ call.pc = "gather" => Plain(call.tool) /\ call.tool \in call.ran
    /\ call.pc = "collect" => Head(call.todo) \in call.ran

\* ... while an aggregate runs, each of its collectors is either still to come
\* or accounted for, ...
Between(call) ==
    call.pc \in {"section", "collect"} =>
        /\ ~Plain(call.tool)
        /\ Accounted(call) \cup Left(call) = Collectors(call.tool)
        /\ Accounted(call) \cap Left(call) = {}
        /\ \A i, j \in 1..Len(call.todo) : call.todo[i] = call.todo[j] => i = j
        /\ OnceOnly(call)

\* ... and in the end the tool was refused, or the plain tool has an outcome, or
\* the aggregate has accounted for all of its collectors.
AtEnd(call) ==
    call.pc \in {"reply", "answered"} =>
        \/ call.refused = {call.tool} /\ call.done = {} /\ call.failed = {}
        \/ /\ Plain(call.tool) /\ call.refused = {}
           /\ Accounted(call) = {call.tool}
        \/ /\ ~Plain(call.tool) /\ Accounted(call) = Collectors(call.tool)
           /\ OnceOnly(call)

\* The answer is given once, by the rule for its kind.
Answers(call) ==
    /\ call.pc # "answered" => call.reply = "none"
    /\ call.pc = "answered" =>
           call.reply = IF call.kind = "tool" THEN ToolReply(call)
                                              ELSE ResourceReply(call)

AccountOK(call) == BeforeGate(call) /\ LetThrough(call) /\ Between(call)
                     /\ AtEnd(call) /\ Answers(call)

\* The inductive invariant of the account.
AccountInv == \A c \in Calls : calls[c].pc # "free" => AccountOK(calls[c])

-----------------------------------------------------------------------------
(* The account.                                                            *)

\* Taking the head off a sequence without repetitions takes one element out.
LEMMA HeadLeaves ==
    ASSUME NEW q \in Seq(Tools), q # <<>>,
           \A i, j \in 1..Len(q) : q[i] = q[j] => i = j
    PROVE  /\ Head(q) \in Tools /\ Tail(q) \in Seq(Tools)
           /\ {q[i] : i \in 1..Len(q)}
                  = {Head(q)} \cup {Tail(q)[i] : i \in 1..Len(Tail(q))}
           /\ Head(q) \notin {Tail(q)[i] : i \in 1..Len(Tail(q))}
           /\ \A i, j \in 1..Len(Tail(q)) : Tail(q)[i] = Tail(q)[j] => i = j
<1>1. /\ Head(q) = q[1] /\ Head(q) \in Tools /\ Tail(q) \in Seq(Tools)
      /\ Len(q) \in Nat \ {0} /\ Len(Tail(q)) = Len(q) - 1
      /\ \A i \in 1..Len(Tail(q)) : Tail(q)[i] = q[i + 1]
  OBVIOUS
<1>2. ASSUME NEW i \in 1..Len(q)
      PROVE  q[i] = Head(q) \/ \E j \in 1..Len(Tail(q)) : Tail(q)[j] = q[i]
  <2>1. CASE i = 1
    BY <1>1, <2>1
  <2>2. CASE i # 1
    <3>1. i - 1 \in 1..Len(Tail(q)) /\ (i - 1) + 1 = i
      BY <1>1, <2>2
    <3>2. Tail(q)[i - 1] = q[i]
      BY <1>1, <3>1
    <3>3. QED
      BY <3>1, <3>2
  <2>3. QED
    BY <2>1, <2>2
<1>3. ASSUME NEW i \in 1..Len(Tail(q))
      PROVE  i + 1 \in 1..Len(q) /\ i + 1 # 1 /\ Tail(q)[i] = q[i + 1]
  BY <1>1
<1>4. 1 \in 1..Len(q)
  BY <1>1
<1>5. Head(q) \notin {Tail(q)[i] : i \in 1..Len(Tail(q))}
  BY <1>1, <1>3, <1>4
<1>6. \A i, j \in 1..Len(Tail(q)) : Tail(q)[i] = Tail(q)[j] => i = j
  BY <1>3
<1>7. {q[i] : i \in 1..Len(q)}
          = {Head(q)} \cup {Tail(q)[i] : i \in 1..Len(Tail(q))}
  BY <1>1, <1>2, <1>3, <1>4
<1>8. QED
  BY <1>1, <1>5, <1>6, <1>7

\* A call that keeps its account and its step keeps it right.
LEMMA SameAccount ==
    ASSUME NEW old \in Call, NEW call \in Call, AccountOK(old),
           call.pc = old.pc, call.kind = old.kind, call.tool = old.tool,
           call.todo = old.todo, call.ran = old.ran,
           call.refused = old.refused, call.failed = old.failed,
           call.done = old.done, call.reply = old.reply
    PROVE  AccountOK(call)
  BY DEF AccountOK, BeforeGate, LetThrough, Between, AtEnd, Answers, Accounted,
         Left, OnceOnly, ToolReply, ResourceReply

\* What a step of a call makes of its record.
LEMMA NewRecord ==
    ASSUME ServerInv, NEW c \in Calls, NEW call, Becomes(c, call)
    PROVE  calls'[c] = call /\ \A d \in Calls \ {c} : calls'[d] = calls[d]
  BY DEF ServerInv, Becomes

\* The other calls stay as they are.
LEMMA OnlyThatCall ==
    ASSUME ServerInv, NEW d \in Calls, CallStep(d)
    PROVE  /\ \A c \in Calls \ {d} : calls'[c] = calls[c]
           /\ UNCHANGED vars
<1>1. \E call : Becomes(d, call)
  BY DEF CallStep, ClientStep, HandlerStep, CollectorStep, Invoke, Cancel, Arm,
         GateCloses, GateOpens, SectionSkipped, SectionStarts, SectionsDone,
         Reply, GatherReturns, CollectReturns, Expire, Delivered
<1>2. QED
  BY <1>1, NewRecord DEF Becomes

\* A collector is next: it is one of the aggregate's, not accounted for yet.
LEMMA NextCollector ==
    ASSUME NEW call \in Call, AccountOK(call), call.pc \in {"section", "collect"},
           call.todo # <<>>
    PROVE  LET s == Head(call.todo)
               rest == {Tail(call.todo)[i] : i \in 1..Len(Tail(call.todo))}
           IN /\ s \in Tools /\ Tail(call.todo) \in Seq(Tools)
              /\ s \notin Accounted(call) /\ s \notin rest
              /\ (Accounted(call) \cup {s}) \cup rest = Collectors(call.tool)
              /\ Accounted(call) \cap rest = {}
              /\ \A i, j \in 1..Len(Tail(call.todo)) :
                     Tail(call.todo)[i] = Tail(call.todo)[j] => i = j
<1>1. call.todo \in Seq(Tools)
  BY DEF Call
<1>2. Between(call)
  BY DEF AccountOK
<1>3. QED
  BY <1>1, <1>2, HeadLeaves DEF Between, Left

\* Every step of a call keeps its account right.
LEMMA CallAccount ==
    ASSUME ServerInv, NEW c \in Calls, CallStep(c),
           calls[c].pc # "free" => AccountOK(calls[c]),
           calls'[c].pc # "free"
    PROVE  AccountOK(calls'[c])
<1>0. calls[c].pc # "free" => calls[c] \in Call /\ AccountOK(calls[c])
  BY FreeOrCall DEF ServerInv
<1>a. calls'[c] \in Call
  <2>1. calls'[c] \in Call \cup {Free}
    BY CallStepInv DEF ServerInv
  <2>2. QED
    BY <2>1 DEF Free
<1>1. ASSUME NEW kind \in {"tool", "resource"}, NEW t \in Tools,
             Invoke(c, kind, t)
      PROVE  AccountOK(calls'[c])
  <2>1. /\ calls'[c].pc = "arm" /\ calls'[c].reply = "none"
        /\ Accounted(calls'[c]) = {}
    BY <1>1, NewRecord DEF Invoke, Accounted
  <2>2. QED
    BY <2>1 DEF AccountOK, BeforeGate, LetThrough, Between, AtEnd, Answers
<1>2. CASE Arm(c)
  <2>1. calls[c] \in Call /\ AccountOK(calls[c]) /\ calls[c].pc = "arm"
    BY <1>0, <1>2 DEF Arm
  <2>2. /\ calls'[c].pc = "gate" /\ calls'[c].reply = calls[c].reply
        /\ calls'[c].done = calls[c].done /\ calls'[c].refused = calls[c].refused
        /\ calls'[c].failed = calls[c].failed
    <3>1. calls'[c] = [calls[c] EXCEPT !.pc = "gate",
              !.ctx = IF /\ calls[c].kind = "tool"
                         /\ ToolTimeout(calls[c].tool) = "nonpositive"
                      THEN "done" ELSE @]
      BY <1>2, NewRecord DEF Arm
    <3>2. QED
      BY <2>1, <3>1 DEF Call
  <2>3. QED
    BY <2>1, <2>2
    DEF AccountOK, BeforeGate, LetThrough, Between, AtEnd, Answers, Accounted
<1>3. CASE Expire(c) \/ Cancel(c)
  <2>1. calls[c] \in Call /\ AccountOK(calls[c])
    BY <1>0, <1>3 DEF Expire, Cancel, InFlight
  <2>2. calls'[c] = [calls[c] EXCEPT !.ctx = "done"]
    BY <1>3, NewRecord DEF Expire, Cancel
  <2>3. QED
    BY <1>a, <2>1, <2>2, SameAccount DEF Call
<1>4. CASE GateCloses(c)
  <2>1. calls[c] \in Call /\ AccountOK(calls[c]) /\ calls[c].pc = "gate"
    BY <1>0, <1>4 DEF GateCloses
  <2>2. /\ calls'[c].pc = "reply" /\ calls'[c].reply = calls[c].reply
        /\ calls'[c].done = calls[c].done /\ calls'[c].tool = calls[c].tool
        /\ calls'[c].failed = calls[c].failed
        /\ calls'[c].refused = {calls[c].tool}
    <3>1. calls'[c] = [calls[c] EXCEPT !.refused = {calls[c].tool}, !.pc = "reply"]
      BY <1>4, NewRecord DEF GateCloses
    <3>2. QED
      BY <2>1, <3>1 DEF Call
  <2>3. QED
    BY <2>1, <2>2
    DEF AccountOK, BeforeGate, LetThrough, Between, AtEnd, Answers, Accounted
<1>5. CASE GateOpens(c)
  <2> DEFINE t == calls[c].tool
  <2>1. calls[c] \in Call /\ AccountOK(calls[c]) /\ calls[c].pc = "gate"
        /\ t \in Tools
    BY <1>0, <1>5 DEF GateOpens, Call
  <2>2. /\ calls'[c].pc = IF Plain(t) THEN "gather" ELSE "section"
        /\ calls'[c].reply = calls[c].reply /\ calls'[c].tool = t
        /\ calls'[c].done = calls[c].done /\ calls'[c].refused = calls[c].refused
        /\ calls'[c].failed = calls[c].failed
        /\ calls'[c].todo = Plan[t] /\ calls'[c].ran = {t}
    <3>1. calls'[c] = [calls[c] EXCEPT
              !.ran = {t}, !.todo = Plan[t],
              !.pc = IF Plain(t) THEN "gather" ELSE "section"]
      BY <1>5, NewRecord DEF GateOpens
    <3>2. QED
      BY <2>1, <3>1 DEF Call
  <2>3. Accounted(calls'[c]) = {} /\ calls'[c].reply = "none"
        /\ OnceOnly(calls'[c])
    BY <2>1, <2>2 DEF AccountOK, BeforeGate, Answers, Accounted, OnceOnly
  <2>4. Between(calls'[c])
    BY <2>1, <2>2, <2>3, PlanAssumption DEF Between, Left, Collectors
  <2>5. QED
    BY <2>2, <2>3, <2>4
    DEF AccountOK, BeforeGate, LetThrough, AtEnd, Answers
<1>6. CASE SectionSkipped(c)
  <2> DEFINE s == Head(calls[c].todo)
  <2>1. calls[c] \in Call /\ AccountOK(calls[c]) /\ calls[c].pc = "section"
        /\ calls[c].todo # <<>>
    BY <1>0, <1>6 DEF SectionSkipped
  <2>2. /\ calls'[c].pc = "section" /\ calls'[c].reply = calls[c].reply
        /\ calls'[c].tool = calls[c].tool
        /\ calls'[c].done = calls[c].done /\ calls'[c].failed = calls[c].failed
        /\ calls'[c].refused = calls[c].refused \cup {s}
        /\ calls'[c].todo = Tail(calls[c].todo)
    <3>1. calls'[c] = [calls[c] EXCEPT !.refused = @ \cup {s}, !.todo = Tail(@)]
      BY <1>6, NewRecord DEF SectionSkipped
    <3>2. QED
      BY <2>1, <3>1 DEF Call
  <2>3. Accounted(calls'[c]) = Accounted(calls[c]) \cup {s}
        /\ OnceOnly(calls'[c])
    BY <2>1, <2>2, NextCollector DEF AccountOK, Between, Accounted, OnceOnly
  <2>4. Between(calls'[c])
    BY <2>1, <2>2, <2>3, NextCollector DEF AccountOK, Between, Left
  <2>5. QED
    BY <2>1, <2>2, <2>4
    DEF AccountOK, BeforeGate, LetThrough, AtEnd, Answers
<1>7. CASE SectionStarts(c)
  <2>1. calls[c] \in Call /\ AccountOK(calls[c]) /\ calls[c].pc = "section"
    BY <1>0, <1>7 DEF SectionStarts
  <2>2. /\ calls'[c].pc = "collect" /\ calls'[c].reply = calls[c].reply
        /\ calls'[c].tool = calls[c].tool
        /\ calls'[c].done = calls[c].done /\ calls'[c].failed = calls[c].failed
        /\ calls'[c].refused = calls[c].refused
        /\ calls'[c].todo = calls[c].todo
        /\ Head(calls[c].todo) \in calls'[c].ran
    <3>1. calls'[c] = [calls[c] EXCEPT
              !.ran = @ \cup {Head(calls[c].todo)}, !.pc = "collect"]
      BY <1>7, NewRecord DEF SectionStarts
    <3>2. QED
      BY <2>1, <3>1 DEF Call
  <2>3. QED
    BY <2>1, <2>2
    DEF AccountOK, BeforeGate, LetThrough, Between, AtEnd, Answers, Accounted,
        Left, OnceOnly
<1>8. CASE CollectReturns(c, "ok") \/ CollectReturns(c, "partial")
             \/ CollectReturns(c, "failed")
  <2> DEFINE s == Head(calls[c].todo)
  <2>1. calls[c] \in Call /\ AccountOK(calls[c]) /\ calls[c].pc = "collect"
        /\ calls[c].todo # <<>>
    BY <1>0, <1>8 DEF CollectReturns, ServerInv, CollectHasHead
  <2>2. /\ calls'[c].pc = "section" /\ calls'[c].reply = calls[c].reply
        /\ calls'[c].tool = calls[c].tool
        /\ calls'[c].refused = calls[c].refused
        /\ \/ /\ calls'[c].done = calls[c].done \cup {s}
              /\ calls'[c].failed = calls[c].failed
           \/ /\ calls'[c].done = calls[c].done
              /\ calls'[c].failed = calls[c].failed \cup {s}
        /\ calls'[c].todo = Tail(calls[c].todo)
    <3>1. CASE CollectReturns(c, "ok")
      <4>1. calls'[c] = [calls[c] EXCEPT !.done = @ \cup {s},
                             !.failed = @, !.todo = Tail(@), !.pc = "section"]
        BY <3>1, NewRecord DEF CollectReturns
      <4>2. QED
        BY <2>1, <4>1 DEF Call
    <3>2. CASE CollectReturns(c, "partial") \/ CollectReturns(c, "failed")
      <4>1. calls'[c] = [calls[c] EXCEPT !.done = @,
                             !.failed = @ \cup {s}, !.todo = Tail(@),
                             !.pc = "section"]
        BY <3>2, NewRecord DEF CollectReturns
      <4>2. QED
        BY <2>1, <4>1 DEF Call
    <3>3. QED
      BY <1>8, <3>1, <3>2
  <2>3. Accounted(calls'[c]) = Accounted(calls[c]) \cup {s}
        /\ OnceOnly(calls'[c])
    BY <2>1, <2>2, NextCollector DEF AccountOK, Between, Accounted, OnceOnly
  <2>4. Between(calls'[c])
    BY <2>1, <2>2, <2>3, NextCollector DEF AccountOK, Between, Left
  <2>5. QED
    BY <2>1, <2>2, <2>4
    DEF AccountOK, BeforeGate, LetThrough, AtEnd, Answers
<1>9. CASE SectionsDone(c)
  <2>1. calls[c] \in Call /\ AccountOK(calls[c]) /\ calls[c].pc = "section"
        /\ calls[c].todo = <<>>
    BY <1>0, <1>9 DEF SectionsDone
  <2>2. /\ calls'[c].pc = "reply" /\ calls'[c].reply = calls[c].reply
        /\ calls'[c].tool = calls[c].tool
        /\ calls'[c].done = calls[c].done /\ calls'[c].failed = calls[c].failed
        /\ calls'[c].refused = calls[c].refused
    BY <1>9, <2>1, NewRecord DEF SectionsDone, Call
  <2>3. Left(calls[c]) = {}
    BY <2>1 DEF Left
  <2>4. QED
    BY <2>1, <2>2, <2>3
    DEF AccountOK, BeforeGate, LetThrough, Between, AtEnd, Answers, Accounted,
        OnceOnly
<1>10. CASE GatherReturns(c, "ok") \/ GatherReturns(c, "partial")
              \/ GatherReturns(c, "failed")
  <2> DEFINE t == calls[c].tool
  <2>1. calls[c] \in Call /\ AccountOK(calls[c]) /\ calls[c].pc = "gather"
    BY <1>0, <1>10 DEF GatherReturns
  <2>2. calls[c].done = {} /\ calls[c].refused = {} /\ calls[c].failed = {}
        /\ Plain(t)
    BY <2>1 DEF AccountOK, BeforeGate, LetThrough, Accounted
  <2>3. /\ calls'[c].pc = "reply" /\ calls'[c].reply = calls[c].reply
        /\ calls'[c].tool = t /\ calls'[c].refused = {}
        /\ Accounted(calls'[c]) = {t}
    <3>1. PICK outcome \in Outcomes : GatherReturns(c, outcome)
      BY <1>10 DEF Outcomes
    <3>2. calls'[c] = [calls[c] EXCEPT
              !.done = IF outcome = "failed" THEN @ ELSE {t},
              !.failed = IF outcome = "ok" THEN @ ELSE {t},
              !.pc = "reply"]
      BY <3>1, NewRecord DEF GatherReturns
    <3>3. QED
      BY <2>1, <2>2, <3>2 DEF Call, Accounted
  <2>4. QED
    BY <2>1, <2>2, <2>3
    DEF AccountOK, BeforeGate, LetThrough, Between, AtEnd, Answers
<1>11. CASE Reply(c)
  <2>1. calls[c] \in Call /\ AccountOK(calls[c]) /\ calls[c].pc = "reply"
    BY <1>0, <1>11 DEF Reply
  <2>2. /\ calls'[c].pc = "answered" /\ calls'[c].kind = calls[c].kind
        /\ calls'[c].tool = calls[c].tool
        /\ calls'[c].done = calls[c].done /\ calls'[c].failed = calls[c].failed
        /\ calls'[c].refused = calls[c].refused
        /\ calls'[c].reply = IF calls[c].kind = "tool" THEN ToolReply(calls[c])
                                                       ELSE ResourceReply(calls[c])
    <3>1. calls'[c] = [calls[c] EXCEPT
              !.reply = IF calls[c].kind = "tool" THEN ToolReply(calls[c])
                                                  ELSE ResourceReply(calls[c]),
              !.pc = "answered"]
      BY <1>11, NewRecord DEF Reply
    <3>2. QED
      BY <2>1, <3>1 DEF Call
  <2>3. Answers(calls'[c])
    BY <2>2 DEF Answers, ToolReply, ResourceReply
  <2>4. AtEnd(calls'[c])
    BY <2>1, <2>2 DEF AccountOK, AtEnd, Accounted, OnceOnly
  <2>5. QED
    BY <2>2, <2>3, <2>4 DEF AccountOK, BeforeGate, LetThrough, Between
<1>12. CASE Delivered(c)
  BY <1>12, NewRecord DEF Delivered, Free
<1>13. QED
  BY <1>1, <1>2, <1>3, <1>4, <1>5, <1>6, <1>7, <1>8, <1>9, <1>10, <1>11, <1>12
  DEF CallStep, ClientStep, HandlerStep, CollectorStep, Outcomes

\* A step of the store changes no more of a call than what it has seen, or
\* ends it with the process.
LEMMA StoreObserved ==
    ASSUME ServerInv, StoreStep, NEW c \in Calls, calls'[c].pc # "free"
    PROVE  /\ calls[c] \in Call /\ calls'[c] \in Call /\ calls[c].pc # "free"
           /\ main' # "down"
           /\ calls'[c].pc = calls[c].pc /\ calls'[c].kind = calls[c].kind
           /\ calls'[c].tool = calls[c].tool /\ calls'[c].todo = calls[c].todo
           /\ calls'[c].ran = calls[c].ran /\ calls'[c].done = calls[c].done
           /\ calls'[c].refused = calls[c].refused
           /\ calls'[c].failed = calls[c].failed
           /\ calls'[c].reply = calls[c].reply
           /\ calls'[c].on = calls[c].on \cup (Tools \ Get'.disabled)
           /\ calls'[c].off = calls[c].off \cup Get'.disabled
<1>1. calls'[c] = IF main' = "down" THEN Free ELSE Observe(calls[c])
  BY DEF StoreStep
<1>2. calls'[c] \in Call \cup {Free}
  BY StoreStepInv DEF ServerInv
<1>3. calls'[c] \in Call
  BY <1>2 DEF Free
<1>4. main' # "down" /\ calls'[c] = Observe(calls[c])
  BY <1>1 DEF Free
<1>5. calls[c].pc # "free" /\ calls[c] \in Call
  BY <1>4, FreeOrCall DEF Observe, ServerInv
<1>6. DEFINE on == calls[c].on \cup (Tools \ Get'.disabled)
             off == calls[c].off \cup Get'.disabled
<1>7. calls'[c] = [calls[c] EXCEPT !.on = on, !.off = off]
  BY <1>4, <1>5 DEF Observe
<1> HIDE DEF on, off
<1>8. QED
  BY <1>3, <1>4, <1>5, <1>7 DEF Call, on, off

\* Every step of the server keeps every account right.
LEMMA NextAccountInv ==
    ServerInv /\ AccountInv /\ [ServerNext]_serverVars => AccountInv'
<1> SUFFICES ASSUME ServerInv, AccountInv, [ServerNext]_serverVars,
                    NEW c \in Calls, calls'[c].pc # "free"
             PROVE  AccountOK(calls'[c])
  BY DEF AccountInv
<1>0. calls[c].pc # "free" => AccountOK(calls[c])
  BY DEF AccountInv
<1>1. CASE StoreStep
  <2>1. calls[c] \in Call /\ AccountOK(calls[c]) /\ calls'[c] \in Call
    BY <1>0, <1>1, StoreObserved
  <2>2. QED
    BY <1>1, <2>1, StoreObserved, SameAccount
<1>2. ASSUME NEW d \in Calls, CallStep(d)
      PROVE  AccountOK(calls'[c])
  <2>1. CASE d = c
    BY <1>0, <1>2, <2>1, CallAccount
  <2>2. CASE d # c
    <3>1. calls'[c] = calls[c]
      BY <1>2, <2>2, OnlyThatCall
    <3>2. QED
      BY <1>0, <3>1
  <2>3. QED
    BY <2>1, <2>2
<1>3. CASE UNCHANGED serverVars
  BY <1>0, <1>3 DEF serverVars
<1>4. QED
  BY <1>1, <1>2, <1>3 DEF ServerNext

\* The inductive invariant of the account holds throughout.
THEOREM AccountsKept == ServerSpec => []AccountInv
<1>1. ServerInit => AccountInv
  BY DEF ServerInit, AccountInv, Free
<1>2. QED
  BY <1>1, NextAccountInv, ServerInvariant, PTL DEF ServerSpec

\* The answer of an aggregate accounts for every one of its collectors exactly
\* once, whatever was disabled, enabled again or failed while it ran.
THEOREM NothingOmitted == ServerSpec => []NoSilentOmission
<1>1. ServerInv /\ AccountInv => NoSilentOmission
  <2> SUFFICES ASSUME ServerInv, AccountInv, NEW c \in Calls,
                      calls[c].pc = "answered", ~Plain(calls[c].tool),
                      calls[c].reply = "value"
               PROVE  /\ Accounted(calls[c]) = Collectors(calls[c].tool)
                      /\ OnceOnly(calls[c])
    BY DEF NoSilentOmission, Accounted, OnceOnly
  <2>1. AtEnd(calls[c]) /\ Answers(calls[c])
    BY DEF AccountInv, AccountOK
  <2>2. calls[c].tool \notin calls[c].refused
    BY <2>1 DEF Answers, ToolReply, ResourceReply
  <2>3. QED
    BY <2>1, <2>2 DEF AtEnd
<1>2. QED
  BY <1>1, AccountsKept, ServerInvariant, PTL

-----------------------------------------------------------------------------
(* The refinement.  A step of the watched call is a step of the contract   *)
(* or changes nothing the contract sees.                                   *)

\* A step that leaves the watched slot alone stutters, and so does one from a
\* slot without a tool call to another.
LEMMA Stutters ==
    ASSUME \/ calls'[watched] = calls[watched]
           \/ NoToolCall /\ NoToolCall'
    PROVE  UNCHANGED Contract!contractVars
<1>1. Watched' = Watched /\ WatchedPhase' = WatchedPhase
  BY DEF Watched, WatchedPhase, NoToolCall
<1>2. QED
  BY <1>1 DEF Contract!contractVars

\* A request that comes in with the watched slot is opened under the policy in
\* force.
LEMMA InvokeOpens ==
    ASSUME ServerInv, NEW kind \in {"tool", "resource"}, NEW t \in Tools,
           Invoke(watched, kind, t)
    PROVE  Contract!Open \/ UNCHANGED Contract!contractVars
<1> DEFINE w == calls'[watched]
<1>1. /\ w.pc = "arm" /\ w.kind = kind /\ w.tool = t /\ w.reply = "none"
      /\ w.done = {} /\ w.refused = {} /\ w.failed = {}
      /\ w.on = Tools \ Get.disabled /\ w.off = Get.disabled
  BY NewRecord, WatchedAssumption DEF Invoke
<1>2. NoToolCall
  BY DEF Invoke, NoToolCall
<1>3. CASE kind = "resource"
  BY <1>1, <1>2, <1>3, Stutters DEF NoToolCall
<1>4. CASE kind = "tool"
  <2>1. Get.disabled \subseteq Tools
    BY GetType DEF ServerInv, StoreInv, Config
  <2>2. Watched = NoCall /\ WatchedPhase = "idle"
    BY <1>2 DEF Watched, WatchedPhase
  <2>3. Watched' = w /\ WatchedPhase' = "open"
    BY <1>1, <1>4 DEF Watched, WatchedPhase, NoToolCall
  <2>4. QED
    BY <1>1, <2>1, <2>2, <2>3 DEF Contract!Open, NoCall
<1>5. QED
  BY <1>3, <1>4

\* A step of the store is a change of policy for a call that is there before
\* and after it, and the end of the call when the process goes.
LEMMA StoreStepShown ==
    ASSUME ServerInv, StoreStep
    PROVE  \/ Contract!PolicyChanges \/ Contract!Close
           \/ UNCHANGED Contract!contractVars
<1> DEFINE w == calls[watched]
           v == calls'[watched]
<1>1. CASE v.pc = "free"
  <2>1. Watched' = NoCall /\ WatchedPhase' = "idle" /\ NoToolCall'
    BY <1>1 DEF Watched, WatchedPhase, NoToolCall
  <2>2. CASE NoToolCall
    BY <2>1, <2>2, Stutters
  <2>3. CASE ~NoToolCall
    <3>1. WatchedPhase # "idle"
      BY <2>3 DEF WatchedPhase
    <3>2. QED
      BY <2>1, <3>1 DEF Contract!Close, Contract!Idle, NoCall
  <2>4. QED
    BY <2>2, <2>3
<1>2. CASE v.pc # "free"
  <2>1. /\ w.pc # "free"
        /\ v.pc = w.pc /\ v.kind = w.kind /\ v.tool = w.tool
        /\ v.done = w.done /\ v.refused = w.refused /\ v.failed = w.failed
        /\ v.reply = w.reply /\ w.on \subseteq v.on /\ w.off \subseteq v.off
    BY <1>2, StoreObserved, WatchedAssumption
  <2>2. CASE w.kind = "resource"
    BY <2>1, <2>2, Stutters DEF NoToolCall
  <2>3. CASE w.kind # "resource"
    <3>1. /\ Watched = w /\ Watched' = v /\ WatchedPhase' = WatchedPhase
          /\ WatchedPhase # "idle"
      BY <1>2, <2>1, <2>3 DEF Watched, WatchedPhase, NoToolCall
    <3>2. QED
      BY <2>1, <3>1 DEF Contract!PolicyChanges
  <2>4. QED
    BY <2>2, <2>3
<1>3. QED
  BY <1>1, <1>2

\* The steps between arrival and delivery, for the record they make of a tool
\* call that is still open: the parts they settle were seen enabled or disabled.
LEMMA OpenCall ==
    ASSUME ServerInv, AccountInv, calls[watched].pc \notin {"free", "answered"},
           calls[watched].kind # "resource"
    PROVE  /\ calls[watched] \in Call /\ AccountOK(calls[watched])
           /\ Watched = calls[watched] /\ WatchedPhase = "open"
           /\ calls[watched].ran \subseteq calls[watched].on
           /\ Get.disabled \subseteq calls[watched].off
<1>1. calls[watched] \in Call /\ AccountOK(calls[watched])
  BY WatchedAssumption, FreeOrCall DEF ServerInv, AccountInv
<1>2. Watched = calls[watched] /\ WatchedPhase = "open"
  BY DEF Watched, WatchedPhase, NoToolCall
<1>3. /\ calls[watched].ran \subseteq calls[watched].on
      /\ Get.disabled \subseteq calls[watched].off
  BY WatchedAssumption DEF ServerInv, SeesPolicy, PolicyWindow
<1>4. QED
  BY <1>1, <1>2, <1>3

\* A step that settles part s of a call that stays open is Settle(s).
LEMMA SettleShown ==
    ASSUME ServerInv, AccountInv, calls[watched].pc \notin {"free", "answered"},
           calls[watched].kind # "resource",
           NEW v \in Call, calls'[watched] = v,
           v.pc \notin {"free", "answered"}, v.kind = calls[watched].kind,
           v.tool = calls[watched].tool, v.on = calls[watched].on,
           v.off = calls[watched].off, v.reply = calls[watched].reply,
           NEW s \in Tools, s \notin Accounted(calls[watched]),
           \/ /\ s \in calls[watched].on /\ v.refused = calls[watched].refused
              /\ v.done = calls[watched].done \cup {s}
              /\ \/ v.failed = calls[watched].failed
                 \/ s = v.tool /\ v.failed = calls[watched].failed \cup {s}
           \/ /\ s \in calls[watched].on /\ v.refused = calls[watched].refused
              /\ v.done = calls[watched].done
              /\ v.failed = calls[watched].failed \cup {s}
           \/ /\ s \in calls[watched].off /\ v.done = calls[watched].done
              /\ v.failed = calls[watched].failed
              /\ v.refused = calls[watched].refused \cup {s}
    PROVE  Contract!Settle(s)
<1>1. Watched = calls[watched] /\ WatchedPhase = "open"
  BY OpenCall
<1>2. Watched' = v /\ WatchedPhase' = "open"
  BY DEF Watched, WatchedPhase, NoToolCall
<1>3. QED
  BY <1>1, <1>2 DEF Contract!Settle, Contract!Settled, Accounted

\* The answer of a tool call is one the contract allows: a value when every part
\* is settled, an error when nothing was delivered.
LEMMA ReplyShown ==
    ASSUME ServerInv, AccountInv, Reply(watched), calls[watched].kind # "resource"
    PROVE  Contract!Answer
<1> DEFINE w == calls[watched]
           v == calls'[watched]
           part == [t \in Tools |-> IF Plain(t) THEN {t} ELSE Collectors(t)]
<1>1. /\ w \in Call /\ AccountOK(w) /\ w.pc = "reply" /\ w.tool \in Tools
      /\ Watched = w /\ WatchedPhase = "open" /\ w.kind = "tool"
  BY OpenCall DEF Reply, Call
<1>2. /\ v.pc = "answered" /\ v.kind = w.kind /\ v.tool = w.tool
      /\ v.on = w.on /\ v.off = w.off /\ v.done = w.done
      /\ v.refused = w.refused /\ v.failed = w.failed
      /\ v.reply = ToolReply(w)
  <2>1. v = [w EXCEPT !.reply = ToolReply(w), !.pc = "answered"]
    BY <1>1, NewRecord, WatchedAssumption DEF Reply
  <2>2. QED
    BY <1>1, <2>1 DEF Call
<1>3. Watched' = v /\ WatchedPhase' = "answered"
  BY <1>1, <1>2 DEF Watched, WatchedPhase, NoToolCall
<1>4. \/ /\ ToolReply(w) = "value" /\ Accounted(w) = part[w.tool]
         /\ w.tool \notin w.refused /\ (w.tool \in w.failed => w.tool \in w.done)
      \/ ToolReply(w) = "error" /\ w.done = {} /\ Accounted(w) = {w.tool}
  <2>1. AtEnd(w)
    BY <1>1 DEF AccountOK
  <2>2. ~Plain(w.tool) => w.tool \notin Collectors(w.tool)
    BY <1>1, PlanAssumption
  <2>3. part[w.tool] = IF Plain(w.tool) THEN {w.tool} ELSE Collectors(w.tool)
    BY <1>1
  <2> HIDE DEF part
  <2>4. QED
    BY <1>1, <2>1, <2>2, <2>3 DEF AtEnd, ToolReply, Accounted
<1>5. QED
  BY <1>1, <1>2, <1>3, <1>4 DEF Contract!Answer, Contract!Settled, Accounted

\* Every step of the watched call is a step of the contract or a stutter.
LEMMA CallStepShown ==
    ASSUME ServerInv, AccountInv, CallStep(watched)
    PROVE  Contract!ContractNext \/ UNCHANGED Contract!contractVars
<1> DEFINE w == calls[watched]
           v == calls'[watched]
<1>0. watched \in Calls
  BY WatchedAssumption
<1>1. ASSUME NEW kind \in {"tool", "resource"}, NEW t \in Tools,
             Invoke(watched, kind, t)
      PROVE  Contract!ContractNext \/ UNCHANGED Contract!contractVars
  BY <1>1, InvokeOpens DEF Contract!ContractNext
<1>2. CASE Delivered(watched)
  <2>1. v.pc = "free"
    BY <1>0, <1>2, NewRecord DEF Delivered, Free
  <2>2. Watched' = NoCall /\ WatchedPhase' = "idle" /\ NoToolCall'
    BY <2>1 DEF Watched, WatchedPhase, NoToolCall
  <2>3. CASE NoToolCall
    BY <2>2, <2>3, Stutters
  <2>4. CASE ~NoToolCall
    <3>1. WatchedPhase # "idle"
      BY <2>4 DEF WatchedPhase
    <3>2. QED
      BY <2>2, <3>1 DEF Contract!ContractNext, Contract!Close, Contract!Idle, NoCall
  <2>5. QED
    BY <2>3, <2>4
<1>3. ASSUME InFlight(watched), w.kind = "resource", v \in Call, v.kind = w.kind
      PROVE  UNCHANGED Contract!contractVars
  BY <1>3, Stutters DEF NoToolCall
<1>4. ASSUME InFlight(watched), w \in Call, v \in Call, v.kind = w.kind,
             v.pc \notin {"free", "answered"}, v.tool = w.tool, v.on = w.on,
             v.off = w.off, v.done = w.done, v.refused = w.refused,
             v.failed = w.failed, v.reply = w.reply
      PROVE  UNCHANGED Contract!contractVars
  <2>1. CASE w.kind = "resource"
    BY <1>3, <1>4, <2>1
  <2>2. CASE w.kind # "resource"
    <3>1. /\ Watched = w /\ Watched' = v
          /\ WatchedPhase = "open" /\ WatchedPhase' = "open"
      BY <1>4, <2>2 DEF Watched, WatchedPhase, NoToolCall, InFlight
    <3>2. QED
      BY <1>4, <3>1 DEF Contract!contractVars
  <2>3. QED
    BY <2>1, <2>2
<1>5. w.pc # "free" => w \in Call /\ AccountOK(w)
  BY <1>0, FreeOrCall DEF ServerInv, AccountInv
<1>6. v \in Call \cup {Free}
  BY <1>0, CallStepInv DEF ServerInv
<1>7. CASE Arm(watched)
  <2>1. v = [w EXCEPT !.pc = "gate",
                 !.ctx = IF w.kind = "tool" /\ ToolTimeout(w.tool) = "nonpositive"
                         THEN "done" ELSE @]
        /\ InFlight(watched) /\ w \in Call
    BY <1>0, <1>5, <1>7, NewRecord DEF Arm, InFlight
  <2>2. v \in Call
    BY <2>1 DEF Call, Phases
  <2>3. QED
    BY <1>4, <2>1, <2>2 DEF Call
<1>8. CASE Expire(watched) \/ Cancel(watched)
  <2>1. v = [w EXCEPT !.ctx = "done"] /\ InFlight(watched) /\ w \in Call
    BY <1>0, <1>5, <1>8, NewRecord DEF Expire, Cancel, InFlight
  <2>2. v \in Call
    BY <2>1 DEF Call, Phases
  <2>3. QED
    BY <1>4, <2>1, <2>2 DEF Call, InFlight
<1>9. CASE GateOpens(watched)
  <2>1. v = [w EXCEPT !.ran = {w.tool}, !.todo = Plan[w.tool],
                 !.pc = IF Plain(w.tool) THEN "gather" ELSE "section"]
        /\ InFlight(watched) /\ w \in Call
    BY <1>0, <1>5, <1>9, NewRecord DEF GateOpens, InFlight
  <2>2. v.pc # "free"
    BY <2>1 DEF Call
  <2>3. v \in Call
    BY <1>6, <2>2 DEF Free
  <2>4. QED
    BY <1>4, <2>1, <2>3 DEF Call
<1>10. CASE SectionStarts(watched)
  <2>1. v = [w EXCEPT !.ran = @ \cup {Head(w.todo)}, !.pc = "collect"]
        /\ InFlight(watched) /\ w \in Call
    BY <1>0, <1>5, <1>10, NewRecord DEF SectionStarts, InFlight
  <2>2. v.pc = "collect"
    BY <2>1 DEF Call
  <2>3. v \in Call
    BY <1>6, <2>2 DEF Free
  <2>4. QED
    BY <1>4, <2>1, <2>3 DEF Call
<1>11. CASE SectionsDone(watched)
  <2>1. v = [w EXCEPT !.pc = "reply"] /\ InFlight(watched) /\ w \in Call
    BY <1>0, <1>5, <1>11, NewRecord DEF SectionsDone, InFlight
  <2>2. v \in Call
    BY <2>1 DEF Call, Phases
  <2>3. QED
    BY <1>4, <2>1, <2>2 DEF Call
<1>12. CASE GateCloses(watched)
  <2>1. v = [w EXCEPT !.refused = {w.tool}, !.pc = "reply"]
        /\ InFlight(watched) /\ w \in Call /\ w.pc = "gate"
        /\ w.tool \in Get.disabled
    BY <1>0, <1>5, <1>12, NewRecord DEF GateCloses, InFlight, IsDisabled
  <2>a. v.pc = "reply"
    BY <2>1 DEF Call
  <2>2. v \in Call
    BY <1>6, <2>a DEF Free
  <2>3. CASE w.kind = "resource"
    BY <1>3, <2>1, <2>2, <2>3 DEF Call
  <2>4. CASE w.kind # "resource"
    <3>1. w.tool \in w.off
      BY <2>1, <2>4, OpenCall
    <3>2. Accounted(w) = {}
      BY <1>5, <2>1 DEF AccountOK, BeforeGate
    <3>3. /\ v.pc = "reply" /\ v.kind = w.kind /\ v.tool = w.tool /\ v.on = w.on
          /\ v.off = w.off /\ v.done = w.done /\ v.failed = w.failed
          /\ v.refused = w.refused \cup {w.tool} /\ v.reply = w.reply
          /\ w.tool \in Tools
      BY <2>1, <3>2 DEF Call, Accounted
    <3>4. Contract!Settle(w.tool)
      BY <2>1, <2>2, <2>4, <3>1, <3>2, <3>3, SettleShown
    <3>5. QED
      BY <3>3, <3>4 DEF Contract!ContractNext
  <2>5. QED
    BY <2>3, <2>4
<1>13. CASE SectionSkipped(watched)
  <2> DEFINE s == Head(w.todo)
  <2>1. v = [w EXCEPT !.refused = @ \cup {s}, !.todo = Tail(@)]
        /\ InFlight(watched) /\ w \in Call /\ w.pc = "section"
        /\ s \in Get.disabled /\ w.todo # <<>>
    BY <1>0, <1>5, <1>13, NewRecord DEF SectionSkipped, InFlight, IsDisabled
  <2>2. /\ v.pc = "section" /\ v.kind = w.kind /\ v.tool = w.tool /\ v.on = w.on
        /\ v.off = w.off /\ v.done = w.done /\ v.failed = w.failed
        /\ v.refused = w.refused \cup {s} /\ v.reply = w.reply
    BY <2>1 DEF Call
  <2>3. v \in Call
    BY <1>6, <2>2 DEF Free
  <2>4. CASE w.kind = "resource"
    BY <1>3, <2>1, <2>2, <2>3, <2>4
  <2>5. CASE w.kind # "resource"
    <3>1. s \in w.off
      BY <2>1, <2>5, OpenCall
    <3>2. s \in Tools /\ s \notin Accounted(w)
      BY <1>5, <2>1, NextCollector
    <3>3. Contract!Settle(s)
      BY <2>1, <2>2, <2>3, <2>5, <3>1, <3>2, SettleShown
    <3>4. QED
      BY <3>2, <3>3 DEF Contract!ContractNext
  <2>6. QED
    BY <2>4, <2>5
<1>14. ASSUME NEW outcome \in Outcomes, CollectReturns(watched, outcome)
       PROVE  Contract!ContractNext \/ UNCHANGED Contract!contractVars
  <2> DEFINE s == Head(w.todo)
  <2>1. v = [w EXCEPT !.done = IF outcome = "ok" THEN @ \cup {s} ELSE @,
                      !.failed = IF outcome = "ok" THEN @ ELSE @ \cup {s},
                      !.todo = Tail(@), !.pc = "section"]
        /\ InFlight(watched) /\ w \in Call /\ w.pc = "collect"
        /\ w.todo # <<>>
    BY <1>0, <1>5, <1>14, NewRecord
    DEF CollectReturns, InFlight, ServerInv, CollectHasHead
  <2>2. /\ v.pc = "section" /\ v.kind = w.kind /\ v.tool = w.tool /\ v.on = w.on
        /\ v.off = w.off /\ v.refused = w.refused /\ v.reply = w.reply
        /\ \/ v.done = w.done \cup {s} /\ v.failed = w.failed
           \/ v.done = w.done /\ v.failed = w.failed \cup {s}
    BY <2>1 DEF Call
  <2>3. v \in Call
    BY <1>6, <2>2 DEF Free
  <2>4. CASE w.kind = "resource"
    BY <1>3, <2>1, <2>2, <2>3, <2>4
  <2>5. CASE w.kind # "resource"
    <3>1. s \in w.on
      BY <1>5, <2>1, <2>5, OpenCall DEF AccountOK, LetThrough
    <3>2. s \in Tools /\ s \notin Accounted(w)
      BY <1>5, <2>1, NextCollector
    <3>3. Contract!Settle(s)
      BY <2>1, <2>2, <2>3, <2>5, <3>1, <3>2, SettleShown
    <3>4. QED
      BY <3>2, <3>3 DEF Contract!ContractNext
  <2>6. QED
    BY <2>4, <2>5
<1>15. ASSUME NEW outcome \in Outcomes, GatherReturns(watched, outcome)
       PROVE  Contract!ContractNext \/ UNCHANGED Contract!contractVars
  <2>1. v = [w EXCEPT !.done = IF outcome = "failed" THEN @ ELSE {w.tool},
                      !.failed = IF outcome = "ok" THEN @ ELSE {w.tool},
                      !.pc = "reply"]
        /\ InFlight(watched) /\ w \in Call /\ w.pc = "gather"
    BY <1>0, <1>5, <1>15, NewRecord DEF GatherReturns, InFlight
  <2>2. /\ w.tool \in Tools /\ Accounted(w) = {} /\ w.tool \in w.ran
        /\ w.done = {} /\ w.failed = {}
    BY <1>5, <2>1 DEF AccountOK, BeforeGate, LetThrough, Accounted, Call
  <2>3. /\ v.pc = "reply" /\ v.kind = w.kind /\ v.tool = w.tool /\ v.on = w.on
        /\ v.off = w.off /\ v.refused = w.refused /\ v.reply = w.reply
        /\ \/ v.done = w.done \cup {w.tool} /\ v.failed = w.failed
           \/ v.done = w.done \cup {w.tool} /\ v.failed = w.failed \cup {w.tool}
           \/ v.done = w.done /\ v.failed = w.failed \cup {w.tool}
    BY <2>1, <2>2 DEF Call, Outcomes
  <2>4. v \in Call
    BY <1>6, <2>3 DEF Free
  <2>5. CASE w.kind = "resource"
    BY <1>3, <2>1, <2>3, <2>4, <2>5
  <2>6. CASE w.kind # "resource"
    <3>1. w.tool \in w.on
      BY <2>1, <2>2, <2>6, OpenCall
    <3>2. Contract!Settle(w.tool)
      BY <2>1, <2>2, <2>3, <2>4, <2>6, <3>1, SettleShown
    <3>3. QED
      BY <2>2, <3>2 DEF Contract!ContractNext
  <2>7. QED
    BY <2>5, <2>6
<1>16. CASE Reply(watched)
  <2>1. CASE w.kind # "resource"
    BY <1>16, <2>1, ReplyShown DEF Contract!ContractNext
  <2>2. CASE w.kind = "resource"
    <3>1. v = [w EXCEPT !.reply = ResourceReply(w), !.pc = "answered"]
          /\ InFlight(watched) /\ w \in Call
      BY <1>0, <1>5, <1>16, <2>2, NewRecord DEF Reply, InFlight
    <3>2. v.kind = w.kind /\ v.pc = "answered"
      BY <3>1 DEF Call
    <3>3. v \in Call
      BY <1>6, <3>2 DEF Free
    <3>4. QED
      BY <1>3, <2>2, <3>1, <3>2, <3>3
  <2>3. QED
    BY <2>1, <2>2
<1>17. QED
  BY <1>1, <1>2, <1>7, <1>8, <1>9, <1>10, <1>11, <1>12, <1>13, <1>14, <1>15, <1>16
  DEF CallStep, ClientStep, HandlerStep, CollectorStep

\* Every step of the server shows the contract a step of its own or nothing.
LEMMA NextShown ==
    ServerInv /\ AccountInv /\ [ServerNext]_serverVars
        => [Contract!ContractNext]_(Contract!contractVars)
<1> SUFFICES ASSUME ServerInv, AccountInv, [ServerNext]_serverVars
             PROVE  Contract!ContractNext \/ UNCHANGED Contract!contractVars
  OBVIOUS
<1>1. CASE StoreStep
  BY <1>1, StoreStepShown DEF Contract!ContractNext
<1>2. ASSUME NEW d \in Calls, CallStep(d)
      PROVE  Contract!ContractNext \/ UNCHANGED Contract!contractVars
  <2>1. CASE d = watched
    BY <1>2, <2>1, CallStepShown
  <2>2. CASE d # watched
    BY <1>2, <2>2, OnlyThatCall, Stutters, WatchedAssumption
  <2>3. QED
    BY <2>1, <2>2
<1>3. CASE UNCHANGED serverVars
  BY <1>3, Stutters DEF serverVars
<1>4. QED
  BY <1>1, <1>2, <1>3 DEF ServerNext

\* The request path implements the contract of a tool call, for any number of
\* concurrent requests, any plan and any sequence of reloads: handlers, gates,
\* collectors, deadlines and cancellations keep what CallContract promises.
THEOREM ContractKept == ServerSpec => KeepsContract
<1>1. ServerInit => Contract!Idle
  <2> SUFFICES ASSUME ServerInit PROVE Contract!Idle
    OBVIOUS
  <2>1. calls[watched].pc = "free"
    BY WatchedAssumption DEF ServerInit, Free
  <2>2. Watched = NoCall /\ WatchedPhase = "idle"
    BY <2>1 DEF Watched, WatchedPhase, NoToolCall
  <2>3. QED
    BY <2>2 DEF Contract!Idle, NoCall
<1>2. QED
  BY <1>1, NextShown, ServerInvariant, AccountsKept, PTL
  DEF ServerSpec, KeepsContract, Contract!ContractSpec
=============================================================================
