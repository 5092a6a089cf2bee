------------------------ MODULE ToolServerRefinement ------------------------
(* The request path implements CallContract: the refinement mapping for one *)
(* of the calls.  Calls are alike, so the choice of the call is immaterial. *)
(* The contract is that of tool calls: a resource read is none.             *)
EXTENDS ToolServer

CONSTANT watched

ASSUME WatchedAssumption == watched \in Calls

NoToolCall == \/ calls[watched].pc = "free"
              \/ calls[watched].kind = "resource"

\* What the contract sees while there is no call.
NoCall == [tool |-> "none", on |-> {}, off |-> {}, done |-> {}, refused |-> {},
           failed |-> {}, reply |-> "none"]

Watched == IF NoToolCall THEN NoCall ELSE calls[watched]

WatchedPhase == IF NoToolCall THEN "idle"
                ELSE IF calls[watched].pc = "answered" THEN "answered" ELSE "open"

Contract == INSTANCE CallContract WITH
    Names     <- Tools,
    Parts     <- [t \in Tools |-> IF Plain(t) THEN {t} ELSE Collectors(t)],
    phase     <- WatchedPhase,
    tool      <- Watched.tool,
    on        <- Watched.on,
    off       <- Watched.off,
    delivered <- Watched.done,
    refused   <- Watched.refused,
    failed    <- Watched.failed,
    answer    <- Watched.reply

\* Handlers, gates and collectors, with reloads of the configuration between
\* any two of their steps, keep the contract of a call: no part is settled
\* twice or against the policy the call has seen, and none is left out of an
\* answer that carries a value.
KeepsContract == Contract!ContractSpec
=============================================================================
