---------------------------- MODULE CallContract ----------------------------
(***************************************************************************)
(* What a tool call promises its client, independently of how handlers,    *)
(* gates and the configuration store bring it about.                       *)
(*                                                                         *)
(* A call is settled part by part.  A part is delivered or fails only if   *)
(* the policy enabled it at some moment of the call, and is refused only   *)
(* if the policy disabled it at some moment of the call.  A settled part   *)
(* is never reconsidered, and the call is answered with a value only when  *)
(* every part is settled, with an error only when nothing was delivered.   *)
(***************************************************************************)
CONSTANTS
    Names,      \* the tools
    Parts       \* Parts[t]: what an answer of t accounts for ({t} if plain)

VARIABLES
    phase,      \* "idle", "open" or "answered"
    tool,       \* the tool called
    on, off,    \* the names seen enabled, respectively disabled, by the call
    delivered, refused, failed,
    answer

contractVars == <<phase, tool, on, off, delivered, refused, failed, answer>>

Settled == delivered \cup refused \cup failed

Idle == /\ phase = "idle" /\ tool = "none"
        /\ on = {} /\ off = {}
        /\ delivered = {} /\ refused = {} /\ failed = {}
        /\ answer = "none"

Open == /\ phase = "idle" /\ phase' = "open"
        /\ tool' \in Names
        /\ on' \cup off' = Names
        /\ on' \cap off' = {}
        /\ UNCHANGED <<delivered, refused, failed, answer>>

PolicyChanges ==
    /\ phase # "idle"
    /\ on \subseteq on' /\ off \subseteq off'
    /\ UNCHANGED <<phase, tool, delivered, refused, failed, answer>>

\* A plain tool may deliver an output and fail at once: a partial output.
Settle(s) ==
    /\ phase = "open"
    /\ s \notin Settled
    /\ \/ s \in on /\ delivered' = delivered \cup {s}
           /\ failed' \in {failed} \cup (IF s = tool THEN {failed \cup {s}} ELSE {})
           /\ UNCHANGED refused
       \/ s \in on /\ failed' = failed \cup {s}
           /\ UNCHANGED <<delivered, refused>>
       \/ s \in off /\ refused' = refused \cup {s}
           /\ UNCHANGED <<delivered, failed>>
    /\ UNCHANGED <<phase, tool, on, off, answer>>

Answer ==
    /\ phase = "open" /\ phase' = "answered"
    /\ \/ answer' = "value" /\ Settled = Parts[tool] /\ tool \notin refused
           /\ (tool \in failed => tool \in delivered)
       \/ answer' = "error" /\ delivered = {} /\ Settled = {tool}
    /\ UNCHANGED <<tool, on, off, delivered, refused, failed>>

\* The answer has left, or the process has gone.
Close == phase # "idle" /\ Idle'

ContractNext == Open \/ PolicyChanges \/ Answer \/ Close
                  \/ \E s \in Names : Settle(s)

ContractSpec == Idle /\ [][ContractNext]_contractVars
=============================================================================
