---------------------------- MODULE MCToolServer ----------------------------
(* Model-checking instance of ToolServer: an aggregate (snap) over a        *)
(* collector that ignores its context (mem) and one that honours it         *)
(* (docker); every edition an operator can switch between is a valid one.   *)
EXTENDS ToolServerRefinement

CONSTANTS snap, mem, docker

Raw(level, timeouts, disabled) ==
    [level |-> level, timeouts |-> timeouts, disabled |-> disabled]

MCEditions ==
    {Raw("info", [t \in Tools |-> "unset"], {}),
     Raw("info", [t \in Tools |-> "positive"], {mem}),
     Raw("info", [t \in Tools |-> "nonpositive"], {docker, snap})}

MCPlan == [t \in Tools |-> IF t = snap THEN <<mem, docker>> ELSE <<>>]
=============================================================================
