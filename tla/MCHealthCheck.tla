--------------------------- MODULE MCHealthCheck ---------------------------
(* Model-checking instance of HealthCheck: readings on both sides of every  *)
(* threshold.                                                               *)
EXTENDS HealthCheck

MCPolicies == {{}, {"memory_info", "systemd_units"}, {"cpu_info"}}
=============================================================================
