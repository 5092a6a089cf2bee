--------------------------- MODULE MCConfigStore ---------------------------
(* Model-checking instance of ConfigStore: one tool, and one edition for    *)
(* each way a configuration file can differ from the point of view of the   *)
(* loader.                                                                  *)
EXTENDS ConfigStore

Raw(level, timeout, disabled) ==
    [level |-> level, timeouts |-> [t \in Tools |-> timeout],
     disabled |-> disabled]

MCEditions ==
    {Absent, Unreadable, Malformed,
     Raw("missing", "unset", {}),              \* {} or null: everything by default
     Raw("debug", "positive", Tools),
     Raw("warn", "nonpositive", {}),
     Raw("bogus", "positive", {}),
     Raw("error", "garbage", Tools)}
=============================================================================
