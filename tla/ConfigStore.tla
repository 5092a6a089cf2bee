---------------------------- MODULE ConfigStore ----------------------------
(***************************************************************************)
(* The configuration store of linux-mcp (config/config.go) together with   *)
(* the two goroutines of main.go that own it: the main goroutine, which    *)
(* loads the configuration once at startup, and the reload goroutine,      *)
(* which re-reads the file whenever a SIGHUP comes out of sigCh.           *)
(*                                                                         *)
(* What is abstracted: a log level is its name, a timeout is reduced to    *)
(* what WithToolTimeout tells apart (not configured, unparseable, zero or  *)
(* negative, positive), and a file that is not a usable JSON document is   *)
(* one of three values.  The operator who edits the file and sends         *)
(* signals, and the MCP client that starts and stops the process, are the  *)
(* environment.                                                            *)
(***************************************************************************)
EXTENDS Naturals

CONSTANTS
    Tools,        \* the names a configuration can mention (config.ToolName...)
    Editions,     \* the file contents the operator may put in place
    Absent,       \* no file at the path: os.ReadFile gives ErrNotExist
    Unreadable,   \* any other error of os.ReadFile
    Malformed,    \* readable, but json.Unmarshal fails (a half-written file)
    NoConfig      \* the nil of atomic.Value, and of a reload holding nothing

Levels == {"debug", "info", "warn", "error"}

RawLevels == Levels \cup {"missing", "bogus"}

\* What a timeouts entry parses to: "unset" is a missing key.
Durations == {"unset", "nonpositive", "positive"}

RawDurations == Durations \cup {"garbage"}

Config == [level    : Levels,
           timeouts : [Tools -> Durations],
           disabled : SUBSET Tools]

RawConfig == [level    : RawLevels,
              timeouts : [Tools -> RawDurations],
              disabled : SUBSET Tools]

FileContents == RawConfig \cup {Absent, Unreadable, Malformed}

ASSUME ContentsAssumption ==
    /\ {Absent, Unreadable, Malformed} \cap RawConfig = {}
    /\ Absent # Unreadable /\ Absent # Malformed
    /\ NoConfig \notin Config
    /\ Editions \subseteq FileContents

VARIABLES
    file,        \* what is at the configuration path
    filePath,    \* "none" when the process runs without a path, else "path"
    current,     \* the atomic.Value holding the active *Config
    main,        \* where the main goroutine is
    sigCh,       \* number of signals buffered in sigCh
    reloader,    \* where the reload goroutine is
    loaded,      \* the *Config Reload has read and not yet stored
    slogLevel,   \* the level of the default slog handler
    request      \* history: "made" by a SIGHUP to sigCh since the last edit

vars == <<file, filePath, current, main, sigCh, reloader, loaded, slogLevel,
          request>>

-----------------------------------------------------------------------------
(* The pure part of config.go.                                             *)

defaultConfig == [level    |-> "info",
                  timeouts |-> [t \in Tools |-> "positive"],
                  disabled |-> {}]

\* The accepting half of loadFile: a missing level is replaced by the default.
Normalise(raw) ==
    [raw EXCEPT !.level = IF @ = "missing" THEN defaultConfig.level ELSE @]

\* Mutant of validate: the loop over the timeouts is forgotten.
ValidateLevelOnly(c) == c.level \in Levels

\* A zero or negative duration parses, so validate lets it through.
validate(c) ==
    /\ c.level \in Levels
    /\ \A t \in Tools : c.timeouts[t] \in Durations

\* loadFile(path) returns no error for these contents.
Loads(contents) ==
    /\ contents \notin {Absent, Unreadable, Malformed}
    /\ validate(Normalise(contents))

Get == IF current = NoConfig THEN defaultConfig ELSE current

\* Every handler passes fallback 0, and the default table names every tool.
ToolTimeout(name) ==
    IF Get.timeouts[name] # "unset" THEN Get.timeouts[name]
                                    ELSE defaultConfig.timeouts[name]

IsDisabled(name) == name \in Get.disabled

parseLogLevel(s) == IF s \in Levels THEN s ELSE "info"

-----------------------------------------------------------------------------
(* The main goroutine, started by the client.                              *)

MainPhases == {"down", "load", "logging", "register", "serve"}

\* The buffer size of sigCh.
SigChCap == 1

\* Process exit, from whichever cause: every variable of the process is lost.
ProcessGone ==
    /\ main' = "down"
    /\ filePath' = "none" /\ current' = NoConfig /\ loaded' = NoConfig
    /\ sigCh' = 0 /\ reloader' = "idle" /\ slogLevel' = "info"
    /\ request' = "none"
    /\ UNCHANGED file

Init ==
    /\ file \in Editions
    /\ main = "down"
    /\ filePath = "none" /\ current = NoConfig /\ loaded = NoConfig
    /\ sigCh = 0 /\ reloader = "idle" /\ slogLevel = "info"
    /\ request = "none"

\* The MCP client spawns the server.
Start ==
    /\ main = "down"
    /\ main' = "load"
    /\ UNCHANGED <<file, filePath, current, sigCh, reloader, loaded,
                   slogLevel, request>>

\* envPath() gave no path: the defaults are active and filePath stays empty.
LoadWithoutPath ==
    /\ main = "load"
    /\ current' = defaultConfig
    /\ main' = "logging"
    /\ UNCHANGED <<file, filePath, sigCh, reloader, loaded, slogLevel,
                   request>>

\* loadAtPath(path): a missing file is not an error, a bad one is.
LoadAtPath ==
    /\ main = "load"
    /\ file = Absent \/ Loads(file)
    /\ filePath' = "path"
    /\ current' = IF file = Absent THEN defaultConfig ELSE Normalise(file)
    /\ main' = "logging"
    /\ UNCHANGED <<file, sigCh, reloader, loaded, slogLevel, request>>

\* os.Exit(1) after "config load failed".
LoadFails ==
    /\ main = "load"
    /\ file # Absent /\ ~Loads(file)
    /\ ProcessGone

SetupLogging ==
    /\ main = "logging"
    /\ slogLevel' = parseLogLevel(Get.level)
    /\ main' = "register"
    /\ UNCHANGED <<file, filePath, current, sigCh, reloader, loaded, request>>

\* Tools and resources are registered, sigCh is connected to SIGHUP and the
\* reload goroutine runs.
NotifyAndServe ==
    /\ main = "register"
    /\ main' = "serve"
    /\ UNCHANGED <<file, filePath, current, sigCh, reloader, loaded, slogLevel,
                   request>>

\* server.Run returns: the client closed the transport.
RunReturns ==
    /\ main = "serve"
    /\ ProcessGone

-----------------------------------------------------------------------------
(* The operator.                                                           *)

Edit ==
    /\ file' \in Editions \ {file}
    /\ request' = "none"
    /\ UNCHANGED <<filePath, current, main, sigCh, reloader, loaded, slogLevel>>

\* Before signal.Notify the default disposition of SIGHUP ends the process.
SighupKills ==
    /\ main \in {"load", "logging", "register"}
    /\ ProcessGone

\* Mutant of SighupQueued: sigCh unbuffered, a signal finds a receiver or is
\* dropped by the runtime.
SighupUnbuffered ==
    /\ main = "serve"
    /\ sigCh' = IF reloader = "idle" THEN 1 ELSE sigCh
    /\ request' = "made"
    /\ UNCHANGED <<file, filePath, current, main, reloader, loaded, slogLevel>>

\* Mutant of SighupQueued: every signal is kept.
SighupUncapped ==
    /\ main = "serve" /\ sigCh <= SigChCap
    /\ sigCh' = sigCh + 1
    /\ request' = "made"
    /\ UNCHANGED <<file, filePath, current, main, reloader, loaded, slogLevel>>

\* The runtime's send to sigCh never blocks: with the buffer full the signal
\* is merged with the one that waits there.
SighupQueued ==
    /\ main = "serve"
    /\ sigCh' = IF sigCh < SigChCap THEN sigCh + 1 ELSE sigCh
    /\ request' = "made"
    /\ UNCHANGED <<file, filePath, current, main, reloader, loaded, slogLevel>>

-----------------------------------------------------------------------------
(* The reload goroutine.                                                   *)

ReceiveSignal ==
    /\ main = "serve" /\ reloader = "idle" /\ sigCh > 0
    /\ sigCh' = sigCh - 1
    /\ reloader' = "read"
    /\ UNCHANGED <<file, filePath, current, main, loaded, slogLevel, request>>

\* Reload() without a path: nil at once, so setupLogging still follows.
ReloadNothing ==
    /\ main = "serve" /\ reloader = "read"
    /\ filePath = "none"
    /\ reloader' = "logging"
    /\ UNCHANGED <<file, filePath, current, main, sigCh, loaded, slogLevel,
                   request>>

\* loadFile succeeded: the new configuration is in hand, not yet active.
ReloadRead ==
    /\ main = "serve" /\ reloader = "read"
    /\ filePath # "none"
    /\ Loads(file)
    /\ loaded' = Normalise(file)
    /\ reloader' = "store"
    /\ UNCHANGED <<file, filePath, current, main, sigCh, slogLevel, request>>

\* loadFile failed, a missing file included: "config reload failed".
ReloadFails ==
    /\ main = "serve" /\ reloader = "read"
    /\ filePath # "none"
    /\ ~Loads(file)
    /\ reloader' = "idle"
    /\ UNCHANGED <<file, filePath, current, main, sigCh, loaded, slogLevel,
                   request>>

\* Mutant of ReloadStore: the goroutine goes back to the channel without
\* setupLogging.
ReloadStoreOnly ==
    /\ main = "serve" /\ reloader = "store"
    /\ current' = loaded
    /\ loaded' = NoConfig
    /\ reloader' = "idle"
    /\ UNCHANGED <<file, filePath, main, sigCh, slogLevel, request>>

ReloadStore ==
    /\ main = "serve" /\ reloader = "store"
    /\ current' = loaded
    /\ loaded' = NoConfig
    /\ reloader' = "logging"
    /\ UNCHANGED <<file, filePath, main, sigCh, slogLevel, request>>

ReloadLogging ==
    /\ main = "serve" /\ reloader = "logging"
    /\ slogLevel' = parseLogLevel(Get.level)
    /\ reloader' = "idle"
    /\ UNCHANGED <<file, filePath, current, main, sigCh, loaded, request>>

-----------------------------------------------------------------------------
MainStep == LoadWithoutPath \/ LoadAtPath \/ LoadFails \/ SetupLogging
                \/ NotifyAndServe

ReloadStep == ReceiveSignal \/ ReloadNothing \/ ReloadRead \/ ReloadFails
                \/ ReloadStore \/ ReloadLogging

Operator == Edit \/ SighupKills \/ SighupQueued

Next == Start \/ RunReturns \/ MainStep \/ ReloadStep \/ Operator

\* The Go scheduler runs a runnable goroutine again: a started process gets
\* through its startup and the reload goroutine goes on.  Nothing is assumed
\* of the client and of the operator.
Fairness == WF_vars(MainStep) /\ WF_vars(ReloadStep)

Spec == Init /\ [][Next]_vars /\ Fairness

-----------------------------------------------------------------------------
TypeOK ==
    /\ file \in FileContents
    /\ filePath \in {"none", "path"}
    /\ current \in Config \cup {NoConfig}
    /\ main \in MainPhases
    /\ sigCh \in 0..SigChCap
    /\ reloader \in {"idle", "read", "store", "logging"}
    /\ loaded \in Config \cup {NoConfig}
    /\ slogLevel \in Levels
    /\ request \in {"none", "made"}

\* The reload machinery has nothing left to do.
Settled == main = "serve" /\ sigCh = 0 /\ reloader = "idle"

\* "Invalid configuration prevents startup ... a failed reload retains the
\* last valid configuration" (README.md): once the tools are being served a
\* configuration that passed validate is active, and the one a reload is about
\* to store passed it as well.
ValidConfigServed ==
    /\ main \in {"logging", "register", "serve"} => current \in Config
    /\ reloader = "store" => loaded \in Config

\* No SIGHUP is lost.  The buffer of sigCh holds one signal and merges the
\* others into it, and a signal can arrive between any two steps of a reload
\* in progress; still, when a SIGHUP followed the last edit and the reloader
\* has come to rest, the edition on disk is the active configuration.
NoLostReload ==
    Settled /\ filePath # "none" /\ request = "made" /\ Loads(file)
        => current = Normalise(file)

\* The level of the log handler is the level of the active configuration,
\* except between the store of a reload and the setupLogging that follows it
\* and before the first setupLogging.
LevelFollowsConfig ==
    main \in {"register", "serve"} /\ reloader # "logging"
        => slogLevel = Get.level

\* A reload asked for after an edit happens: the edition becomes active,
\* together with its log level, unless it is replaced or the process ends.
ReloadConverges ==
    (main = "serve" /\ filePath # "none" /\ request = "made" /\ Loads(file))
        ~> \/ Loads(file) /\ current = Normalise(file) /\ slogLevel = Get.level
           \/ main # "serve"
           \/ request = "none"
=============================================================================
