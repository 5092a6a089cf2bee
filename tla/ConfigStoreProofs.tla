------------------------- MODULE ConfigStoreProofs -------------------------
(***************************************************************************)
(* Theorems about ConfigStore, for every set of tools and every set of     *)
(* editions: type correctness, that only validated configurations are      *)
(* served, that no SIGHUP is lost and that the log level follows the       *)
(* active configuration.                                                   *)
(***************************************************************************)
EXTENDS ConfigStore, TLAPS

\* Nothing of a process survives it, and before signal.Notify no signal can
\* be waiting.
QuietBeforeServe ==
    main # "serve" => sigCh = 0 /\ reloader = "idle" /\ request = "none"

\* NoLostReload followed back through the steps of a reload: with no signal
\* waiting, the edition on disk is on its way (read by the reload in progress)
\* or already active.
FreshReload ==
    main = "serve" /\ filePath # "none" /\ request = "made" /\ sigCh = 0 /\ Loads(file)
        => /\ reloader = "store" => loaded = Normalise(file)
           /\ reloader \in {"idle", "logging"} => current = Normalise(file)

\* The inductive invariant of the configuration store.
StoreInv == /\ TypeOK
            /\ ValidConfigServed
            /\ QuietBeforeServe
            /\ FreshReload
            /\ LevelFollowsConfig

-----------------------------------------------------------------------------
\* The built-in configuration is a configuration.
LEMMA DefaultConfigType == defaultConfig \in Config
  BY DEF defaultConfig, Config, Levels, Durations

\* What loadFile accepts is, once normalised, a configuration: the loader's
\* checks are enough for everything that later reads the store.
LEMMA NormaliseType ==
    ASSUME NEW contents \in FileContents, Loads(contents)
    PROVE  Normalise(contents) \in Config
<1>1. contents \in RawConfig
  BY DEF Loads, FileContents
<1>2. Normalise(contents) \in RawConfig
  BY <1>1 DEF Normalise, RawConfig, RawLevels, Levels, defaultConfig
<1>3. validate(Normalise(contents))
  BY DEF Loads
<1>4. QED
  BY <1>2, <1>3 DEF validate, RawConfig, Config

\* Get never fails: it falls back on the built-in configuration.
LEMMA GetType == TypeOK => Get \in Config
  BY DefaultConfigType DEF TypeOK, Get

\* Parsing the level of a configuration gives that level back.
LEMMA ParseLevel == \A l \in Levels : parseLogLevel(l) = l
  BY DEF parseLogLevel

-----------------------------------------------------------------------------
\* The initial states satisfy the inductive invariant.
LEMMA InitStoreInv == Init => StoreInv
<1> SUFFICES ASSUME Init PROVE StoreInv
  OBVIOUS
<1>1. TypeOK
  BY ContentsAssumption DEF Init, TypeOK, MainPhases, SigChCap, Levels
<1>2. ValidConfigServed /\ QuietBeforeServe /\ FreshReload
        /\ LevelFollowsConfig
  BY DEF Init, ValidConfigServed, QuietBeforeServe, FreshReload,
         LevelFollowsConfig
<1>3. QED
  BY <1>1, <1>2 DEF StoreInv

\* Whatever ends a process re-establishes the inductive invariant.
LEMMA GoneStoreInv == StoreInv /\ ProcessGone => StoreInv'
<1> SUFFICES ASSUME StoreInv, ProcessGone PROVE StoreInv'
  OBVIOUS
<1>1. TypeOK'
  BY DEF StoreInv, ProcessGone, TypeOK, MainPhases, SigChCap, Levels
<1>2. (ValidConfigServed /\ QuietBeforeServe /\ FreshReload
        /\ LevelFollowsConfig)'
  BY DEF ProcessGone, ValidConfigServed, QuietBeforeServe, FreshReload,
         LevelFollowsConfig
<1>3. QED
  BY <1>1, <1>2 DEF StoreInv

\* Every step preserves the inductive invariant.
LEMMA NextStoreInv == StoreInv /\ [Next]_vars => StoreInv'
<1> SUFFICES ASSUME StoreInv, [Next]_vars PROVE StoreInv'
  OBVIOUS
<1>0. TypeOK /\ ValidConfigServed /\ QuietBeforeServe /\ FreshReload
        /\ LevelFollowsConfig
  BY DEF StoreInv
<1>1. CASE Start
  <2>1. TypeOK'
    BY <1>0, <1>1 DEF Start, TypeOK, MainPhases
  <2>2. (ValidConfigServed /\ QuietBeforeServe)'
    BY <1>0, <1>1 DEF Start, ValidConfigServed, QuietBeforeServe
  <2>3. FreshReload'
    BY <1>0, <1>1 DEF Start, FreshReload, QuietBeforeServe
  <2>4. LevelFollowsConfig'
    BY <1>0, <1>1 DEF Start, LevelFollowsConfig, QuietBeforeServe, Get
  <2>5. QED
    BY <2>1, <2>2, <2>3, <2>4 DEF StoreInv
<1>2. CASE LoadWithoutPath
  <2>1. TypeOK'
    BY <1>0, <1>2, DefaultConfigType
    DEF LoadWithoutPath, TypeOK, MainPhases
  <2>2. (ValidConfigServed /\ QuietBeforeServe)'
    BY <1>0, <1>2, DefaultConfigType
    DEF LoadWithoutPath, ValidConfigServed, QuietBeforeServe
  <2>3. FreshReload'
    BY <1>0, <1>2 DEF LoadWithoutPath, FreshReload, QuietBeforeServe
  <2>4. LevelFollowsConfig'
    BY <1>0, <1>2 DEF LoadWithoutPath, LevelFollowsConfig, QuietBeforeServe, Get
  <2>5. QED
    BY <2>1, <2>2, <2>3, <2>4 DEF StoreInv
<1>3. CASE LoadAtPath
  <2>1. TypeOK'
    BY <1>0, <1>3, DefaultConfigType, NormaliseType
    DEF LoadAtPath, TypeOK, MainPhases
  <2>2. (ValidConfigServed /\ QuietBeforeServe)'
    BY <1>0, <1>3, DefaultConfigType, NormaliseType
    DEF LoadAtPath, TypeOK, ValidConfigServed, QuietBeforeServe
  <2>3. FreshReload'
    BY <1>0, <1>3 DEF LoadAtPath, FreshReload, QuietBeforeServe
  <2>4. LevelFollowsConfig'
    BY <1>0, <1>3 DEF LoadAtPath, LevelFollowsConfig, QuietBeforeServe, Get
  <2>5. QED
    BY <2>1, <2>2, <2>3, <2>4 DEF StoreInv
<1>4. CASE SetupLogging
  <2>1. TypeOK'
    BY <1>0, <1>4, GetType, ParseLevel DEF SetupLogging, TypeOK, MainPhases, Config
  <2>2. (ValidConfigServed /\ QuietBeforeServe)'
    BY <1>0, <1>4 DEF SetupLogging, ValidConfigServed, QuietBeforeServe
  <2>3. FreshReload'
    BY <1>0, <1>4 DEF SetupLogging, FreshReload, QuietBeforeServe
  <2>4. LevelFollowsConfig'
    BY <1>0, <1>4, GetType, ParseLevel
    DEF SetupLogging, LevelFollowsConfig, Get, Config
  <2>5. QED
    BY <2>1, <2>2, <2>3, <2>4 DEF StoreInv
<1>5. CASE NotifyAndServe
  <2>1. TypeOK'
    BY <1>0, <1>5 DEF NotifyAndServe, TypeOK, MainPhases
  <2>2. (ValidConfigServed /\ QuietBeforeServe)'
    BY <1>0, <1>5 DEF NotifyAndServe, ValidConfigServed, QuietBeforeServe
  <2>3. FreshReload'
    BY <1>0, <1>5 DEF NotifyAndServe, FreshReload, QuietBeforeServe
  <2>4. LevelFollowsConfig'
    BY <1>0, <1>5 DEF NotifyAndServe, LevelFollowsConfig, QuietBeforeServe, Get
  <2>5. QED
    BY <2>1, <2>2, <2>3, <2>4 DEF StoreInv
<1>6. CASE Edit
  <2>1. TypeOK'
    BY <1>0, <1>6, ContentsAssumption DEF Edit, TypeOK
  <2>2. (ValidConfigServed /\ QuietBeforeServe)'
    BY <1>0, <1>6 DEF Edit, ValidConfigServed, QuietBeforeServe
  <2>3. FreshReload'
    BY <1>0, <1>6 DEF Edit, FreshReload, QuietBeforeServe
  <2>4. LevelFollowsConfig'
    BY <1>0, <1>6 DEF Edit, LevelFollowsConfig, QuietBeforeServe, Get
  <2>5. QED
    BY <2>1, <2>2, <2>3, <2>4 DEF StoreInv
<1>7. CASE SighupQueued
  <2>1. TypeOK'
    BY <1>0, <1>7 DEF SighupQueued, TypeOK, SigChCap
  <2>2. (ValidConfigServed /\ QuietBeforeServe)'
    BY <1>0, <1>7 DEF SighupQueued, ValidConfigServed, QuietBeforeServe
  <2>3. FreshReload'
    BY <1>0, <1>7 DEF SighupQueued, FreshReload, TypeOK, SigChCap
  <2>4. LevelFollowsConfig'
    BY <1>0, <1>7 DEF SighupQueued, LevelFollowsConfig, QuietBeforeServe, Get
  <2>5. QED
    BY <2>1, <2>2, <2>3, <2>4 DEF StoreInv
<1>8. CASE ReceiveSignal
  <2>1. TypeOK'
    BY <1>0, <1>8 DEF ReceiveSignal, TypeOK, SigChCap
  <2>2. (ValidConfigServed /\ QuietBeforeServe)'
    BY <1>0, <1>8 DEF ReceiveSignal, ValidConfigServed, QuietBeforeServe
  <2>3. FreshReload'
    BY <1>0, <1>8 DEF ReceiveSignal, FreshReload, QuietBeforeServe
  <2>4. LevelFollowsConfig'
    BY <1>0, <1>8 DEF ReceiveSignal, LevelFollowsConfig, QuietBeforeServe, Get
  <2>5. QED
    BY <2>1, <2>2, <2>3, <2>4 DEF StoreInv
<1>9. CASE ReloadNothing
  <2>1. TypeOK'
    BY <1>0, <1>9 DEF ReloadNothing, TypeOK
  <2>2. (ValidConfigServed /\ QuietBeforeServe)'
    BY <1>0, <1>9 DEF ReloadNothing, ValidConfigServed, QuietBeforeServe
  <2>3. FreshReload'
    BY <1>0, <1>9 DEF ReloadNothing, FreshReload, QuietBeforeServe
  <2>4. LevelFollowsConfig'
    BY <1>0, <1>9 DEF ReloadNothing, LevelFollowsConfig, QuietBeforeServe, Get
  <2>5. QED
    BY <2>1, <2>2, <2>3, <2>4 DEF StoreInv
<1>10. CASE ReloadRead
  <2>1. TypeOK'
    BY <1>0, <1>10, NormaliseType DEF ReloadRead, TypeOK
  <2>2. (ValidConfigServed /\ QuietBeforeServe)'
    BY <1>0, <1>10, NormaliseType
    DEF ReloadRead, TypeOK, ValidConfigServed, QuietBeforeServe
  <2>3. FreshReload'
    BY <1>0, <1>10 DEF ReloadRead, FreshReload, QuietBeforeServe
  <2>4. LevelFollowsConfig'
    BY <1>0, <1>10 DEF ReloadRead, LevelFollowsConfig, QuietBeforeServe, Get
  <2>5. QED
    BY <2>1, <2>2, <2>3, <2>4 DEF StoreInv
<1>11. CASE ReloadFails
  <2>1. TypeOK'
    BY <1>0, <1>11 DEF ReloadFails, TypeOK
  <2>2. (ValidConfigServed /\ QuietBeforeServe)'
    BY <1>0, <1>11 DEF ReloadFails, ValidConfigServed, QuietBeforeServe
  <2>3. FreshReload'
    BY <1>0, <1>11 DEF ReloadFails, FreshReload, QuietBeforeServe
  <2>4. LevelFollowsConfig'
    BY <1>0, <1>11 DEF ReloadFails, LevelFollowsConfig, QuietBeforeServe, Get
  <2>5. QED
    BY <2>1, <2>2, <2>3, <2>4 DEF StoreInv
<1>12. CASE ReloadStore
  <2>1. TypeOK'
    BY <1>0, <1>12 DEF ReloadStore, TypeOK
  <2>2. (ValidConfigServed /\ QuietBeforeServe)'
    BY <1>0, <1>12 DEF ReloadStore, ValidConfigServed, QuietBeforeServe
  <2>3. FreshReload'
    BY <1>0, <1>12 DEF ReloadStore, FreshReload, QuietBeforeServe
  <2>4. LevelFollowsConfig'
    BY <1>0, <1>12 DEF ReloadStore, LevelFollowsConfig, QuietBeforeServe, Get
  <2>5. QED
    BY <2>1, <2>2, <2>3, <2>4 DEF StoreInv
<1>13. CASE ReloadLogging
  <2>1. TypeOK'
    BY <1>0, <1>13, GetType, ParseLevel DEF ReloadLogging, TypeOK, Config
  <2>2. (ValidConfigServed /\ QuietBeforeServe)'
    BY <1>0, <1>13 DEF ReloadLogging, ValidConfigServed, QuietBeforeServe
  <2>3. FreshReload'
    BY <1>0, <1>13 DEF ReloadLogging, FreshReload, QuietBeforeServe
  <2>4. LevelFollowsConfig'
    BY <1>0, <1>13, GetType, ParseLevel
    DEF ReloadLogging, LevelFollowsConfig, Get, Config
  <2>5. QED
    BY <2>1, <2>2, <2>3, <2>4 DEF StoreInv
<1>14. CASE LoadFails \/ RunReturns \/ SighupKills
  BY <1>14, GoneStoreInv DEF LoadFails, RunReturns, SighupKills
<1>15. CASE UNCHANGED vars
  <2>1. TypeOK'
    BY <1>0, <1>15 DEF vars, TypeOK
  <2>2. (ValidConfigServed /\ QuietBeforeServe /\ FreshReload
          /\ LevelFollowsConfig)'
    BY <1>0, <1>15 DEF vars, ValidConfigServed, QuietBeforeServe, FreshReload,
       LevelFollowsConfig, Get, Loads, Normalise
  <2>3. QED
    BY <2>1, <2>2 DEF StoreInv
<1>16. QED
  BY <1>1, <1>2, <1>3, <1>4, <1>5, <1>6, <1>7, <1>8, <1>9, <1>10, <1>11, <1>12, <1>13, <1>14, <1>15
  DEF Next, MainStep, ReloadStep, Operator

-----------------------------------------------------------------------------
\* The inductive invariant holds throughout every behaviour of the store.
THEOREM StoreInvariant == Spec => []StoreInv
  BY InitStoreInv, NextStoreInv, PTL DEF Spec

\* Type correctness of config.go's state, for every set of tools and editions.
THEOREM TypeCorrect == Spec => []TypeOK
<1>1. StoreInv => TypeOK
  BY DEF StoreInv
<1>2. QED
  BY <1>1, StoreInvariant, PTL

\* Startup and reload let no configuration through that validate rejects.
THEOREM OnlyValidConfigs == Spec => []ValidConfigServed
<1>1. StoreInv => ValidConfigServed
  BY DEF StoreInv
<1>2. QED
  BY <1>1, StoreInvariant, PTL

\* The one-place buffer of sigCh loses no SIGHUP that matters: a settled
\* reloader has installed the edition the last signal asked for.
THEOREM NoReloadIsLost == Spec => []NoLostReload
<1>1. StoreInv => NoLostReload
  BY DEF StoreInv, FreshReload, NoLostReload, Settled
<1>2. QED
  BY <1>1, StoreInvariant, PTL

\* Outside the window between store and setupLogging, the log handler runs at
\* the level of the active configuration.
THEOREM LevelIsConfigured == Spec => []LevelFollowsConfig
<1>1. StoreInv => LevelFollowsConfig
  BY DEF StoreInv
<1>2. QED
  BY <1>1, StoreInvariant, PTL
=============================================================================
