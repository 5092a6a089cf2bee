SPECIFICATION Spec
CONSTANTS
    Tools = {t1}
    Editions <- MCEditions
    Absent = Absent
    Unreadable = Unreadable
    Malformed = Malformed
    NoConfig = NoConfig
INVARIANTS
    TypeOK
    ValidConfigServed
    NoLostReload
    LevelFollowsConfig
PROPERTIES
    ReloadConverges
