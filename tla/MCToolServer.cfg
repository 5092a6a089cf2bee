SPECIFICATION ServerSpec
CONSTANTS
    snap = snap
    mem = mem
    docker = docker
    watched = c1
    Tools = {snap, mem, docker}
    Editions <- MCEditions
    Absent = Absent
    Unreadable = Unreadable
    Malformed = Malformed
    NoConfig = NoConfig
    Calls = {c1}
    Plan <- MCPlan
    ResourceTools = {snap, mem}
    CtxAware = {docker}
INVARIANTS
    ServerTypeOK
    PolicyWindow
    NoSilentOmission
PROPERTIES
    DeadlineHonoured
    KeepsContract
