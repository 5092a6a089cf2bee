SPECIFICATION MachineSpec
CONSTANTS
    MaxPid = 4
    Gone = Gone
    Disks <- MCDisks
    SectionArgs <- MCSectionArgs
    MaxPage = 5
    MaxLinesArgs = {0, 1, 2, 9}
    ContextArgs = {0, 1}
    Offsets = {0, 1, 4}
    DefaultLines = 3
    MostLines = 4
    Chars = {"a", "_"}
    MaxGlyphs = 3
    Owners = {1, 2}
    Programs = {"sh", "db"}
    ConnKinds <- MCConnKinds
    MaxConns = 3
    ConnArgs <- MCConnArgs
    MostConns = 2
    Figures = {1, 2}
    RankArgs <- MCRankArgs
    Fds = {4, 5}
    Targets = {"file", "socket"}
    MaxChanges = 2
    Values = {"v"}
    LogLines = 3
    TailArgs = {0, 1, 9}
    TailDefault = 2
    TailMost = 4
    Gateways = {"absent", "gw"}
    Devices = {"eth0", "static", "via"}
    Protos = {"absent", "kernel", "static"}
    Scopes = {"absent", "link"}
    Numbers = {"absent", "100"}
    EnvPairs <- MCEnvPairs
    SensitiveWords = {"TOKEN"}
    Searches = {"absent", "PATH", "TOKEN", "x"}
    Arrays <- MCArrays
    MaxArrays = 2
INVARIANTS
    NoPidTwice
    DepthShowsParent
    SteadyListed
    
    FallbackIsLastResort
    NothingVanishes
    PagesRebuildText
    CleanedText
    OwnersToldOnce
    RankingsHold
    FdsListedOnce
    NothingHeld
    NothingDisclosed
    RoutesReadBack
    
