SPECIFICATION Spec
CONSTANTS
    Maintainers = {m1, m2}
    Assets = {"binary", "manifest"}
    MaxVersion = 2
    MaxCommit = 2
    MaxBuilds = 2
    NoBuild = NoBuild
    NoTag = NoTag
SYMMETRY Symmetry
INVARIANTS
    TypeOK
    ReleaseIsOneBuild
    RegistryMatchesRelease
    VersionsFollowHistory
PROPERTIES
    PublishedIsFinal
