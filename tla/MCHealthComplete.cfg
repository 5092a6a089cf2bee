SPECIFICATION Spec
CONSTANTS
    Partitions = {p1, p2}
    Percents = {79, 80, 81, 90, 91}
    Loads = {1, 2, 3}
    CoreCounts = {0, 1}
    UnitCounts = {0, 1}
    Policies <- MCPolicies
    Unread = Unread
INVARIANTS
    OkMeansComplete
