SPECIFICATION Spec
CONSTANTS
    Audits = {a1}
    Machines <- MCMachines
    Umasks = {"0022", "0027", "0077"}
INVARIANTS
    TypeOK
    UmaskRestored
    AuditTellsUmask
    ScoreRewardsHardening
