SPECIFICATION Spec
CONSTANTS
    Audits = {a1, a2}
    Machines <- MCOneMachine
    Umasks = {"0022"}
INVARIANTS
    UmaskRestored
