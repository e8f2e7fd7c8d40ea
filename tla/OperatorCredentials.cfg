SPECIFICATION Spec
CONSTANTS
    c1 = c1
    c2 = c2
    Clis = {c1, c2}
    Instances <- AllInstances
INVARIANTS
    VaultBearerIsAccepted
PROPERTIES
    ReportsAreTrue
CHECK_DEADLOCK FALSE
