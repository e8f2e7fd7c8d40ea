SPECIFICATION Spec
CONSTANTS
    c1 = c1
    c2 = c2
    c3 = c3
    n1 = n1
    n2 = n2
    Clis = {c1, c2, c3}
    Names = {n1, n2}
    Instances <- AllInstances
INVARIANTS
    VaultIsRecoverable
PROPERTIES
    UpdatesAreKept
CHECK_DEADLOCK FALSE
