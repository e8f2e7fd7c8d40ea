SPECIFICATION FairSpec
CONSTANTS
    c1 = c1
    c2 = c2
    Clis = {c1, c2}
    Instances <- AllInstances
INVARIANTS
    StoredIsAccepted
    RotationsDrain
PROPERTIES
    RotationsSettle
CHECK_DEADLOCK FALSE
