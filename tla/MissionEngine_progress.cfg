SPECIFICATION FairSpec
CONSTANTS
    m1 = m1
    m2 = m2
    Missions = {m1}
    Slots <- SlotPair
    Deps <- NoDeps
    MaxConcurrent = 1
    MaxAttempts = 1
    MaxTries = 1
    HasRepository = TRUE
    Supervised = FALSE
    UserTargets = {}
    MaxGen = 2
    MaxCrashes = 0
    MaxApprovals = 1
PROPERTIES
    StartedWorkIsHandedOver
    CancellingRunsEnd
CHECK_DEADLOCK FALSE
