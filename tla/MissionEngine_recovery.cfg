SPECIFICATION Spec
CONSTANTS
    m1 = m1
    m2 = m2
    Missions = {m1, m2}
    Slots <- SlotPair
    Deps <- Chain
    MaxConcurrent = 1
    MaxAttempts = 1
    MaxTries = 1
    HasRepository = TRUE
    Supervised = FALSE
    UserTargets = {}
    MaxGen = 1
    MaxCrashes = 1
    MaxApprovals = 1
INVARIANTS
    OnlyValidatedWorkIsReviewed
    OneDriverPerMission
    OpenWorkIsDriven
CHECK_DEADLOCK FALSE
