SPECIFICATION Spec
CONSTANTS
    m1 = m1
    m2 = m2
    Missions = {m1, m2}
    Slots <- OneSlot
    Deps <- Chain
    MaxConcurrent = 1
    MaxAttempts = 0
    MaxTries = 1
    HasRepository = TRUE
    Supervised = TRUE
    UserTargets = {"ready", "paused"}
    MaxGen = 1
    MaxCrashes = 1
    MaxApprovals = 1
INVARIANTS
    DependencyGate
PROPERTIES
    PausedProjectIsFrozen
    StaleContinuationsAreDropped
CHECK_DEADLOCK FALSE
