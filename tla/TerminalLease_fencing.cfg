SPECIFICATION Spec
CONSTANTS
    t1 = t1
    t2 = t2
    p1 = p1
    p2 = p2
    w1 = w1
    w2 = w2
    Terminals = {t1, t2}
    Workers = {w1, w2}
    Projects = {p1, p2}
    ProjectOf <- TwoProjects
    Checks = {t1}
    Able <- AbleOfChecks
    Capacity <- OneAtATime
    Reports = {"succeeded"}
    NoWorker = NoWorker
    MaxGen <- PauseFirst
    MaxLeases <- RetryFirst
INVARIANTS
    LeasesWithinCapacity
    PassedChecksAreFenced
PROPERTIES
    ReportedWorkIsNeverReplayed
CHECK_DEADLOCK FALSE
