SPECIFICATION FairSpec
CONSTANTS
    d1 = d1
    d2 = d2
    Devices = {d1, d2}
    MaxRequests = 3
    MaxSends = 2
    MaxHandled = 3
    Instances <- AllInstances
INVARIANTS
    NothingIsRepeated
PROPERTIES
    ServesInOrder
    RequestsAreAnswered
CHECK_DEADLOCK FALSE
