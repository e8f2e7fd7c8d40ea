SPECIFICATION FairSpec
CONSTANTS
    d1 = d1
    d2 = d2
    Devices = {d1, d2}
    Sessions = {1}
    Calls = {1, 2}
    Loops = {"l1", "l2", "l3"}
    Instances <- AllInstances
INVARIANTS
    PairedDeviceIsAccepted
    RevocationIsFinal
PROPERTIES
    HostCertificateIsRenewed
CHECK_DEADLOCK FALSE
