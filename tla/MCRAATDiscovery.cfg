SPECIFICATION FairSpec
CONSTANTS
    FastIps = 2
    Interfaces = 1
    MaxSeq = 4
    MaxOps = 2
    MaxQueue = 1
INVARIANTS
    OpsAreServed
    SocketUnlessFailed
PROPERTIES
    OldOpsAreSilent
    StopDrains
CHECK_DEADLOCK FALSE
