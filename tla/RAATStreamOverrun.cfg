CONSTANTS
    Consumers = {c1}
    Packets <- MCPackets
    Windows <- NoWindows
    Capacity = 4
    PoolSize = 1
    MetadataChunk = 1
SPECIFICATION Spec
INVARIANT
    OverrunHasARegion
CHECK_DEADLOCK FALSE
