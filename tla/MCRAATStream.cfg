CONSTANTS
    Consumers = {c1}
    Packets <- MCPackets
    Windows <- MCWindows
    Capacity = 4
    PoolSize = 1
    MetadataChunk = 1
SPECIFICATION Spec
INVARIANTS
    TypeOK
    CapacityBound
    LiveSorted
    ReadExact
    ReadFilled
    Accounted
    MemorySafe
PROPERTIES
    ImplementsTimeline
\* a crashed process and a destroyed stream take no further step
CHECK_DEADLOCK FALSE
