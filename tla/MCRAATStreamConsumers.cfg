CONSTANTS
    Consumers = {c1, c2}
    Packets <- TwoPackets
    Windows <- NoWindows
    Capacity = 4
    PoolSize = 1
    MetadataChunk = 1
SPECIFICATION FairSpec
PROPERTIES
    SleeperServed
\* a crashed process and a destroyed stream take no further step
CHECK_DEADLOCK FALSE
