CONSTANTS
    Sessions = {s1}
    Others = {o1}
    ResyncBufs = 1
    MaxSetups = 2
    MaxForces = 1
SPECIFICATION FairSpec
PROPERTIES
    LostThreadEnds
\* a process that died, or whose calls are used up, takes no further step
CHECK_DEADLOCK FALSE
