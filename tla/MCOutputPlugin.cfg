CONSTANTS
    Sessions = {s1, s2}
    Others = {o1}
    ResyncBufs = 1
    MaxSetups = 2
    MaxForces = 1
SPECIFICATION Spec
SYMMETRY SessionSymmetry
INVARIANTS
    OwnerHasThread
    Handover
    PlaysOwnStream
PROPERTIES
    ImplementsOwnership
\* a process that died, or whose calls are used up, takes no further step
CHECK_DEADLOCK FALSE
