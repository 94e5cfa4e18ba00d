CONSTANTS
    Clients = {c1}
    MaxInputs = 1
    MaxRuns = 1
SPECIFICATION FairSpec
PROPERTY
    StopEndsTheLoop
\* a process that died, or whose inputs are used up, takes no further step
CHECK_DEADLOCK FALSE
