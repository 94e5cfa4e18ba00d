CONSTANTS
    Clients = {c1, c2}
    MaxInputs = 2
    MaxRuns = 2
SPECIFICATION FairSpec
INVARIANTS
    NoUseAfterFree
    DestroyedOnce
    NoThreadOutlivesItsClient
PROPERTIES
    LoadIsAnswered
    OnlyScriptsKeepTheLoop
\* a process that died, or whose inputs are used up, takes no further step
CHECK_DEADLOCK FALSE
