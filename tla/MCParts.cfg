CONSTANTS
    Parts = {"types", "script", "client", "log"}
    Sessions = {s1, s2}
    Types = {t1, t2}
    NoType = NoType
    MaxCalls = 4
    MaxSetups = 3
    MaxRequests = 3
    MaxConnects = 2
    MaxWrites = 2
    Timeout = 1
    LogSize = 14
    LinkSize = 2
    Align = 2
    BufSize = 4
    Lengths = {0, 2, 9}
    MaxSeq = 15
    MaxWritten = 20
    Listeners = {l1}
SPECIFICATION PartsSpec
SYMMETRY PartsSymmetry
INVARIANTS
    CountsMatch
    NoChangeIsLost
    StatesAreKept
    ClosedSessionsLeave
    RequestsEndOnce
    LogServes
CHECK_DEADLOCK FALSE
