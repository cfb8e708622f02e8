SPECIFICATION MCSpec
CONSTANTS
    Checks = {c1, c2}
    EnvGates = {"", "off", "block", "junk"}
    Configs <- MCConfigs
    Reports <- MCReports
    DEADLINE = 4
    LOG_RESERVE = 1
    GIT_TIMEOUT = 2
    MaxTime = 5
    None = None
    Procs = {p1, p2}
    Sessions = {s1, s2}
    MaxCalls = 3
    MaxFaults = 2
INVARIANTS
    LogTellsTheAnswer
    BlocksOnlyBlocking
    
PROPERTIES
    GateEnds
CHECK_DEADLOCK FALSE
