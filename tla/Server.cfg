SPECIFICATION MCSpec
CONSTANTS
    Calls = {c1, c2, c3}
    Permits = 2
    Drain = Drain
    stdout_cap = 2
    stderr_cap = 1
    PipeSize = 2
    MaxWritten = 3
    MaxFaults = 1
    Workers = {t1, t2}
    limit = 1
    grace = 2
    MaxTime = 4
    MaxLines = 4
    MaxVersion = 4
    MINIMUM_UPTIME = 2
    Callers = {k1, k2}
    Names = {"a", "b"}
    Resolve <- MCResolve
    Lists <- MCLists
    Flags = {}
    Holding = {"A"}
    MaxKey = 2
    None = None
INVARIANTS
    PermitsConserved
    DrainedCallsAnswered
    OutputIsWhole
    LimitIsFair
    OneLineAfterBreak
    ServesListedRoots

    
CHECK_DEADLOCK FALSE
