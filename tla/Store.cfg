SPECIFICATION MCSpec
CONSTANTS
    r1 = r1
    r2 = r2
    d1 = d1
    d2 = d2
    d3 = d3
    i1 = i1
    i2 = i2
    s1 = s1
    p1 = p1
    t1 = t1
    t2 = t2
    bad = bad
    Listing <- ThreeDatabases
    Size <- Sizes
    Runs = {r1, r2}
    Own <- OwnDatabases
    Limit = 2
    MaxSize = 9
    PROTECTED_SECONDS = 1
    MaxClock = 4
    None = None
INVARIANTS
    
    ServedAsParsed
PROPERTIES
    
    IncrementalIsFull
    
CHECK_DEADLOCK FALSE
