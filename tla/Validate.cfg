SPECIFICATION FairSpec
CHECK_DEADLOCK FALSE
CONSTANTS
    None = None
    k1 = k1
    k2 = k2
    MaxTime = 2
    MaxFaults = 1
    Threads <- MCThreads
    Candidates <- MCCandidates
    Refusable <- MCRefusable
    Key <- MCKey
    Requests <- MCRequests
INVARIANTS
    WorksInWorktree
    
    GradesWhatItMeasured
PROPERTY
    ValidateEnds
