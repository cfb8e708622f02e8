SPECIFICATION FairSpec
CONSTANTS
    f1 = f1
    f2 = f2
    f3 = f3
    N = 3
    Files = {f1, f2, f3}
    Target <- Distinct
INVARIANTS
    FailureRestoresTree
    OriginalsSurvive
    SigintNeverTears
PROPERTIES
    WritesAtomically
    WriteEnds
CHECK_DEADLOCK FALSE
