SPECIFICATION Spec
CONSTANTS
    f1 = f1
    f2 = f2
    f3 = f3
    N = 3
    Files = {f1, f2}
    Target <- Aliased
INVARIANT
    SuccessWritesAll
CHECK_DEADLOCK FALSE
