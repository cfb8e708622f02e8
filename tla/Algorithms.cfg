SPECIFICATION Spec
CONSTANTS
    MAX_FLOOD_VISITED = 2
    MAX_PASSES = 50
    MAX_IMPORT_HOPS = 32
    MaxFiles = 4
    MaxWeight = 2
    x = x
    y = y
    Names = {x, y}
    Private = {y}
    MaxSize = 5
    PROTECTED_SECONDS = 2
    Sizes = {0, 1, 3}
    Times = {0, 1, 2}
    Now = 4
    NL = NL
    Space = Space
    Dots = Dots
    a = a
    dash = dash
    f = f
    g = g
    DevNull = DevNull
    Quoted = Quoted
    None = None
    NoPath = NoPath
    NoKey = NoKey
    TooLarge = TooLarge
    Base = 3
    UsizeMax = 20
    MaxText = 4
    MaxScript = 4
    MaxDamage = 3
    MaxBlocks = 3
    Voters = 4
    MaxNumber = 40
INVARIANTS
    PlansTheColdTail
    EditsChangeWhatTheyName
    DiffsAreReadWhole
    WinnerHasTheEvidence
    WalksAreShortest
    CommunitiesSettle
    
CHECK_DEADLOCK FALSE
