SPECIFICATION Spec
CONSTANTS
    MIN_FINDING_TOKENS = 40
    MIN_INSTANCES = 2
    Star = Star
    MAX_FLOOD_VISITED = 2
    MIN_CALLEES = 2
    SHARE_PARTS = 2
    SHARE_WHOLE = 3
    FAMILY_LIMIT = 2
    MAX_ROWS_PER_UNIT = 1
    Paths = {1, 2}
    Texts = {"t", "u"}
    MaxEdits = 2
    None = None
INVARIANTS
    
    OnlyNewCopiesAreReported
    GlobsMatchByTheirStars
    TreeChecksTellTheChange
    
CHECK_DEADLOCK FALSE
