SPECIFICATION FairSpec
CONSTANTS
    c1 = c1
    c2 = c2
    Slots = {s1, s2}
    MaxGeneration = 4
    Settings <- AllSettings
    None = None

    
PROPERTIES
    
    HeadIsAttempted
