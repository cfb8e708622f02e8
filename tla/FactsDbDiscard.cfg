SPECIFICATION Spec
CONSTANTS
    i1 = i1
    r1 = r1
    p1 = p1
    t1 = t1
    bad = bad
    None = None
    Paths = {p1}
    Texts = {t1, bad}
    Unparsable = {bad}
    Indexers = {i1}
    Readers = {r1}
    Builds <- SameBuild
INVARIANT
    DiscardRemovesOnlyRefused
