\* The client destroyed at any moment; one worker for two tasks.
CONSTANTS
    k1 = k1
    v1 = v1
    Keys = {k1}
    Values = {v1}
    Absent = Absent
    Legal <- OneKeyLegal
    Prepopulated <- OneKeyStart
    Callers = {c1, c2}
    Strays = {}
    ForeignKeys = {k1}
    MayRestart = FALSE
    Arcs = {a1, a2, a3}
    NoArc = NoArc
    Freed = Freed
    BadKey = BadKey
    Workers = 1
SPECIFICATION FairSpec
INVARIANTS TaskPerCall CacheOwned
PROPERTIES CallbackFires
