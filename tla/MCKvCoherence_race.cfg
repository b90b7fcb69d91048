\* The SDK alone with a server that never fails: nothing but two threads.
CONSTANTS
    k1 = k1
    v1 = v1
    v2 = v2
    Keys = {k1}
    Values = {v1, v2}
    Absent = Absent
    Legal <- OneKeyLegal
    Prepopulated <- OneKeyStart
    Callers = {c1, c2}
    Strays = {}
    ForeignKeys = {}
    MayRestart = FALSE
    Arcs = {a1, a2, a3}
    NoArc = NoArc
    Freed = Freed
    BadKey = BadKey
SPECIFICATION CoherenceSpec
INVARIANTS WriteThrough
