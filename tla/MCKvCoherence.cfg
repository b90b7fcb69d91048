\* Everything that can happen to one key.
CONSTANTS
    k1 = k1
    v1 = v1
    v2 = v2
    Keys = {k1}
    Values = {v1, v2}
    Absent = Absent
    Legal <- OneKeyLegal
    Prepopulated <- OneKeyStart
    Callers = {c1, c2, c3}
    Strays = {s1}
    ForeignKeys = {k1}
    MayRestart = TRUE
    Arcs = {a1, a2, a3}
    NoArc = NoArc
    Freed = Freed
    BadKey = BadKey
SPECIFICATION CoherenceSpec
SYMMETRY Symmetry
INVARIANTS Coherent FreshUnlessExposed
PROPERTIES GetsCurrent
