\* Two threads, two client objects, two ValueRefs, one key.
CONSTANTS
    k1 = k1
    v1 = v1
    Keys = {k1}
    Values = {v1}
    Absent = Absent
    Legal <- OneKeyLegal
    Prepopulated <- OneKeyStart
    Callers = {c1, c2}
    Strays = {}
    ForeignKeys = {k1}
    MayRestart = FALSE
    Arcs = {a1, a2, a3}
    NoArc = NoArc
    Freed = Freed
    BadKey = BadKey
    Objs = {x1, x2}
    Refs = {r1, r2}
SPECIFICATION CppSpec
INVARIANTS ClientOwned OneOwner CopiesWhole LeakFree
SYMMETRY Interchangeable
