\* Two threads, one key.  The process may end: no deadlock check.
CONSTANTS
    k1 = k1
    v1 = v1
    Keys = {k1}
    Values = {v1}
    Absent = Absent
    Legal <- OneKeyLegal
    Prepopulated <- OneKeyStart
    Callers = {c1, c2}
    Strays = {}
    ForeignKeys = {k1}
    MayRestart = FALSE
    Arcs = {a1, a2, a3}
    NoArc = NoArc
    Freed = Freed
    BadKey = BadKey
SPECIFICATION CsSpec
INVARIANTS SafeUnlessRaced ResultOwned OnlyForgottenLeak
SYMMETRY Interchangeable
CHECK_DEADLOCK FALSE
