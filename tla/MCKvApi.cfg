\* Two keys; the entry of k1 is replaced, evicted and cleared while results
\* are out.
CONSTANTS
    k1 = k1
    k2 = k2
    v1 = v1
    v2 = v2
    v3 = v3
    Keys = {k1, k2}
    Values = {v1, v2, v3}
    Absent = Absent
    Legal <- TwoKeysLegal
    Prepopulated <- TwoKeysStart
    Callers = {c1, c2}
    Strays = {}
    ForeignKeys = {}
    MayRestart = FALSE
    Arcs = {a1, a2, a3, a4}
    NoArc = NoArc
    Freed = Freed
    BadKey = BadKey
SPECIFICATION ApiSpec
SYMMETRY Symmetry
INVARIANTS TypeOK ArcCount Bookkeeping NoCrossTalk
PROPERTIES LoansKept
