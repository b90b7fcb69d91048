\* Every call comes back, and destroy leaves nothing.  No symmetry: it is
\* unsound for liveness.
CONSTANTS
    k1 = k1
    v1 = v1
    Keys = {k1}
    Values = {v1}
    Absent = Absent
    Legal <- OneKeyLegal
    Prepopulated <- OneKeyStart
    Callers = {c1, c2}
    Strays = {s1}
    ForeignKeys = {k1}
    MayRestart = FALSE
    Arcs = {a1, a2, a3}
    NoArc = NoArc
    Freed = Freed
    BadKey = BadKey
SPECIFICATION FairSpec
INVARIANTS NothingLeft
PROPERTIES Answered
