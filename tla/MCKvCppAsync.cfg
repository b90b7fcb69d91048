\* Two calls, one worker, two client objects, one key.  GetRefAsync stands for
\* the three getters, whose steps differ in name only; sets are fired and
\* forgotten.  No symmetry: it is unsound for liveness.  A host may be done
\* with its client: no deadlock check.
CONSTANTS
    k1 = k1
    v1 = v1
    Keys = {k1}
    Values = {v1}
    Absent = Absent
    Legal <- OneKeyLegal
    Prepopulated <- OneKeyStart
    Callers = {c1, c2}
    Strays = {}
    ForeignKeys = {}
    MayRestart = FALSE
    Arcs = {a1, a2}
    NoArc = NoArc
    Freed = Freed
    BadKey = BadKey
    Objs = {x1, x2}
    Workers = 1
    Uses = {"GetRefAsync", "FireAndForget"}
SPECIFICATION CppFairSpec
INVARIANTS ContextForCallback OneOwner ClientOwned LeakFree
PROPERTIES NothingForgotten
CHECK_DEADLOCK FALSE
