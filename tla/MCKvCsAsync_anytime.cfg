\* Two calls, one worker, one key, one block, as many handles as calls; calls are
\* canceled and the client disposed at any time.  The process may end: no
\* deadlock check.
CONSTANTS
    k1 = k1
    v1 = v1
    Keys = {k1}
    Values = {v1}
    Absent = Absent
    Legal <- OneKeyLegal
    Prepopulated <- OneKeyStart
    Callers = {c1, c2}
    Strays = {}
    ForeignKeys = {}
    MayRestart = FALSE
    Arcs = {a1}
    NoArc = NoArc
    Freed = Freed
    BadKey = BadKey
    Workers = 1
    Cancels = TRUE
    Careful = FALSE
    Slots = {s1, s2}
    NoSlot = NoSlot
SPECIFICATION CsSpec
INVARIANTS HandleAlive ClientAlive ResultOwned OnlyCanceledLeak CrashNeedsDispose TaskAnswered
SYMMETRY Interchangeable
CHECK_DEADLOCK FALSE
