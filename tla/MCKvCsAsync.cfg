\* Two calls, one worker, one key, one block; calls are canceled, and the client
\* is disposed when every task has been awaited.  No symmetry: it is unsound for
\* liveness.  The host may be done with its client: no deadlock check.
CONSTANTS
    k1 = k1
    v1 = v1
    Keys = {k1}
    Values = {v1}
    Absent = Absent
    Legal <- OneKeyLegal
    Prepopulated <- OneKeyStart
    Callers = {c1, c2}
    Strays = {}
    ForeignKeys = {}
    MayRestart = FALSE
    Arcs = {a1}
    NoArc = NoArc
    Freed = Freed
    BadKey = BadKey
    Workers = 1
    Cancels = TRUE
    Careful = TRUE
    Slots = {s1, s2}
    NoSlot = NoSlot
SPECIFICATION CsFairSpec
PROPERTIES TaskCompletes
CHECK_DEADLOCK FALSE
