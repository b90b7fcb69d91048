\* A hit runs the callback on the calling thread.
CONSTANTS
    k1 = k1
    v1 = v1
    Keys = {k1}
    Values = {v1}
    Absent = Absent
    Legal <- OneKeyLegal
    Prepopulated <- OneKeyStart
    Callers = {c1, c2}
    Strays = {}
    ForeignKeys = {}
    MayRestart = FALSE
    Arcs = {a1, a2, a3}
    NoArc = NoArc
    Freed = Freed
    BadKey = BadKey
    Workers = 1
SPECIFICATION Spec
PROPERTIES CallbackElsewhere
\* The host may be done with the destroyed client.
CHECK_DEADLOCK FALSE
