SPECIFICATION Spec
CONSTANTS
    None = None
    r1 = r1
    r2 = r2
    p1 = p1
    p2 = p2
    s1 = s1
    s2 = s2
    Requests = {r1, r2}
    Cancelable = {}
    Readers = {p1}
    Stoppers = {s1}
    Capacity = 2
    TimeoutOnPause = FALSE
    DayTick = TRUE
    MaxStarts = 2
    MaxDrops = 0
INVARIANT
    IndInv
PROPERTY
    LifecycleSpec
