SPECIFICATION Spec
CONSTANTS
    None = None
    r1 = r1
    r2 = r2
    p1 = p1
    p2 = p2
    s1 = s1
    s2 = s2
    Requests = {r1, r2}
    Cancelable = {}
    Readers = {p1}
    Stoppers = {}
    Capacity = 2
    TimeoutOnPause = FALSE
    DayTick = FALSE
    MaxStarts = 1
    MaxDrops = 0
INVARIANT
    TimeoutAfterSending
