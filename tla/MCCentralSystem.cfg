SPECIFICATION Spec
CONSTANTS
    a = a
    b = b
    r1 = r1
    r2 = r2
    r3 = r3
    None = None
    Clients = {a, b}
    Requests = {r1, r2, r3}
    ClientOf <- TwoAndOne
    Panicky = {}
    ChanCap = 1
    MaxDrops = 1
INVARIANTS
    AtMostOneCall
PROPERTIES
    EveryCallbackRuns
