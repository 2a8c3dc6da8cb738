SPECIFICATION Spec
CONSTANTS
    None = None
    c1 = c1
    c2 = c2
    r1 = r1
    r2 = r2
    r3 = r3
    p1 = p1
    p2 = p2
    s1 = s1
    Clients = {c1}
    Requests = {r1}
    ClientOf <- OneClient
    Cancelable = {}
    Readers = {p1}
    Stoppers = {}
    Capacity = 0
    HasTimeout = TRUE
    SlowPump = FALSE
    LateConnect = TRUE
    ChannelCap = 1
    TokenCap = 1
    MaxStarts = 1
    MaxConns = 2
INVARIANTS
    NeverRewritten
