SPECIFICATION FairSpec
CONSTANTS
    None = None
    c1 = c1
    c2 = c2
    r1 = r1
    r2 = r2
    r3 = r3
    p1 = p1
    p2 = p2
    s1 = s1
    Clients = {c1}
    Requests = {r1, r2}
    ClientOf <- OneClient
    Cancelable = {}
    Readers = {p1}
    Stoppers = {s1}
    Capacity = 0
    HasTimeout = FALSE
    SlowPump = FALSE
    LateConnect = FALSE
    ChannelCap = 1
    TokenCap = 1
    MaxStarts = 1
    MaxConns = 1
PROPERTIES
    ReplyIsDelivered
