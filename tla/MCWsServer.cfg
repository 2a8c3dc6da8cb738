SPECIFICATION Spec
CONSTANTS
    c1 = c1
    c2 = c2
    c3 = c3
    id1 = id1
    id2 = id2
    k1 = k1
    Conns = {c1, c2}
    Actors = {c1, c2, c3, k1, hook}
    Pings = TRUE
    SendsPings = TRUE
    None = None
    KeepNew = TRUE
    Callers = {k1}
    Hook = hook
    Supported = {"ocpp1.6"}
    MayStop = TRUE
    IdOf <- SameId
    Offers <- TwoOffers
    Input <- FirstTalks
INVARIANTS
    TypeOK
    NoOverlap
    NoZombie
    StopClosesAll
PROPERTIES
    NoLateDisconnect
