SPECIFICATION Spec
CONSTANTS
    c1 = c1
    c2 = c2
    c3 = c3
    id1 = id1
    id2 = id2
    k1 = k1
    Conns = {c1}
    Actors = {c1, c2, c3, k1, hook}
    Pings = TRUE
    SendsPings = FALSE
    None = None
    KeepNew = TRUE
    Callers = {k1}
    Hook = hook
    Supported = {"ocpp1.6"}
    MayStop = FALSE
    IdOf <- SameId
    Offers <- TwoOffers
    Input <- FirstTalks
INVARIANTS
    NoPanic
