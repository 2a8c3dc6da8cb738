SPECIFICATION Spec
CONSTANTS
    Conns <- ThreeDials
    Actors = {stopper}
    Pings = FALSE
    SendsPings = FALSE
    None = None
    App = app
    Stopper = stopper
    AutoReconnect = TRUE
    MaxStarts = 2
    MaxFails = 1
    Input <- Silent
INVARIANTS
    ReconnectsForever
