SPECIFICATION Spec
CONSTANTS
    Conns <- ThreeDials
    Actors = {stopper}
    Pings = FALSE
    SendsPings = TRUE
    None = None
    App = app
    Stopper = stopper
    AutoReconnect = TRUE
    MaxStarts = 2
    MaxFails = 1
    Input <- OneMessage
INVARIANTS
    TypeOK
    StaysConnected
    DispatcherFollows
    StopIsFinal
