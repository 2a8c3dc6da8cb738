SPECIFICATION Spec
CONSTANTS
    s1 = s1
    n1 = n1
    p1 = p1
    None = None
    Sync = {s1}
    Async = {}
    Nested = {n1}
    Plain = {p1}
    Answered = {s1}
    MaxControls = 3
INVARIANTS
    TypeOK
    OneHandler
    ControlReturns
    NobodyWaits
PROPERTIES
    ClearsOwn
