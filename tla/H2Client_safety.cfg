SPECIFICATION Spec
CONSTANTS
    r1 = r1
    r2 = r2
    Reqs = {r1, r2}
    MaxBody = 1
    ConnWindow = 2
    StreamWindow = 2
    PeerMay = {"trailers", "padding", "writeError", "reset"}
    Hinted = {}
    EarlyClose = {r1}
    Cancellable = {r1}
INVARIANTS
    TypeOK
    CleanEOFIsComplete
    ClosedMapEmpty
    NoOrphanWaiter
    WriteCanEnd
    NoCrossTalk
    WindowConserved
    CompleteResponseDelivered
PROPERTIES
    ImplementsExchanges
