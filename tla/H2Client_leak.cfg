SPECIFICATION GoSpec
CONSTANTS
    r1 = r1
    r2 = r2
    Reqs = {r1, r2}
    MaxBody = 2
    ConnWindow = 2
    StreamWindow = 2
    PeerMay = {}
    Hinted = {}
    EarlyClose = {r1}
    Cancellable = {}
PROPERTIES
    EveryRequestEnds
