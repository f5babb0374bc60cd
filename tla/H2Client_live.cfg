SPECIFICATION GoSpec
CONSTANTS
    r1 = r1
    r2 = r2
    Reqs = {r1, r2}
    MaxBody = 1
    ConnWindow = 1
    StreamWindow = 1
    PeerMay = {"goaway", "drop"}
    Hinted = {r1}
    EarlyClose = {}
    Cancellable = {}
PROPERTIES
    CloseReleases
    EveryRequestEnds
