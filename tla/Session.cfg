SPECIFICATION Spec
CONSTANTS
    MaxReqs = 3
    MaxBody = 2
    MaxUnits = 2
    Pipelining = TRUE
    Framed = {"length", "chunked", "eof"}
    Coded = {"plain", "gzip", "late"}
    Interim = TRUE
INVARIANTS
    ReaderAligned
    OneAnswerEach
    CompleteIsWhole
    NoSocketLeft
    TunnelIntact
    ClosingSideHeard
PROPERTIES
    LeavingEnds
