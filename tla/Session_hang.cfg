SPECIFICATION Spec
CONSTANTS
    MaxReqs = 2
    MaxBody = 1
    MaxUnits = 1
    Pipelining = FALSE
    Framed = {"length"}
    Coded = {"plain", "late"}
    Interim = FALSE
INVARIANTS
    NoMutualWait
