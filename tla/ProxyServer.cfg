SPECIFICATION ServerSpec
CONSTANTS
    c1 = c1
    c2 = c2
    c3 = c3
    Conns = {c1, c2, c3}
    Passthrough = {c2}
INVARIANTS
    SocketsSettled
    NoUseAfterClose
    ChildHasProxy
PROPERTIES
    NegotiationEnds
    ServeReturns
    LaunchEnds
