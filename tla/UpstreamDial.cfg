SPECIFICATION Spec
CONSTANTS
    Targets <- MCTargets
    Credentials <- MCCredentials
    NoAuth = NoAuth
    BypassList <- MCBypassList
    Local <- MCLocal
    Lower <- MCLower
    None = None
INVARIANTS
    StreamAligned
    ProxyHearsRight
    NeverBothWait
    SocketSettled
PROPERTIES
    DialEnds
