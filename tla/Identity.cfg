SPECIFICATION Spec
CONSTANTS
    Files <- MCFiles
    UserDirs <- MCUserDirs
    Asked <- MCAsked
    TLSFlags <- MCTLSFlags
    Requests <- MCRequests
    Hellos <- MCHellos
    Trim <- MCTrim
    Lower <- MCLower
    Upper <- MCUpper
    Canonical <- MCCanonical
    Alphabet <- MCAlphabet
    None = None
INVARIANTS
    TableIsOverlay
    HeadersExact
    WireInOrder
    SettingsInOrder
