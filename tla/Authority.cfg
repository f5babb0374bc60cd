SPECIFICATION AuthoritySpec
CONSTANTS
    p1 = p1
    p2 = p2
    p3 = p3
    p4 = p4
    c1 = c1
    c2 = c2
    c3 = c3
    c4 = c4
    lower = lower
    upper = upper
    other = other
    a = a
    b = b
    None = None
    NoCA = NoCA
    Procs = {p1, p2, p3, p4}
    Command <- MCCommand
    Serial = TRUE
    MayDie = {p1, p2, p3, p4}
    Runner = p4
    Calls = {c1, c2, c3, c4}
    Names = {lower, upper, other}
    Hosts = {a, b}
    Norm <- MCNorm
    Connect <- MCConnect
    SNI <- MCSNI
INVARIANTS
    OneLeafPerHost
    LeafNamesClientsHost
    OnlyForceTears
PROPERTIES
    NoSilentOverwrite
