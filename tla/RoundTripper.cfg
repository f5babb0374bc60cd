SPECIFICATION LiveSpec
CONSTANTS
    r1 = r1
    r2 = r2
    r3 = r3
    h1 = h1
    h2 = h2
    None = None
    Reqs = {r1, r2, r3}
    Hosts = {h1, h2}
    HostOf <- OneHost
    HasBody = {r1}
INVARIANTS
    NoReplay
    NoConnLeak
PROPERTIES
    RequestsEnd
