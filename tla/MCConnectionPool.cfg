SPECIFICATION FairSpec
CONSTANTS
    Requests = {r1, r2}
    Conns = {c1, c2, c3}
    Hosts = {h1}
    NoConn = NoConn
    IdlePerHost = 1
    IdleTimeout = 0
INVARIANTS
    OneOwner
    OpenAreOwned
    RetriesBounded
PROPERTIES
    EveryRequestFinishes
