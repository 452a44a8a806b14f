SPECIFICATION Spec
CONSTANTS
    Contexts = {x1, x2}
    Objs = {o1, o2}
    None = None
    Hosts = {h1, h2}
    NoHost = NoHost
    SslSessions = {s1, s2, s3, s4, s5}
    NoSession = NoSession
    Slots = 2
    Probes = 2
    Hash <- OneHash
    RecordSize = 1
    MaxRecords = 1
    MaxLength = 1
    Faults = {}
    Busy = {x1}
SYMMETRY AddressSymmetry
INVARIANTS
    PointersLive
    ResumedIsOfHost
    KeptIsOffered
    SessionsCounted
