SPECIFICATION FairSpec
CONSTANTS
    Contexts = {x1}
    Objs = {o1}
    None = None
    Hosts = {h1, h2}
    NoHost = NoHost
    SslSessions = {s1, s2, s3, s4}
    NoSession = NoSession
    Slots = 2
    Probes = 1
    Hash <- OneHash
    RecordSize = 2
    MaxRecords = 2
    MaxLength = 3
    Faults = {"start", "handshake", "notified", "gone"}
    Busy = {x1}
INVARIANTS
    SessionsCounted
PROPERTIES
    ImplementsSecureTransport
    EveryByteArrives
