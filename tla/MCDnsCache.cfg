SPECIFICATION DnsSpec
CONSTANTS
    Workers = {w1, w2}
    Names = {n1, n2, n3}
    Empty = Empty
    MaxAddresses = 2
    CacheHosts = 2
    CacheAddresses = 1
    CacheSeconds = 1
    MaxTime = 1
SYMMETRY DnsSymmetry
INVARIANTS
    OneEntryPerName
    OthersAreClosed
    FailsForAReason
