SPECIFICATION Spec
CONSTANTS
    Keys = {k1, k2}
    Workers = {w1, w2}
    Inodes = {i1, i2, i3}
    Pids = {1, 2}
    None = None
    Length <- MCLength
    EntryLimit = 2
    MaxSerial = 3
    MaxDeaths = 1
SYMMETRY MCSymmetry
CHECK_DEADLOCK FALSE
INVARIANT WritersApart
PROPERTY ImplementsAtomicCache
