SPECIFICATION FairSpec
CONSTANTS
    Names = {n1, n2}
    Threads = {t1, t2}
    Boot = Boot
    None = None
    Files <- MCFiles
    Data <- MCData
    Metadata <- MCMetadata
    Capacity = 5
    LowWater = 4
    Entries = 1
    MaxWrites = 2
CHECK_DEADLOCK FALSE
INVARIANTS OneSweeper TallyCovers SweepEnforcesBounds
PROPERTY SweepEnds
