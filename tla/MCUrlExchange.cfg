SPECIFICATION FairSpec
CONSTANTS
    MaxBody = 2
    DrainLimit = 1
    None = None
CHECK_DEADLOCK FALSE
INVARIANTS StoredIsDelivered LengthsCatchTruncation ReturnedAtEnd
PROPERTIES ImplementsUrlLoad EveryLoadEnds
