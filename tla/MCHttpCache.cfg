SPECIFICATION Spec
CONSTANTS
    Workers = {w1}
    Values = {x}
    None = None
    Asks <- MCAsks
    Profiles <- MCProfiles
    Skews <- MCSkews
    Divisor = 2
    Ceiling = 2
    MaxChanges = 1
    Horizon = 3
CHECK_DEADLOCK FALSE
INVARIANTS FreshMeansFresh ConfirmedAsMade
