SPECIFICATION ShellFairSpec
CONSTANTS
    Keys = {k1, k2, k3}
    NoKey = NoKey
    QueueLimit = 2
    QuietPeriod = 1
    QuietDeadline = 2
    PolicySettings = {TRUE, FALSE}
INVARIANTS
    InFlightExact
    OneDrain
    NoLostWakeup
PROPERTIES
    EveryRevalidationRuns
