SPECIFICATION FairSpec
CONSTANTS
    cluster = cluster
    x = x
    y = y
    z = z
    Cluster = cluster
    External = {x}
    Internal = {y, z}
    Jobs = {cluster, x, y, z}
    Arrival <- MCArrival
    Outcome <- MCOutcome
    Totals <- MCTotals
    Duration = 3
    Ramp = 3
    Retention = 2
    Dt = 2
    EndTime = 6
    MaxEvents = 10
CHECK_DEADLOCK FALSE
INVARIANTS DueExactlyApplied TerminalIsLast LoadFollows
PROPERTIES ConsumedIsFixed EveryAcceptedApplied
