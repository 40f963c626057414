SPECIFICATION FairSpec
CONSTANTS
    a = a
    b = b
    c1 = c1
    c2 = c2
    Runs = {a, b}
    Clients = {c1, c2}
    Target <- BothWatchA
    EndTick <- MCEndTick
    Islanding = {b}
    Collapsing = {b}
    Raising = {a}
    FinalizeRaises = {b}
    EarlyPause = FALSE
    Stalled = {c2}
CHECK_DEADLOCK FALSE
INVARIANTS ToldFindsResult NoVerdictOnCutShort PauseKept
PROPERTIES WatchersServed RunsEnd
