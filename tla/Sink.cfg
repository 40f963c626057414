SPECIFICATION FairSpec
CONSTANTS
    a = a
    b = b
    Runs = {a, b}
    EndTick <- MCEndTick
    QueueMax = 1
    MaxAudit = 1
    WriteFails = {b}
    Crash = {a, b}
    Asserted <- AnyOfFirst
    Marks <- PatternsOfFirst
    K = 1
CHECK_DEADLOCK FALSE
INVARIANTS VerdictSound NothingVanishes
PROPERTIES EveryRunFinalized
