CONSTANTS
    Jobs <- Five
    Nodes <- MCNodes
    Dims <- MCDims
    Capacity <- MCCapacity
    UpNodes <- MCNodes
    Pools <- OnePool
    PoolCapacity <- OneLicense
    Unconfigured <- NoPool
    Owners <- MCOwners
    Weight <- MCWeight
    Reservations <- NoReservation
    Window <- MCWindow
    Limits <- QueueLimits
    Job <- QueueJob
    Backfill = FALSE
    PreemptMode = "off"
    Batches <- QueueBatches
    Cancellable = {1}
    Steps = {0, 1}
    LastSubmit = 2
    MaxTime = 12
    MaxShare = 30
SPECIFICATION FairSpec
CHECK_DEADLOCK FALSE
INVARIANTS PolicyKept NoOvertaking
PROPERTIES EventuallyEnds
