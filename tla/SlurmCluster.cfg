CONSTANTS
    Jobs <- Six
    Nodes <- MCNodes
    Dims <- MCDims
    Capacity <- MCCapacity
    UpNodes <- MCNodes
    Pools <- TwoPools
    PoolCapacity <- OneBuffer
    Unconfigured <- Unlicensed
    Owners <- MCOwners
    Weight <- MCWeight
    Reservations <- OneReservation
    Window <- MCWindow
    Limits <- NoLimit
    Job <- ClusterJob
    Backfill = TRUE
    PreemptMode = "cancel"
    Batches <- ClusterBatches
    Cancellable = {1}
    Steps = {0, 1}
    LastSubmit = 1
    MaxTime = 4
    MaxShare = 9
SPECIFICATION Spec
CHECK_DEADLOCK FALSE
INVARIANTS ResourcesHonoured AfterOkOrder BooksAgree
PROPERTIES NothingTakenBack LeasesHonoured
