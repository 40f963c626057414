SPECIFICATION FairRaySpec
CONSTANTS
    e = e
    f = f
    gang = gang
    task = task
    member = member
    Clusters = {e, f}
    Elastic = {e}
    MinWorkers <- MCMin
    MaxWorkers <- MCMax
    HeadDelay = 1
    WorkerDelay = 0
    RegistrationDelay = 0
    Works <- MCWorks
    Work <- MCWork
    Groups <- MCGroups
    Group <- MCGroup
    NoGroup = NoGroup
    HeadSize = 2
    WorkerSize = 2
    ScaleUpDelay = 1
    IdleDelay = 1
    PowerWorkers = 2
    Autoscaled = e
    MaxScales = 1
CHECK_DEADLOCK FALSE
INVARIANT HoldingsAgree
PROPERTIES AdmittedWorkersRegister RunningEnds
