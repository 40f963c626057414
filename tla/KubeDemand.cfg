SPECIFICATION Spec
CONSTANTS
    slurm = slurm
    k8s = k8s
    a1 = a1
    a2 = a2
    a3 = a3
    b1 = b1
    b2 = b2
    Agents <- MCAgents
    Kubernetes = {k8s}
    ClusterOf <- MCClusters
    Jobs <- MCJobs
    Size <- MCSize
    Length <- MCLength
    Jitters = {0, 1}
    Window = 1
    MaxNodes = 4
    MinNodes = 1
    Ceiling = 3
    NoCeiling = NoCeiling
    Headrooms = {0, 3}
    Threshold = 2
    Hysteresis = 2
    Burst = 2
    LastTick = 7
    Pods <- MCPods
    Pod <- MCPod
    KubeNodes = {1, 2, 3, 4}
    GpuType <- MCGpuType
    NodeCapacity <- MCCapacity
    Backoffs = {2}
    MaxRetries = 1
    StartDelay = 0
    NoTime = NoTime
CHECK_DEADLOCK FALSE
INVARIANT JobsAccounted
PROPERTIES AdmissionsInTurn
