SPECIFICATION FairReplaySpec
CONSTANTS
    Pods = {1, 2, 3, 4, 5, 6, 7, 8, 9}
    Pod <- MCPod
    KubeNodes = {1, 2}
    GpuType <- MCGpuType
    NodeCapacity <- MCCapacity
    Backoffs = {0, 3}
    MaxRetries = 1
    StartDelay = 0
    NoTime = NoTime
    Traces <- MCTraces
    Creation <- MCCreation
    MaxPods = 6
CHECK_DEADLOCK FALSE
INVARIANT ServedInTime
PROPERTIES EveryPodSettles
