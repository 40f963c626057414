---------------------------- MODULE MCKubeDemand ----------------------------
(***************************************************************************)
(* An instance of KubeDemand for TLC: a Slurm tenant and a Kubernetes      *)
(* tenant that share a fleet of four nodes, as the legacy site does.       *)
(***************************************************************************)
EXTENDS KubeDemand, TLC

CONSTANTS slurm, k8s, a1, a2, a3, b1, b2

MCAgents == <<slurm, k8s>>
MCClusters == slurm :> "shared" @@ k8s :> "shared"
MCJobs == slurm :> <<a1, a2, a3>> @@ k8s :> <<b1, b2>>
MCSize == a1 :> 2 @@ a2 :> 1 @@ a3 :> 2 @@ b1 :> 2 @@ b2 :> 1
MCLength == a1 :> 4 @@ a2 :> 2 @@ a3 :> 2 @@ b1 :> 3 @@ b2 :> 2

MCPods == {b1, b2} \X {1, 2}
WholeNode == [r \in Range(Resources) |-> 1]
MCPod == [p \in MCPods |->
    [priority |-> 0, needs |-> WholeNode, gpuTypes |-> {},
     duration |-> MCLength[p[1]], completion |-> NoTime]]
MCGpuType == [n \in KubeNodes |-> "H100"]
MCCapacity == [n \in KubeNodes |-> WholeNode]

\* The instance meets the condition of the theorem AccountsForJobs.
ASSUME PodsAndNodesAlike == Alike
=============================================================================
