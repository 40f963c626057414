---------------------------- MODULE MCKubeReplay ----------------------------
(***************************************************************************)
(* An instance of KubeReplay for TLC: every trace of at most MaxPods out   *)
(* of nine pods of four shapes, on a node with two GPUs of one type and a  *)
(* node with one of another.                                               *)
(***************************************************************************)
EXTENDS KubeReplay, TLC

CONSTANTS MaxPods

Needs(g, c) == [gpu |-> g, cpu |-> c, memory |-> 1]
MCCapacity == <<[gpu |-> 2, cpu |-> 2, memory |-> 4], [gpu |-> 1, cpu |-> 3, memory |-> 4]>>
MCGpuType == <<"V100", "T4">>

PodOf(priority, needs, types, duration, completion) ==
    [priority |-> priority, needs |-> needs, gpuTypes |-> types,
     duration |-> duration, completion |-> completion]
\* A pod that is never deleted runs "for ever", 1_000_000_000 seconds in the code.
Forever == 20
MCPod == <<
    PodOf(0, Needs(2, 1), {}, 4, 4),
    PodOf(0, Needs(1, 1), {}, 2, 2),
    PodOf(0, Needs(1, 1), {"T4"}, 3, 4),
    PodOf(1, Needs(1, 2), {"V100"}, Forever, NoTime),
    PodOf(1, Needs(2, 1), {}, 6, 7),
    PodOf(1, Needs(0, 2), {"H100"}, Forever, NoTime),
    PodOf(0, Needs(1, 1), {"T4"}, 1, 3),
    PodOf(2, Needs(2, 2), {"V100", "T4"}, Forever, NoTime),
    PodOf(0, Needs(1, 1), {"H100"}, 4, 7) >>
MCCreation == <<0, 0, 1, 1, 1, 1, 2, 2, 3>>
\* Pods are numbered by creation time.
MCTraces == {SetToSortSeq(S, <) : S \in {T \in SUBSET Pods : T # {} /\ Cardinality(T) <= MaxPods}}
=============================================================================
