----------------------------- MODULE GpuLeases -----------------------------
(***************************************************************************)
(* What a run may expect of its internal scheduler, whatever its policies  *)
(* are: a job waits, is granted a set of GPUs that nobody holds, and gives *)
(* all of them back when it leaves, for good or to wait again.  Everything *)
(* downstream (the load of the GPUs, the metrics of the tick) relies on no *)
(* more than this of SlurmSchedulerEngine.                                 *)
(***************************************************************************)
CONSTANTS Jobs, Gpus, Waiting, Holding, Final

VARIABLES phase, held

Queue(batch) ==
    /\ batch # {} /\ \A j \in batch : phase[j] = "NEW"
    /\ phase' = [j \in Jobs |-> IF j \in batch THEN Waiting ELSE phase[j]]
    /\ UNCHANGED held

Grant(j, gpus) ==
    /\ phase[j] = Waiting
    /\ \A k \in Jobs : held[k] \cap gpus = {}
    /\ phase' = [phase EXCEPT ![j] = Holding]
    /\ held' = [held EXCEPT ![j] = gpus]

\* The job ends, or is preempted: to wait again or for good.
GiveBack(j, next) ==
    /\ phase[j] = Holding
    /\ phase' = [phase EXCEPT ![j] = next]
    /\ held' = [held EXCEPT ![j] = {}]

Withdraw(j, next) ==
    /\ phase[j] = Waiting
    /\ phase' = [phase EXCEPT ![j] = next]
    /\ UNCHANGED held

Init ==
    /\ phase = [j \in Jobs |-> "NEW"]
    /\ held = [j \in Jobs |-> {}]

Next ==
    \/ \E batch \in SUBSET Jobs : Queue(batch)
    \/ \E j \in Jobs, gpus \in SUBSET Gpus : Grant(j, gpus)
    \/ \E j \in Jobs, next \in {Waiting} \cup Final : GiveBack(j, next)
    \/ \E j \in Jobs, next \in Final : Withdraw(j, next)

Spec == Init /\ [][Next]_<<phase, held>>
=============================================================================
