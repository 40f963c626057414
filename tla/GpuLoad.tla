------------------------------ MODULE GpuLoad ------------------------------
(***************************************************************************)
(* The load a workload event leaves behind: GPUModule.apply_signal         *)
(* (core/asset_modules.py) and the envelopes of CoolingModule that         *)
(* SimulationState.apply_workload_signal (core/simulation_core.py) opens   *)
(* and ends for it.                                                        *)
(*                                                                         *)
(* A key is a job and a number: 0 is the job itself, n > 0 its n-th        *)
(* scale-up cohort, so _job_cohorts is the order of the numbers.           *)
(* _node_counts and _ramp_progress always have the same keys and are one   *)
(* dictionary here.  A ramp is counted in the time it has run, of Ramp     *)
(* until full power.  Profiles, phases and power values are left out.      *)
(***************************************************************************)
EXTENDS Integers, FiniteSets, Totals

CONSTANTS
    Jobs,
    Ramp,        \* ramp_seconds
    Retention    \* how long an ended envelope is kept

ASSUME RampAssumption == Ramp \in Nat /\ Retention \in Nat

VARIABLES
    load,        \* _node_counts and _ramp_progress
    desired,     \* _desired_node_counts, 0 when there is no entry
    counter,     \* _cohort_counters, 0 when there is no entry
    envelope     \* _envelopes: when each ended, Open while it has not

loadVars == <<load, desired, counter, envelope>>

Open == -1
NoKeys == [x \in {} |-> x]
Keys == Jobs \X Nat
KeysOf(j) == {k \in DOMAIN load : k[1] = j}
Cohorts(j) == {k \in KeysOf(j) : k[2] > 0}
NodeCounts == [k \in DOMAIN load |-> load[k].nodes]
NodesOf(j) == Total(NodeCounts, KeysOf(j))

\* A dictionary with one entry written.
With(dict, key, value) ==
    [k \in DOMAIN dict \cup {key} |-> IF k = key THEN value ELSE dict[k]]

\* register_job_start and register_job_end for a set of keys.
OpenEnvelope(key) == With(envelope, key, Open)
EndEnvelopes(keys, when) ==
    [k \in DOMAIN envelope |-> IF k \in keys THEN when ELSE envelope[k]]

\* A job at one of its keys, with its desired count.
Place(e, ramp) ==
    /\ load' = With(load, <<e.job, 0>>, [nodes |-> e.nodes, ramp |-> ramp])
    /\ desired' = [desired EXCEPT ![e.job] = e.nodes]
    /\ UNCHANGED counter

\* STARTING begins the ramp, RUNNING was observed at full draw.
Install(e) ==
    /\ e.kind \in {"STARTING", "RUNNING"}
    /\ Place(e, IF e.kind = "STARTING" THEN 0 ELSE Ramp)
    /\ envelope' = OpenEnvelope(<<e.job, 0>>)

\* A SCALE with no job: it was live before the monitoring began.
Snap(e) ==
    /\ e.kind = "SCALE" /\ desired[e.job] = 0
    /\ Place(e, Ramp)
    /\ UNCHANGED envelope

\* (mutant: the delta is taken from the base cohort)
BugAdded(e) == e.nodes - load[<<e.job, 0>>].nodes
Added(e) == e.nodes - desired[e.job]

\* A scale-up: the added nodes are a cohort of their own, cold.
Grow(e) ==
    LET key == <<e.job, counter[e.job] + 1>>
    IN  /\ e.kind = "SCALE" /\ desired[e.job] # 0 /\ e.nodes > desired[e.job]
        /\ load' = With(load, key, [nodes |-> Added(e), ramp |-> 0])
        /\ desired' = [desired EXCEPT ![e.job] = e.nodes]
        /\ counter' = [counter EXCEPT ![e.job] = @ + 1]
        /\ envelope' = OpenEnvelope(key)

\* What is left to take from a cohort once the newer ones have given theirs.
Owed(e, key) ==
    LET newer == {k \in Cohorts(e.job) : k[2] > key[2]}
    IN  desired[e.job] - e.nodes - Total(NodeCounts, newer)

\* The cohorts that a scale-down empties.
Gone(e) == {k \in Cohorts(e.job) : Owed(e, k) >= load[k].nodes}
\* _last_scale_removed_cohort_keys: what SimulationState learns of them.
Reported(e) == Gone(e)

\* A scale-down: the newest cohorts go first, the base gives what they cannot.
Shrink(e) ==
    LET left(k) == load[k].nodes - (IF Owed(e, k) > 0 THEN Owed(e, k) ELSE 0)
    IN  /\ e.kind = "SCALE" /\ e.nodes < desired[e.job]
        /\ load' = [k \in DOMAIN load \ Gone(e) |->
                IF k \in KeysOf(e.job)
                THEN [load[k] EXCEPT !.nodes = IF left(k) > 0 THEN left(k) ELSE 0]
                ELSE load[k]]
        /\ desired' = [desired EXCEPT ![e.job] = e.nodes]
        /\ envelope' = EndEnvelopes(Reported(e), e.at)
        /\ UNCHANGED counter

Endings == {"JOB_END", "CANCELLED", "JOB_FAILED", "JOB_TIMEOUT", "JOB_PREEMPTED"}

\* A job goes with all its cohorts; its heat is already in the room.
Remove(e) ==
    /\ e.kind \in Endings
    /\ load' = [k \in DOMAIN load \ KeysOf(e.job) |-> load[k]]
    /\ desired' = [desired EXCEPT ![e.job] = 0]
    /\ counter' = [counter EXCEPT ![e.job] = 0]
    /\ envelope' = EndEnvelopes(Cohorts(e.job) \cup {<<e.job, 0>>}, e.at)

\* QUEUED, and a SCALE to the count there is.
Ignore(e) ==
    /\ \/ e.kind \notin Endings \cup {"STARTING", "RUNNING", "SCALE"}
       \/ e.kind = "SCALE" /\ desired[e.job] # 0 /\ e.nodes = desired[e.job]
    /\ UNCHANGED loadVars

ApplySignal(e) ==
    Install(e) \/ Snap(e) \/ Grow(e) \/ Shrink(e) \/ Remove(e) \/ Ignore(e)

Ramped(ramp, dt) == IF ramp + dt < Ramp THEN ramp + dt ELSE Ramp

\* GPUModule.advance and the pruning of CoolingModule.advance.
AdvanceLoad(now, dt) ==
    /\ load' = [k \in DOMAIN load |-> [load[k] EXCEPT !.ramp = Ramped(@, dt)]]
    /\ envelope' = [k \in {c \in DOMAIN envelope :
                            envelope[c] = Open \/ now <= envelope[c] + Retention} |->
                        envelope[k]]
    /\ UNCHANGED <<desired, counter>>

LoadInit ==
    /\ load = NoKeys /\ envelope = NoKeys
    /\ desired = [j \in Jobs |-> 0]
    /\ counter = [j \in Jobs |-> 0]

\* The keys of both dictionaries are keys, and no ramp goes past full power.
LoadTypeOK ==
    /\ DOMAIN load \subseteq Keys /\ DOMAIN envelope \subseteq Keys
    /\ load \in [DOMAIN load -> [nodes : Nat, ramp : 0 .. Ramp]]
    /\ envelope \in [DOMAIN envelope -> Nat \cup {Open}]
    /\ desired \in [Jobs -> Nat] /\ counter \in [Jobs -> Nat]
=============================================================================
