--------------------------- MODULE SlurmScheduler ---------------------------
(***************************************************************************)
(* SlurmSchedulerEngine (core/slurm_scheduler.py): the deterministic       *)
(* internal scheduler of a run.  Its public operations are submit and      *)
(* submit_array, cancel, and advance, which a run calls at every tick and  *)
(* after every runtime submission.                                         *)
(*                                                                         *)
(* advance runs four loops, one after the other, in one synchronous call:  *)
(* finish the jobs whose time is up, preempt for blocked pending jobs,     *)
(* order the pending jobs, and start those that fit.  The variable stage   *)
(* says which loop is running and each iteration of a loop is one step;    *)
(* no other operation interleaves with them (they all need stage "idle").  *)
(*                                                                         *)
(* Jobs and nodes are numbers: their order is the order of job_id and      *)
(* node_id, which breaks every tie of the code.  cpus, memory and GPUs are *)
(* the dimensions Dims of a request, licenses and burst buffers are both   *)
(* pools (finite counters with one acquire/release discipline), and a QoS  *)
(* or account policy is a limit over the set of jobs it covers.  The       *)
(* static filters of a job (partition, GPU model, features, topology) are  *)
(* the set of nodes it matches.  Phases, checkpoints and energy are left   *)
(* out: a job has an effective duration and an outcome.                    *)
(***************************************************************************)
EXTENDS Integers, FiniteSets, Totals

CONSTANTS
    Jobs, Nodes,   \* finite sets of numbers, in job_id and node_id order
    Dims,          \* the resource dimensions, "gpu" among them
    Capacity,      \* [Nodes -> [Dims -> Nat]], _node_resource_capacity
    UpNodes,       \* the nodes whose state is IDLE or MIXED
    Pools, PoolCapacity,   \* licenses and burst buffers, [Pools -> Nat]
    Unconfigured,  \* the licenses, where _license_capacity is empty
    Owners,        \* accounts (or users), the fair-share owners
    Weight,        \* [Owners -> Nat \ {0}], fairshare_weight
    Reservations,  \* the names of the reservations
    Window,        \* [Reservations -> [nodes, start, end]]
    Limits,        \* QoS and account policies, [members, maxJobs, maxTres]
    Job,           \* [Jobs -> SlurmJobSpec], what each job asks for
    Backfill, PreemptMode,
    Batches,       \* the sets of jobs a caller submits before it advances
    Cancellable,   \* the jobs a caller may cancel
    Steps,         \* by how much one call may move the clock
    LastSubmit, MaxTime, MaxShare   \* bounds of the exploration

None == "none"
Kinds == {"afterok", "afterany", "aftercorr", "after"}
Outcomes == {"COMPLETED", "FAILED", "TIMEOUT"}
Terminal == Outcomes \cup {"CANCELLED", "PREEMPTED"}
States == {"NEW", "PENDING", "RUNNING"} \cup Terminal
Modes == {"off", "cancel", "requeue"}
GpuIds == Nodes \X Nat

SlurmJobSpec ==
    [duration : Nat \ {0}, outcome : Outcomes, nodeCount : Nat \ {0},
     request : [Dims -> Nat], matching : SUBSET Nodes, exclusive : BOOLEAN,
     pools : [Pools -> Nat], priority : Nat, qosFactor : Nat, owner : Owners,
     dependencies : SUBSET [kind : Kinds, base : Jobs, delay : Nat],
     reservation : {None} \cup Reservations, preemptible : BOOLEAN,
     requeue : BOOLEAN, preemptMode : Modes, tres : Nat,
     shareUsage : Nat, group : Nat, array : Nat, arrayMax : Nat]

\* Every job asks for at least one CPU on a node (ntasks and cpus_per_task are
\* positive), so a node that hosts an allocation is never measured as idle.
ASSUME JobsAssumption == Jobs \subseteq Nat /\ IsFiniteSet(Jobs)
ASSUME NodesAssumption == Nodes \subseteq Nat /\ IsFiniteSet(Nodes)
ASSUME DimsAssumption == "gpu" \in Dims
ASSUME CapacityAssumption ==
    /\ Capacity \in [Nodes -> [Dims -> Nat]] /\ PoolCapacity \in [Pools -> Nat]
    /\ Unconfigured \subseteq Pools /\ \A p \in Unconfigured : PoolCapacity[p] = 0
ASSUME JobAssumption ==
    /\ Job \in [Jobs -> SlurmJobSpec]
    /\ \A j \in Jobs : \E d \in Dims : Job[j].request[d] > 0
ASSUME OwnersAssumption == Weight \in [Owners -> Nat \ {0}]
ASSUME LimitsAssumption ==
    Limits \subseteq [members : SUBSET Jobs, maxJobs : Nat, maxTres : Nat]
ASSUME CallersAssumption ==
    Batches \subseteq SUBSET Jobs /\ Cancellable \subseteq Jobs /\ Steps \subseteq Nat

VARIABLES
    time,       \* self.time
    sequence,   \* self._sequence
    submitted,  \* self._submitted: the submission number of each job
    state,      \* self._state ("NEW": not in self._jobs yet)
    alloc,      \* self._allocations, a dict: DOMAIN alloc is its keys
    startedAt,  \* self._times: the last start, -1 if the job never started
    poolUsed,   \* self._license_used and self._burst_buffer_used
    fairUsage,  \* self._fairshare_usage
    lastSignal, \* the last lifecycle signal emitted for each job
    stage,      \* the loop of advance that is running, "idle" outside advance
    todo,       \* the jobs the running loop has still to visit
    usageAtSort, \* fairUsage when _schedule sorted its queue
    starting    \* components chosen to start, with their nodes

jobVars == <<sequence, submitted>>
passVars == <<todo, usageAtSort, starting>>
vars == <<time, sequence, submitted, state, alloc, startedAt, poolUsed,
          fairUsage, lastSignal, stage, todo, usageAtSort, starting>>

Empty == [x \in {} |-> x]
Known == {j \in Jobs : state[j] # "NEW"}
Pending == {j \in Jobs : state[j] = "PENDING"}
Running == {j \in Jobs : state[j] = "RUNNING"}
EndOf(j) == startedAt[j] + Job[j].duration

-----------------------------------------------------------------------------
(* Resources. *)

AllocsOn(n) == {j \in DOMAIN alloc : n \in alloc[j].nodes}

\* What the jobs ask for, by dimension and by pool, and their TRES.
Requests == [d \in Dims |-> [j \in Jobs |-> Job[j].request[d]]]
Shares == [p \in Pools |-> [j \in Jobs |-> Job[j].pools[p]]]
Tres == [j \in Jobs |-> Job[j].tres]

\* _used_on_node: what the allocations on a node take of one dimension, and
\* whether one of them is exclusive.
UsedOnNode(n, d) == Total(Requests[d], AllocsOn(n))
NodeBusy(n) == \E j \in AllocsOn(n) : \E d \in Dims : Job[j].request[d] > 0
NodeExclusive(n) == \E j \in AllocsOn(n) : Job[j].exclusive

\* Without a reservation a job keeps out of every open window, with one it
\* runs only on the reserved nodes while the window is open.
ReservationContains(r, n) ==
    n \in Window[r].nodes /\ Window[r].start <= time /\ time <= Window[r].end
ReservationOk(j, n) ==
    IF Job[j].reservation = None
    THEN \A r \in Reservations : ~ReservationContains(r, n)
    ELSE ReservationContains(Job[j].reservation, n)

PoolsAvailable(j) ==
    \A p \in Pools : poolUsed[p] + Job[j].pools[p] <= PoolCapacity[p]

\* (mutant: the request is left out of the comparison)
BugAvailable(j, blocked) ==
    {n \in (Job[j].matching \cap UpNodes) \ blocked :
        /\ (NodeExclusive(n) \/ Job[j].exclusive) => ~NodeBusy(n)
        /\ \A d \in Dims : UsedOnNode(n, d) <= Capacity[n][d]
        /\ ReservationOk(j, n)
        /\ PoolsAvailable(j)}
\* _available: the nodes one component may take; none at all when a license or
\* a burst buffer is short.
Available(j, blocked) ==
    {n \in (Job[j].matching \cap UpNodes) \ blocked :
        /\ (NodeExclusive(n) \/ Job[j].exclusive) => ~NodeBusy(n)
        /\ \A d \in Dims :
              UsedOnNode(n, d) + Job[j].request[d] <= Capacity[n][d]
        /\ ReservationOk(j, n)
        /\ PoolsAvailable(j)}

\* The first k elements of a set of numbers.
First(S, k) == {x \in S : Cardinality({y \in S : y < x}) < k}

Occupied == UNION {alloc[j].gpus : j \in DOMAIN alloc}

\* (mutant: the GPUs of the other jobs are not looked at)
BugFreeGpus(n) == 0 .. Capacity[n]["gpu"] - 1
\* _allocate_gpu_ids: on each node, the free indices from the lowest.
FreeGpus(n) == {i \in 0 .. Capacity[n]["gpu"] - 1 : <<n, i>> \notin Occupied}
AllocateGpuIds(nodes, k) ==
    UNION {{<<n, i>> : i \in First(FreeGpus(n), k)} : n \in nodes}

Acquire(j) == [p \in Pools |-> poolUsed[p] + Job[j].pools[p]]
Release(j) ==
    [p \in Pools |-> IF poolUsed[p] > Job[j].pools[p]
                     THEN poolUsed[p] - Job[j].pools[p] ELSE 0]
Without(j) == [k \in DOMAIN alloc \ {j} |-> alloc[k]]

-----------------------------------------------------------------------------
(* Submission and cancellation. *)

\* _possible: the job could run on an idle cluster, whatever its nodes' state.
\* The licenses are not looked at where none is configured: a job that asks for one is
\* accepted, and never available.
Possible(j) ==
    /\ Cardinality({n \in Job[j].matching :
            \A d \in Dims : Job[j].request[d] <= Capacity[n][d]})
         >= Job[j].nodeCount
    /\ \A p \in Pools \ Unconfigured : Job[j].pools[p] <= PoolCapacity[p]

\* submit, or submit_array over the tasks of one batch in order: a task that is
\* known already or impossible raises, and the tasks before it stay queued.
Accepted(batch) ==
    {j \in batch : \A i \in batch : i <= j => state[i] = "NEW" /\ Possible(i)}

Submit(batch, when) ==
    LET accepted == Accepted(batch)
    IN  /\ stage = "idle"
        /\ when <= LastSubmit
        /\ accepted # {}
        /\ time' = when
        /\ submitted' = [j \in Jobs |-> IF j \in accepted
                THEN sequence + Cardinality({i \in accepted : i < j})
                ELSE submitted[j]]
        /\ sequence' = sequence + Cardinality(accepted)
        /\ state' = [j \in Jobs |-> IF j \in accepted THEN "PENDING" ELSE state[j]]
        /\ lastSignal' = [j \in Jobs |->
                IF j \in accepted THEN "QUEUED" ELSE lastSignal[j]]
        /\ UNCHANGED <<alloc, startedAt, poolUsed, fairUsage, stage, passVars>>

\* cancel gives back the pools of the job whatever its state: one that is still
\* pending gives back what it never acquired.
Cancel(j) ==
    /\ stage = "idle"
    /\ state[j] \in {"PENDING", "RUNNING"}
    /\ alloc' = Without(j)
    /\ poolUsed' = Release(j)
    /\ state' = [state EXCEPT ![j] = "CANCELLED"]
    /\ lastSignal' = [lastSignal EXCEPT ![j] = "CANCELLED"]
    /\ UNCHANGED <<time, jobVars, startedAt, fairUsage, stage, passVars>>

-----------------------------------------------------------------------------
(* advance, first loop: finish the jobs whose end has come. *)

Advance(now) ==
    /\ stage = "idle"
    /\ now <= MaxTime
    /\ \A o \in Owners : fairUsage[o] < MaxShare
    /\ time' = now
    /\ stage' = "finish"
    /\ UNCHANGED <<jobVars, state, alloc, startedAt, poolUsed, fairUsage,
                   lastSignal, passVars>>

Due == {j \in DOMAIN alloc : EndOf(j) <= time}

\* (mutant: the pools are not given back)
BugFinish(j) ==
    /\ stage = "finish"
    /\ j \in Due /\ \A k \in Due : j <= k
    /\ alloc' = Without(j)
    /\ state' = [state EXCEPT ![j] = Job[j].outcome]
    /\ lastSignal' = [lastSignal EXCEPT ![j] = Job[j].outcome]
    /\ UNCHANGED <<time, jobVars, startedAt, poolUsed, fairUsage, stage, passVars>>

\* (mutant: every end is signalled as a completion)
BugFinishSignal(j) ==
    /\ stage = "finish"
    /\ j \in Due /\ \A k \in Due : j <= k
    /\ alloc' = Without(j)
    /\ poolUsed' = Release(j)
    /\ state' = [state EXCEPT ![j] = Job[j].outcome]
    /\ lastSignal' = [lastSignal EXCEPT ![j] = "COMPLETED"]
    /\ UNCHANGED <<time, jobVars, startedAt, fairUsage, stage, passVars>>
\* _finish, reached through _advance_virtual_job, in job_id order.
Finish(j) ==
    /\ stage = "finish"
    /\ j \in Due /\ \A k \in Due : j <= k
    /\ alloc' = Without(j)
    /\ poolUsed' = Release(j)
    /\ state' = [state EXCEPT ![j] = Job[j].outcome]
    /\ lastSignal' = [lastSignal EXCEPT ![j] = Job[j].outcome]
    /\ UNCHANGED <<time, jobVars, startedAt, fairUsage, stage, passVars>>

FinishDone ==
    /\ stage = "finish"
    /\ Due = {}
    /\ stage' = "preempt"
    /\ todo' = IF PreemptMode = "off" THEN {} ELSE Pending
    /\ UNCHANGED <<time, jobVars, state, alloc, startedAt, poolUsed, fairUsage,
                   lastSignal, usageAtSort, starting>>

-----------------------------------------------------------------------------
(* Second loop, _preempt_for_pending: one victim for each pending job that no *)
(* node is available to, whatever keeps that job from starting.               *)

Outranks(j, k) ==
    \/ Job[j].priority > Job[k].priority
    \/ Job[j].priority = Job[k].priority /\ j < k
Weaker(j, k) ==
    \/ Job[j].priority < Job[k].priority
    \/ Job[j].priority = Job[k].priority /\ j < k

\* (mutant: priorities are not compared)
BugVictims(j) == {k \in DOMAIN alloc : Job[k].preemptible}
Victims(j) == {k \in DOMAIN alloc :
                  Job[k].preemptible /\ Job[k].priority < Job[j].priority}

NextToPreemptFor(j) ==
    /\ stage = "preempt"
    /\ j \in todo /\ \A k \in todo \ {j} : Outranks(j, k)
    /\ todo' = todo \ {j}

NeedsVictim(j) ==
    Available(j, {}) = {} /\ Victims(j) # {} /\ Job[j].preemptMode # "off"

Preempt(j, victim) ==
    /\ NextToPreemptFor(j)
    /\ NeedsVictim(j)
    /\ victim \in Victims(j) /\ \A k \in Victims(j) \ {victim} : Weaker(victim, k)
    /\ alloc' = Without(victim)
    /\ poolUsed' = Release(victim)
    /\ state' = [state EXCEPT ![victim] =
            IF Job[j].preemptMode = "requeue" \/ Job[victim].requeue
            THEN "PENDING" ELSE "PREEMPTED"]
    /\ lastSignal' = [lastSignal EXCEPT ![victim] =
            IF Job[j].preemptMode = "requeue" THEN "QUEUED" ELSE "PREEMPTED"]
    /\ UNCHANGED <<time, jobVars, startedAt, fairUsage, stage, usageAtSort,
                   starting>>

PreemptSkip(j) ==
    /\ NextToPreemptFor(j)
    /\ ~NeedsVictim(j)
    /\ UNCHANGED <<time, jobVars, state, alloc, startedAt, poolUsed, fairUsage,
                   lastSignal, stage, usageAtSort, starting>>

\* _schedule sorts its queue once, by the usage of this moment.
PreemptDone ==
    /\ stage = "preempt"
    /\ todo = {}
    /\ stage' = "schedule"
    /\ todo' = Pending
    /\ usageAtSort' = fairUsage
    /\ UNCHANGED <<time, jobVars, state, alloc, startedAt, poolUsed, fairUsage,
                   lastSignal, starting>>

-----------------------------------------------------------------------------
(* Third loop, _schedule. *)

\* The sort key: priority by QoS factor, then fair-share usage, then age and
\* submission order.  submit moves the clock to the arrival, so a job that was
\* submitted earlier never arrived later: the number alone orders both.
Urgency(j) == Job[j].priority * Job[j].qosFactor
ShareUsage(j) == Job[j].shareUsage + usageAtSort[Job[j].owner]

\* _fair_share_key divides the usage by the owner's weight: cross-multiplied.
LighterShare(j, k) ==
    ShareUsage(j) * Weight[Job[k].owner] < ShareUsage(k) * Weight[Job[j].owner]

Precedes(j, k) ==
    \/ Urgency(j) > Urgency(k)
    \/ Urgency(j) = Urgency(k) /\ LighterShare(j, k)
    \/ /\ Urgency(j) = Urgency(k)
       /\ ~LighterShare(j, k) /\ ~LighterShare(k, j)
       /\ submitted[j] < submitted[k]

\* (mutant: a cancelled job satisfies every kind of dependency)
BugSatisfiedBy(kind) ==
    {"COMPLETED", "CANCELLED"} \cup (IF kind = "after" THEN {"RUNNING"} ELSE {})
SatisfiedBy(kind) ==
    CASE kind = "afterok" -> {"COMPLETED"}
      [] kind \in {"afterany", "aftercorr"} -> {"COMPLETED", "CANCELLED"}
      [] kind = "after" -> {"RUNNING", "COMPLETED", "CANCELLED"}

DependencyReady(j) ==
    \A dep \in Job[j].dependencies :
        /\ state[dep.base] \in SatisfiedBy(dep.kind)
        /\ (dep.delay > 0 /\ startedAt[dep.base] >= 0)
              => time >= EndOf(dep.base) + dep.delay

ArrayAtCapacity(j) ==
    /\ Job[j].array # 0 /\ Job[j].arrayMax # 0
    /\ Cardinality({k \in Running : Job[k].array = Job[j].array})
         >= Job[j].arrayMax

PolicyCapacityAvailable(j) ==
    \A l \in {m \in Limits : j \in m.members} :
        /\ Cardinality((Running \cup Pending) \cap l.members) <= l.maxJobs
        /\ Total(Tres, Running \cap l.members) + Job[j].tres <= l.maxTres

\* (mutant: each component is scheduled by itself)
BugComponents(j) == {j}
\* The components of a heterogeneous job that are waiting with j (job_id order
\* is component order), or j alone.
Components(j) ==
    IF Job[j].group = 0 THEN {j}
    ELSE {k \in Pending : Job[k].group = Job[j].group}

\* Each component takes the first nodes the components before it left; pools,
\* limits and array tasks are compared with what is running, not with what the
\* components before it are about to take.
Placement(C, chosen) ==
    /\ chosen \in [C -> SUBSET Nodes]
    /\ \A c \in C :
          LET free == Available(c, UNION {chosen[b] : b \in {b \in C : b < c}})
          IN  /\ Cardinality(free) >= Job[c].nodeCount
              /\ chosen[c] = First(free, Job[c].nodeCount)
              /\ ~ArrayAtCapacity(c)
              /\ PolicyCapacityAvailable(c)

Eligible(C) == \A c \in C : DependencyReady(c)

NextToSchedule(j) ==
    /\ stage = "schedule"
    /\ starting = Empty
    /\ j \in todo /\ \A k \in todo \ {j} : Precedes(j, k)

Choose(j) ==
    LET C == Components(j)
    IN  /\ NextToSchedule(j)
        /\ Eligible(C)
        /\ \E chosen \in [C -> SUBSET Nodes] :
              Placement(C, chosen) /\ starting' = chosen
        /\ todo' = todo \ C
        /\ UNCHANGED <<time, jobVars, state, alloc, startedAt, poolUsed,
                       fairUsage, lastSignal, stage, usageAtSort>>

\* A job that is not eligible is passed over.  So is one that does not fit,
\* unless backfill is off: then a shortage of nodes ends the pass, and for a
\* heterogeneous job a full array or limit ends it too.
Fits(C) == \E chosen \in [C -> SUBSET Nodes] : Placement(C, chosen)
Held(j) == ArrayAtCapacity(j) \/ ~PolicyCapacityAvailable(j)

\* (mutant: the pass goes on whatever Backfill says)
BugPassOver(j) ==
    LET C == Components(j)
    IN  /\ NextToSchedule(j)
        /\ ~(Eligible(C) /\ Fits(C))
        /\ todo' = todo \ C
        /\ UNCHANGED <<time, jobVars, state, alloc, startedAt, poolUsed,
                       fairUsage, lastSignal, stage, usageAtSort, starting>>
PassOver(j) ==
    LET C == Components(j)
        ends == /\ ~Backfill
                /\ Eligible(C)
                /\ Job[j].group = 0 => ~Held(j)
    IN  /\ NextToSchedule(j)
        /\ ~(Eligible(C) /\ Fits(C))
        /\ todo' = IF ends THEN {} ELSE todo \ C
        /\ UNCHANGED <<time, jobVars, state, alloc, startedAt, poolUsed,
                       fairUsage, lastSignal, stage, usageAtSort, starting>>

\* _start_job, for the chosen components in order.
Start(j) ==
    /\ stage = "schedule"
    /\ j \in DOMAIN starting /\ \A k \in DOMAIN starting : j <= k
    /\ alloc' = [k \in DOMAIN alloc \cup {j} |->
            IF k = j
            THEN [nodes |-> starting[j],
                  gpus |-> AllocateGpuIds(starting[j], Job[j].request["gpu"])]
            ELSE alloc[k]]
    /\ poolUsed' = Acquire(j)
    /\ startedAt' = [startedAt EXCEPT ![j] = time]
    /\ state' = [state EXCEPT ![j] = "RUNNING"]
    /\ fairUsage' = [fairUsage EXCEPT ![Job[j].owner] = @ + Job[j].duration]
    /\ lastSignal' = [lastSignal EXCEPT ![j] = "RUNNING"]
    /\ starting' = [k \in DOMAIN starting \ {j} |-> starting[k]]
    /\ UNCHANGED <<time, jobVars, stage, todo, usageAtSort>>

ScheduleDone ==
    /\ stage = "schedule"
    /\ todo = {} /\ starting = Empty
    /\ stage' = "idle"
    /\ usageAtSort' = [o \in Owners |-> 0]
    /\ UNCHANGED <<time, jobVars, state, alloc, startedAt, poolUsed, fairUsage,
                   lastSignal, todo, starting>>

-----------------------------------------------------------------------------
Init ==
    /\ time = 0
    /\ sequence = 0
    /\ submitted = [j \in Jobs |-> 0]
    /\ state = [j \in Jobs |-> "NEW"]
    /\ alloc = Empty
    /\ startedAt = [j \in Jobs |-> -1]
    /\ poolUsed = [p \in Pools |-> 0]
    /\ fairUsage = [o \in Owners |-> 0]
    /\ lastSignal = [j \in Jobs |-> None]
    /\ stage = "idle"
    /\ todo = {}
    /\ usageAtSort = [o \in Owners |-> 0]
    /\ starting = Empty

\* The steps of an advance that is under way.
Continue ==
    \/ \E j \in Jobs : Finish(j)
    \/ FinishDone
    \/ \E j, victim \in Jobs : Preempt(j, victim)
    \/ \E j \in Jobs : PreemptSkip(j)
    \/ PreemptDone
    \/ \E j \in Jobs : Choose(j)
    \/ \E j \in Jobs : PassOver(j)
    \/ \E j \in Jobs : Start(j)
    \/ ScheduleDone

\* The tick of the run, and the advance that follows a runtime submission.
Tick == \E d \in Steps : d > 0 /\ Advance(time + d)

Next ==
    \/ \E batch \in Batches, d \in Steps : Submit(batch, time + d)
    \/ \E j \in Cancellable : Cancel(j)
    \/ \E d \in Steps : Advance(time + d)
    \/ Continue

Spec == Init /\ [][Next]_vars

\* advance returns (it is one synchronous call), and the run's own task gets its
\* turn between the calls of the routes: asyncio serves its ready tasks in order,
\* so calls that keep coming cannot keep the tick from happening.
FairSpec == Spec /\ WF_vars(Continue) /\ SF_vars(Tick)
-----------------------------------------------------------------------------
(* Conditions on what is submitted, under which the theorems of               *)
(* SlurmSchedulerProofs hold of every cluster: the code checks none of them.  *)

\* Two components of one heterogeneous job.
Mates(j, k) == /\ j \in Jobs /\ k \in Jobs
               /\ Job[j].group # 0 /\ Job[j].group = Job[k].group

\* No job that holds a pool may be cancelled: cancel gives back the pools of a job
\* that is still pending.
CancelsHoldNoPool == \A j \in Cancellable, p \in Pools : Job[j].pools[p] = 0

\* No two components of a job ask for the same pool: they are tested one by one.
ComponentsPoolsDisjoint ==
    \A j, k \in Jobs : (j # k /\ Mates(j, k))
        => \A p \in Pools : Job[j].pools[p] = 0 \/ Job[k].pools[p] = 0

\* The tasks of an array come from one submission, with one maximum.
ArraysUniform ==
    \A j, k \in Jobs : (Job[j].array # 0 /\ Job[j].array = Job[k].array)
        => Job[j].arrayMax = Job[k].arrayMax

\* No two components of a job are tasks of one array or weigh in one limit.
ComponentsCountOnce ==
    \A j, k \in Jobs : (j # k /\ Mates(j, k)) =>
        /\ Job[j].array # 0 => Job[j].array # Job[k].array
        /\ \A l \in Limits : {j, k} \subseteq l.members
               => Job[j].tres = 0 \/ Job[k].tres = 0

\* The components of a job are submitted by one call, and none of them is cancelled
\* or preempted.
GroupsWhole ==
    \A j, k \in Jobs : Mates(j, k) =>
        /\ \A batch \in Batches : j \in batch <=> k \in batch
        /\ j \notin Cancellable /\ (PreemptMode = "off" \/ ~Job[j].preemptible)

\* They rank together, and if one of them depends on no job none of them does.
GroupsAlike ==
    \A j, k \in Jobs : Mates(j, k) =>
        /\ Urgency(j) = Urgency(k)
        /\ Job[j].dependencies = {} => Job[k].dependencies = {}

-----------------------------------------------------------------------------
(* Properties. *)

Signals == {None, "QUEUED", "RUNNING"} \cup Terminal
Allocation == [nodes : SUBSET Nodes, gpus : SUBSET GpuIds]

\* Every variable has its type: alloc and starting are dictionaries keyed by jobs.
TypeOK ==
    /\ time \in Nat /\ sequence \in Nat
    /\ submitted \in [Jobs -> Nat]
    /\ state \in [Jobs -> States]
    /\ DOMAIN alloc \subseteq Jobs /\ alloc \in [DOMAIN alloc -> Allocation]
    /\ startedAt \in [Jobs -> Nat \cup {-1}]
    /\ poolUsed \in [Pools -> Nat]
    /\ fairUsage \in [Owners -> Nat]
    /\ lastSignal \in [Jobs -> Signals]
    /\ stage \in {"idle", "finish", "preempt", "schedule"}
    /\ todo \subseteq Jobs
    /\ usageAtSort \in [Owners -> Nat]
    /\ DOMAIN starting \subseteq Jobs
    /\ starting \in [DOMAIN starting -> SUBSET Nodes]

\* _state and _allocations are two dictionaries that six places update: a job
\* is RUNNING exactly when it holds an allocation.
RunningIffAllocated == DOMAIN alloc = Running

\* No GPU is bound to two jobs at once, and no GPU of a node the job does not
\* hold is bound to it ("binds each allocated GPU to a stable identifier").
GpuExclusive ==
    /\ \A j \in DOMAIN alloc : \A g \in alloc[j].gpus :
          g[1] \in alloc[j].nodes /\ g[2] < Capacity[g[1]]["gpu"]
    /\ \A j, k \in DOMAIN alloc : j # k => alloc[j].gpus \cap alloc[k].gpus = {}

\* _allocate_gpu_ids silently binds fewer GPUs when too few are free: since the
\* identifiers and the sums of _used_on_node agree, that never happens.
GpuBindingComplete ==
    \A j \in DOMAIN alloc : \A n \in alloc[j].nodes :
        Cardinality({g \in alloc[j].gpus : g[1] = n}) = Job[j].request["gpu"]

\* What the allocations on a node take never exceeds the node, in any dimension.
NodeCapacity ==
    \A n \in Nodes, d \in Dims :
        Total(Requests[d], {j \in DOMAIN alloc : n \in alloc[j].nodes})
            <= Capacity[n][d]

\* A job that asks for exclusive nodes shares none of them, in either direction.
ExclusiveNodes ==
    \A j, k \in DOMAIN alloc :
        (j # k /\ Job[j].exclusive) => alloc[j].nodes \cap alloc[k].nodes = {}

\* Every node carries its allocations, whatever order the loops of advance took:
\* none is overbooked, no exclusive one is shared, and the GPUs that were counted
\* are bound.
NodesHonoured == NodeCapacity /\ ExclusiveNodes /\ GpuBindingComplete

\* The counter of a license or burst buffer is what the running jobs hold.
PoolsConserved ==
    \A p \in Pools : poolUsed[p] = Total(Shares[p], Running)

\* The running jobs never hold more of a license or burst buffer than there is.
PoolsWithinCapacity ==
    \A p \in Pools : Total(Shares[p], Running) <= PoolCapacity[p]

\* Acquired by starts and released by ends, cancellations and preemptions, the
\* counters balance, and no pool is overdrawn.
PoolsBalance == PoolsConserved /\ PoolsWithinCapacity

\* What is granted exists and is given back, on the nodes and in the pools.
ResourcesHonoured == NodesHonoured /\ PoolsBalance

\* A job that ever started has all its afterok dependencies COMPLETED, also after
\* it was preempted, requeued, cancelled or has ended.
AfterOkOrder ==
    \A j \in Jobs : startedAt[j] >= 0 =>
        \A dep \in Job[j].dependencies :
            dep.kind = "afterok" => state[dep.base] = "COMPLETED"

\* The components of a heterogeneous job that were submitted together are all
\* waiting or were all started at one instant.
HeterogeneousTogether ==
    stage = "idle" =>
        \A j, k \in Known :
            (Job[j].group # 0 /\ Job[j].group = Job[k].group)
                => startedAt[j] = startedAt[k]

\* No more tasks of an array run than its maximum concurrency.
ArrayConcurrency ==
    \A j \in Running : (Job[j].array # 0 /\ Job[j].arrayMax # 0) =>
        Cardinality({k \in Running : Job[k].array = Job[j].array})
            <= Job[j].arrayMax

\* The running jobs of a QoS or an account stay within its TRES limit.
TresWithinLimit ==
    \A l \in Limits : Total(Tres, Running \cap l.members) <= l.maxTres

\* One pass starts a group whole, and what it started before counts against the
\* limits of what it starts next.
PolicyKept == HeterogeneousTogether /\ ArrayConcurrency /\ TresWithinLimit

\* Between calls, the last signal a job emitted tells its state, so the load
\* the physics derives from the signals is the load of the running jobs.
SignalsTellState ==
    stage = "idle" => \A j \in Jobs :
        /\ lastSignal[j] = "RUNNING" <=> j \in DOMAIN alloc
        /\ state[j] \in Terminal => lastSignal[j] = state[j]

\* The dictionaries and the emitted signals tell the same story of every job.
BooksAgree == RunningIffAllocated /\ SignalsTellState

\* A job that ended, was cancelled or preempted for good never changes again,
\* and a job never goes back to the state it had before submission.
TerminalStable ==
    [][\A j \in Jobs :
        /\ state[j] \in Terminal => state'[j] = state[j]
        /\ state[j] # "NEW" => state'[j] # "NEW"]_vars

\* The engine implements the GPU leases: what a job holds is what _allocations
\* binds to it, and its phase is its _state.
HeldGpus == [j \in Jobs |-> IF j \in DOMAIN alloc THEN alloc[j].gpus ELSE {}]
Leases == INSTANCE GpuLeases WITH
    Gpus <- UNION {{<<n, i>> : i \in 0 .. Capacity[n]["gpu"] - 1} : n \in Nodes},
    Waiting <- "PENDING", Holding <- "RUNNING", Final <- Terminal,
    phase <- state, held <- HeldGpus
LeasesHonoured == Leases!Spec

\* A job that holds an allocation loses it only at its end, by cancellation, or
\* to a pending job of higher priority.
LosesOnlyToHigherPriority ==
    [][\A j \in DOMAIN alloc :
        (j \notin DOMAIN alloc' /\ state'[j] # "CANCELLED") =>
            \/ time >= EndOf(j) /\ state'[j] = Job[j].outcome
            \/ \E k \in Pending : Job[k].priority > Job[j].priority]_vars

\* Nothing is taken back: neither an end nor, without a reason, an allocation.
NothingTakenBack == TerminalStable /\ LosesOnlyToHigherPriority

\* With backfill off "later jobs wait rather than using its resources": a job that
\* was submitted after a more urgent one that waits only for nodes or a pool, not
\* for a dependency, an array slot or a limit, does not start before it.
NoOvertaking ==
    stage = "idle" => \A j, k \in Known :
        /\ Urgency(j) > Urgency(k)
        /\ submitted[j] < submitted[k]
        /\ state[j] # "CANCELLED"
        /\ Job[j].dependencies = {} /\ Job[j].array = 0
        /\ \A l \in Limits : j \notin l.members
        /\ startedAt[k] >= 0
        => startedAt[j] >= 0 /\ startedAt[j] <= startedAt[k]

\* Once all jobs are submitted (so that every dependency names a known job),
\* all of them end: no job waits for ever for nodes, licenses or its turn
\* (where licenses are configured; README, section 7).
EventuallyEnds == (Known = Jobs) ~> (\A j \in Jobs : state[j] \in Terminal)
=============================================================================
