---------------------------- MODULE RayExecution ----------------------------
(***************************************************************************)
(* The logical scheduler of Ray workloads (core/ray_execution_scheduler.py)*)
(* and the autoscaler that drives it (core/ray_autoscaler.py) over the     *)
(* clusters of RayClusters.  A resource vector is one number here.  Slot 1 *)
(* of a cluster is its head, slot n + 1 the worker worker-(n - 1).         *)
(*                                                                         *)
(* advance of the autoscaler is one synchronous call; its parts (the       *)
(* engine, the synchronisation of slots, each try to place, the            *)
(* reconciliation) are steps, and stage says which comes next.  What       *)
(* raises ends the call there and keeps what was done.                     *)
(***************************************************************************)
EXTENDS RayClusters, Functions, Totals

CONSTANTS
    Works,          \* the workloads, in the order of submission: a sequence of names
    Work,           \* cluster, spill, need, replicas, duration, deps, group and retries
    Groups,         \* the placement groups, a sequence
    Group,          \* cluster, bundles and strategy
    NoGroup,
    HeadSize, WorkerSize,     \* resources of the slots
    ScaleUpDelay, IdleDelay,  \* of the policy
    PowerWorkers,             \* the workers that the power budget carries
    Autoscaled,                     \* the cluster with a policy
    MaxScales                 \* bound: no worker fails of a cluster with more scale records

ASSUME WorksAssumption ==
    /\ Works \in Seq(DOMAIN Work)
    /\ \A w \in Range(Works) :
          /\ Work[w].cluster \in Clusters /\ Work[w].spill \in Seq(Clusters)
          /\ {Work[w].need, Work[w].duration, Work[w].retries} \subseteq Nat
          /\ Work[w].replicas \in Nat \ {0}
          /\ Work[w].group \in Range(Groups) \cup {NoGroup} /\ w \notin Work[w].deps
ASSUME GroupsAssumption ==
    /\ Groups \in Seq(DOMAIN Group) /\ NoGroup \notin Range(Groups)
    /\ \A g \in Range(Groups) :
          /\ Group[g].cluster \in Clusters /\ Group[g].bundles \in Seq(Nat)
          /\ Group[g].strategy \in {"PACK", "SPREAD", "STRICT_PACK", "STRICT_SPREAD"}
ASSUME PolicyAssumption ==
    /\ Autoscaled \in Elastic
    /\ {HeadSize, WorkerSize, ScaleUpDelay, IdleDelay} \subseteq Nat /\ WorkerSize > 0

VARIABLES
    work,        \* the state of each workload, where it runs and for how long still
    slots,       \* by cluster: the used resources of its slots, empty until it is ready
    group,       \* by group: its state, the slots of its bundles and what is used of them
    pendingFor,  \* the time demand has been pending, and
    idleFor,     \* the time workers have been idle; Never when not
    stage,       \* "idle", "sync", "progress", "place" or "reconcile"
    cursor,      \* the next item of the placing loop
    forgotten    \* history: a scale-down took away what replacements of lost workers may reuse

execVars == <<work, slots, group, pendingFor, idleFor, stage, cursor, forgotten>>
rayVars == <<cl, execVars>>

AllWorks == Range(Works)
AllGroups == Range(Groups)
Never == -1

NotSubmitted == [state |-> "NEW", on |-> "none", at |-> <<>>, via |-> "none", attempt |-> 0, left |-> 0]
RayInit ==
    /\ ClustersInit
    /\ work = [w \in AllWorks |-> NotSubmitted]
    /\ slots = [c \in Clusters |-> <<>>]
    /\ group = [g \in AllGroups |-> [state |-> "NEW", at |-> <<>>, used |-> <<>>]]
    /\ pendingFor = Never /\ idleFor = Never /\ stage = "idle" /\ cursor = 0
    /\ forgotten = FALSE

Ready(c) == cl[c].life = "READY"
SlotSize(i) == IF i = 1 THEN HeadSize ELSE WorkerSize
\* _ensure_cluster_runtime: slots are made once.
Ensured(S) ==
    [c \in Clusters |->
        IF c \in S /\ slots[c] = <<>> THEN [i \in 1 .. cl[c].registered + 1 |-> 0] ELSE slots[c]]

-----------------------------------------------------------------------------
(* Submission. *)

DependenciesReady(w) == \A d \in Work[w].deps : work[d].state = "SUCCEEDED"
GroupPlaced(w) == Work[w].group # NoGroup => group[Work[w].group].state = "PLACED"

SubmitGroup(g) ==
    /\ stage = "idle" /\ group[g].state = "NEW" /\ Ready(Group[g].cluster)
    /\ group' = [group EXCEPT ![g] =
          [state |-> "QUEUED", at |-> <<>>, used |-> [i \in DOMAIN Group[g].bundles |-> 0]]]
    /\ slots' = Ensured({Group[g].cluster})
    /\ UNCHANGED <<cl, work, pendingFor, idleFor, stage, cursor, forgotten>>

SubmitWork(w) ==
    LET candidates == {Work[w].cluster} \cup Range(Work[w].spill)
    IN  /\ stage = "idle" /\ work[w].state = "NEW" /\ \A c \in candidates : Ready(c)
        /\ slots' = Ensured(candidates)
        /\ work' = [work EXCEPT ![w].state =
              IF DependenciesReady(w) /\ GroupPlaced(w) THEN "QUEUED" ELSE "BLOCKED"]
        /\ UNCHANGED <<cl, group, pendingFor, idleFor, stage, cursor, forgotten>>

-----------------------------------------------------------------------------
(* Placement: first fit. *)

\* What of the requests lies in slot i.
Held(sizes, at, i) == Total(sizes, {k \in DOMAIN at : at[k] = i})
\* The slots with room for the k-th request, the ones before it placed; a spread avoids
\* those that have one.
Room(c, sizes, at, k) ==
    {i \in DOMAIN slots[c] :
        slots[c][i] + Total(sizes, {m \in 1 .. k - 1 : at[m] = i}) + sizes[k] <= SlotSize(i)}
Options(c, sizes, strategy, at, k) ==
    LET room == Room(c, sizes, at, k)
        fresh == room \ {at[m] : m \in 1 .. k - 1}
    IN  IF strategy = "STRICT_SPREAD" \/ (strategy = "SPREAD" /\ fresh # {}) THEN fresh ELSE room
\* The placement, if there is one: each request in turn in the first slot it may take.
Placements(c, sizes, strategy) ==
    {at \in [DOMAIN sizes -> DOMAIN slots[c]] :
        \A k \in DOMAIN sizes :
            LET options == Options(c, sizes, strategy, at, k)
            IN  options # {} /\ at[k] = Min(options)}
Filled(c, sizes, at) ==
    [slots EXCEPT ![c] = [i \in DOMAIN @ |-> @[i] + Held(sizes, at, i)]]

\* _place_normal.
Sizes(w) == [k \in 1 .. Work[w].replicas |-> Work[w].need]
NormalPlacements(w, c) == Placements(c, Sizes(w), "PACK")

\* _choose_bundle_slots.
SumOf(s) == Total(s, DOMAIN s)
PackedPlacements(g, c) ==
    LET room == {i \in DOMAIN slots[c] : slots[c][i] + SumOf(Group[g].bundles) <= SlotSize(i)}
    IN  {[b \in DOMAIN Group[g].bundles |-> i] : i \in {k \in room : k = Min(room)}}
BundlePlacements(g) ==
    IF Group[g].strategy = "STRICT_PACK" THEN PackedPlacements(g, Group[g].cluster)
    ELSE Placements(Group[g].cluster, Group[g].bundles, Group[g].strategy)

\* _place_in_group: replica i in bundle i.
InGroupFits(w, g) ==
    /\ Work[w].replicas <= Len(Group[g].bundles)
    /\ \A i \in 1 .. Work[w].replicas : group[g].used[i] + Work[w].need <= Group[g].bundles[i]

-----------------------------------------------------------------------------
(* The release of what a workload holds, and the requests that cause it. *)

\* (mutant: a retried workload keeps its slots)
BugSlotsWithout(w) ==
    IF work[w].attempt <= Work[w].retries THEN slots
    ELSE [slots EXCEPT ![work[w].on] = [i \in DOMAIN @ |-> @[i] - Held(Sizes(w), work[w].at, i)]]
SlotsWithout(w) ==
    IF work[w].via # "normal" THEN slots
    ELSE [slots EXCEPT ![work[w].on] = [i \in DOMAIN @ |-> @[i] - Held(Sizes(w), work[w].at, i)]]
GroupsWithout(w) ==
    IF work[w].via # "group" THEN group
    ELSE [group EXCEPT ![Work[w].group].used =
             [i \in DOMAIN @ |-> IF i <= Work[w].replicas THEN @[i] - Work[w].need ELSE @[i]]]
EndedAs(w, state) == [work[w] EXCEPT !.state = state, !.at = <<>>, !.via = "none"]

Retried(w) == work[w].attempt <= Work[w].retries
FailWork(w) ==
    /\ stage = "idle" /\ work[w].state = "RUNNING"
    /\ slots' = SlotsWithout(w) /\ group' = GroupsWithout(w)
    /\ work' = [work EXCEPT ![w] =
          EndedAs(w, IF Retried(w) THEN "QUEUED" ELSE "FAILED")]
    /\ UNCHANGED <<cl, pendingFor, idleFor, stage, cursor, forgotten>>
CancelWork(w) ==
    /\ stage = "idle" /\ work[w].state \in {"QUEUED", "BLOCKED", "RUNNING"}
    /\ slots' = SlotsWithout(w) /\ group' = GroupsWithout(w)
    /\ work' = [work EXCEPT ![w] = EndedAs(w, "CANCELLED")]
    /\ UNCHANGED <<cl, pendingFor, idleFor, stage, cursor, forgotten>>
Uses(w, g) == Work[w].group = g /\ work[w].state \in {"RUNNING", "QUEUED", "BLOCKED"}
ReleaseGroup(g) ==
    /\ stage = "idle" /\ group[g].state = "PLACED" /\ ~\E w \in AllWorks : Uses(w, g)
    /\ slots' = [slots EXCEPT ![Group[g].cluster] =
          [i \in DOMAIN @ |-> @[i] - Held(Group[g].bundles, group[g].at, i)]]
    /\ group' = [group EXCEPT ![g].state = "RELEASED"]
    /\ UNCHANGED <<cl, work, pendingFor, idleFor, stage, cursor, forgotten>>

-----------------------------------------------------------------------------
(* advance of the autoscaler. *)

Advance ==
    /\ stage = "idle" /\ AdvanceEngine
    /\ stage' = IF cl'[Autoscaled].life = "READY" THEN "sync" ELSE "reconcile"
    /\ UNCHANGED <<work, slots, group, pendingFor, idleFor, cursor, forgotten>>

\* sync_cluster: new slots for new workers; a slot in use is not removed.
Busy(c) == {i \in DOMAIN slots[c] : i > cl[c].registered + 1 /\ slots[c][i] > 0}
Synced(c) ==
    LET n == IF Busy(c) = {} THEN cl[c].registered + 1 ELSE Max(Busy(c))
    IN  [i \in 1 .. n |-> IF i \in DOMAIN slots[c] THEN slots[c][i] ELSE 0]
\* Then advance of the scheduler begins with the workloads that have come to their end.
Finished == {w \in AllWorks : work[w].state = "RUNNING" /\ work[w].left <= 1}
FreedBy(S, c, i) ==
    Total([w \in AllWorks |-> Held(Sizes(w), work[w].at, i)],
          {w \in S : work[w].on = c /\ work[w].via = "normal"})
\* What the workloads of S that run in the group use of its i-th bundle.
UsedBy(S, g, i) ==
    Total([w \in AllWorks |-> Work[w].need],
          {w \in S : work[w].via = "group" /\ Work[w].group = g /\ i <= Work[w].replicas})
\* (mutant: raises on any worker that is in use)
BugSync ==
    /\ stage = "sync" /\ slots' = [Ensured({Autoscaled}) EXCEPT ![Autoscaled] = Synced(Autoscaled)]
    /\ stage' = IF \E i \in DOMAIN slots[Autoscaled] : i > 1 /\ slots[Autoscaled][i] > 0
                THEN "idle" ELSE "progress"
    /\ UNCHANGED <<cl, work, group, pendingFor, idleFor, cursor, forgotten>>
Sync ==
    /\ stage = "sync" /\ slots' = [Ensured({Autoscaled}) EXCEPT ![Autoscaled] = Synced(Autoscaled)]
    /\ stage' = IF Busy(Autoscaled) = {} THEN "progress" ELSE "idle"
    /\ UNCHANGED <<cl, work, group, pendingFor, idleFor, cursor, forgotten>>
Progress ==
    /\ stage = "progress" /\ stage' = "place" /\ cursor' = 1
    /\ slots' = [c \in Clusters |-> [i \in DOMAIN slots[c] |-> slots[c][i] - FreedBy(Finished, c, i)]]
    /\ group' = [g \in AllGroups |-> [group[g] EXCEPT !.used =
          [i \in DOMAIN @ |-> @[i] - UsedBy(Finished, g, i)]]]
    /\ work' = [w \in AllWorks |->
          IF w \in Finished THEN EndedAs(w, "SUCCEEDED")
          ELSE IF work[w].state = "RUNNING" THEN [work[w] EXCEPT !.left = @ - 1] ELSE work[w]]
    /\ UNCHANGED <<cl, pendingFor, idleFor, forgotten>>

\* The loop over the pending groups and then the pending workloads.  Nothing is freed
\* in it, so the passes after the first change nothing.
TryGroup(g) ==
    /\ stage = "place" /\ cursor <= Len(Groups) /\ Groups[cursor] = g
    /\ cursor' = cursor + 1
    /\ IF group[g].state = "QUEUED" /\ BundlePlacements(g) # {}
       THEN \E at \in BundlePlacements(g) :
               /\ slots' = Filled(Group[g].cluster, Group[g].bundles, at)
               /\ group' = [group EXCEPT ![g].state = "PLACED", ![g].at = at]
       ELSE UNCHANGED <<slots, group>>
    /\ UNCHANGED <<cl, work, pendingFor, idleFor, stage, forgotten>>

Looked(w) ==
    /\ stage = "place" /\ cursor > Len(Groups) /\ cursor <= Len(Groups) + Len(Works)
    /\ Works[cursor - Len(Groups)] = w /\ cursor' = cursor + 1
    /\ UNCHANGED <<cl, pendingFor, idleFor, stage, forgotten>>
Pending(w) == work[w].state \in {"QUEUED", "BLOCKED"}
Runs(w, c, at, via) ==
    work' = [work EXCEPT ![w] =
        [state |-> "RUNNING", on |-> c, at |-> at, via |-> via,
         attempt |-> work[w].attempt + 1, left |-> Work[w].duration]]
WorkCandidate(w, i) == IF i = 0 THEN Work[w].cluster ELSE Work[w].spill[i]
WorkCandidates(w) ==
    {i \in 0 .. Len(Work[w].spill) : NormalPlacements(w, WorkCandidate(w, i)) # {}}

StartNormal(w) ==
    /\ Looked(w) /\ Pending(w) /\ DependenciesReady(w) /\ Work[w].group = NoGroup /\ WorkCandidates(w) # {}
    /\ LET c == WorkCandidate(w, Min(WorkCandidates(w)))
       IN  \E at \in NormalPlacements(w, c) :
              slots' = Filled(c, Sizes(w), at) /\ Runs(w, c, at, "normal")
    /\ UNCHANGED group
StartInGroup(w) ==
    /\ Looked(w) /\ Pending(w) /\ DependenciesReady(w) /\ Work[w].group # NoGroup /\ GroupPlaced(w)
    /\ LET g == Work[w].group
       IN  /\ InGroupFits(w, g)
           /\ group' = [group EXCEPT ![g].used = [i \in DOMAIN @ |->
                  IF i <= Work[w].replicas THEN @[i] + Work[w].need ELSE @[i]]]
           /\ Runs(w, Group[g].cluster, SubSeq(group[g].at, 1, Work[w].replicas), "group")
    /\ UNCHANGED slots
KeepWaiting(w) ==
    /\ Looked(w)
    /\ \/ ~Pending(w) /\ UNCHANGED work
       \/ Pending(w) /\ ~DependenciesReady(w) /\ work' = [work EXCEPT ![w].state = "BLOCKED"]
       \/ Pending(w) /\ DependenciesReady(w) /\ ~GroupPlaced(w) /\ UNCHANGED work
       \/ /\ Pending(w) /\ DependenciesReady(w) /\ GroupPlaced(w)
          /\ IF Work[w].group = NoGroup THEN WorkCandidates(w) = {} ELSE ~InGroupFits(w, Work[w].group)
          /\ work' = [work EXCEPT ![w].state = "QUEUED"]
    /\ UNCHANGED <<slots, group>>
EndPlacing ==
    /\ stage = "place" /\ cursor > Len(Groups) + Len(Works) /\ stage' = "reconcile" /\ cursor' = 0
    /\ UNCHANGED <<cl, work, slots, group, pendingFor, idleFor, forgotten>>

-----------------------------------------------------------------------------
(* The reconciliation. *)

\* pending_resource_demand: a queued group stands for its workloads.
Demand ==
    Total([w \in AllWorks |-> SumOf(Sizes(w))],
        {w \in AllWorks : /\ Work[w].cluster = Autoscaled /\ Pending(w) /\ DependenciesReady(w)
                          /\ \/ Work[w].group = NoGroup
                             \/ group[Work[w].group].state \notin {"QUEUED", "PLACED"}})
    + Total([g \in AllGroups |-> SumOf(Group[g].bundles)],
        {g \in AllGroups : Group[g].cluster = Autoscaled /\ group[g].state = "QUEUED"})
WorkersUsed == \E i \in DOMAIN slots[Autoscaled] : i > 1 /\ slots[Autoscaled][i] > 0

Longer(t, bound) == IF t >= bound THEN bound ELSE t + 1
Desired ==
    Min({MaxWorkers[Autoscaled],
         Max({cl[Autoscaled].registered + 1, (Demand + WorkerSize - 1) \div WorkerSize})})

Resized(target) ==
    \E r \in WorkerCounts(Autoscaled, cl[Autoscaled], target) :
        /\ cl' = [cl EXCEPT ![Autoscaled] = r]
        /\ forgotten' = (forgotten \/ (r.allocated < cl[Autoscaled].allocated /\ r.reuse > 0))

\* A cluster that is not ready makes pending_resource_demand raise.
ReconcileRaises ==
    /\ stage = "reconcile" /\ ~Ready(Autoscaled) /\ stage' = "idle"
    /\ UNCHANGED <<cl, work, slots, group, pendingFor, idleFor, cursor, forgotten>>
ReconcileDemand ==
    /\ stage = "reconcile" /\ Ready(Autoscaled) /\ Demand > 0 /\ stage' = "idle"
    /\ idleFor' = Never /\ pendingFor' = Longer(pendingFor, ScaleUpDelay)
    /\ IF pendingFor' >= ScaleUpDelay /\ ~InFlight(cl[Autoscaled])
            /\ Desired > cl[Autoscaled].registered /\ Desired <= PowerWorkers
       THEN Resized(Desired) ELSE UNCHANGED <<cl, forgotten>>
    /\ UNCHANGED <<work, slots, group, cursor>>
ReconcileIdle ==
    /\ stage = "reconcile" /\ Ready(Autoscaled) /\ Demand = 0 /\ stage' = "idle"
    /\ pendingFor' = Never
    /\ idleFor' = IF WorkersUsed THEN Never ELSE Longer(idleFor, IdleDelay)
    /\ IF ~WorkersUsed /\ cl[Autoscaled].registered > MinWorkers[Autoscaled]
            /\ idleFor' >= IdleDelay /\ ~InFlight(cl[Autoscaled])
       THEN Resized(MinWorkers[Autoscaled]) ELSE UNCHANGED <<cl, forgotten>>
    /\ UNCHANGED <<work, slots, group, cursor>>

\* report_worker_failure: a busy slot, or a cluster that is not ready, makes
\* sync_cluster raise before the replacement is asked for.
WorkerFails ==
    /\ stage = "idle" /\ cl[Autoscaled].registered >= 1 /\ Len(cl[Autoscaled].scales) <= MaxScales
    /\ LET r == WorkerLost(cl[Autoscaled])
           busy == {i \in DOMAIN slots[Autoscaled] : i > r.registered + 1 /\ slots[Autoscaled][i] > 0}
           kept == IF busy = {} THEN r.registered + 1 ELSE Max(busy)
           replaced == IF busy # {} \/ ~Ready(Autoscaled) \/ r.registered + 1 > PowerWorkers
                       THEN {r} ELSE Replaced(Autoscaled, r)
       IN  /\ \E s \in replaced : cl' = [cl EXCEPT ![Autoscaled] = s]
           /\ slots' = IF ~Ready(Autoscaled) \/ slots[Autoscaled] = <<>> THEN slots
                       ELSE [slots EXCEPT ![Autoscaled] = SubSeq(@, 1, Min({kept, Len(@)}))]
    /\ UNCHANGED <<work, group, pendingFor, idleFor, stage, cursor, forgotten>>

ClusterRequest ==
    /\ stage = "idle" /\ UNCHANGED execVars
    /\ \E c \in Clusters : SubmitCluster(c) \/ BeginDrain(c) \/ Terminate(c) \/ Fail(c)

Placing ==
    \/ \E g \in AllGroups : TryGroup(g)
    \/ \E w \in AllWorks : StartNormal(w) \/ StartInGroup(w) \/ KeepWaiting(w)
    \/ EndPlacing
Reconcile == ReconcileRaises \/ ReconcileDemand \/ ReconcileIdle
Step == Advance \/ Sync \/ Progress \/ Placing \/ Reconcile
RayNext ==
    \/ Step \/ ClusterRequest \/ WorkerFails
    \/ \E g \in AllGroups : SubmitGroup(g) \/ ReleaseGroup(g)
    \/ \E w \in AllWorks : SubmitWork(w) \/ FailWork(w) \/ CancelWork(w)
RaySpec == RayInit /\ [][RayNext]_rayVars
\* The caller goes on advancing.  Some Step is always possible, and only its parts move
\* stage and cursor, so that this is the weak fairness of Step.
Stages == {"idle", "sync", "progress", "place", "reconcile"}
Moves == stage' \in Stages /\ cursor' \in 0 .. Len(Groups) + Len(Works) + 1
FairRaySpec == RaySpec /\ WF_<<stage, cursor>>(Moves)

-----------------------------------------------------------------------------
(* Properties. *)

RayTypeOK ==
    /\ \A c \in Clusters :
          /\ cl[c].life \in {"UNKNOWN", "ADMISSION_QUEUED", "HEAD_STARTING", "WORKERS_STARTING",
                            "READY", "DRAINING", "TERMINATED", "FAILED"}
          /\ {cl[c].registered, cl[c].allocated, cl[c].reuse} \subseteq Nat
    /\ \A w \in AllWorks :
          /\ work[w].state \in {"NEW", "QUEUED", "BLOCKED", "RUNNING", "SUCCEEDED", "FAILED", "CANCELLED"}
          /\ work[w].attempt \in 0 .. Work[w].retries + 1
    /\ \A g \in AllGroups : group[g].state \in {"NEW", "QUEUED", "PLACED", "RELEASED"}
    /\ pendingFor \in Never .. ScaleUpDelay /\ idleFor \in Never .. IdleDelay
    /\ stage \in Stages /\ forgotten \in BOOLEAN

\* What a slot has in use is what runs on it and what placed groups keep of it, through
\* starts, ends, failures, retries, cancellations and releases, and never too much: a
\* workload in a group does not count a second time.
RunningOn(c) == {w \in AllWorks : work[w].state = "RUNNING" /\ work[w].on = c /\ work[w].via = "normal"}
PlacedOn(c) == {g \in AllGroups : group[g].state = "PLACED" /\ Group[g].cluster = c}
SlotsAccounted ==
    \A c \in Clusters : \A i \in DOMAIN slots[c] :
        /\ slots[c][i] = FreedBy(RunningOn(c), c, i)
             + Total([g \in AllGroups |-> Held(Group[g].bundles, group[g].at, i)], PlacedOn(c))
        /\ slots[c][i] <= SlotSize(i)

\* A reservation outlives whoever runs in it: its slots stay, and its bundles hold what
\* its workloads use.
ReservationsHold ==
    /\ \A w \in AllWorks : work[w].state = "RUNNING" /\ work[w].via = "group" =>
          group[Work[w].group].state = "PLACED"
    /\ \A g \in AllGroups : \A i \in DOMAIN group[g].used :
          /\ group[g].used[i] <= Group[g].bundles[i]
          /\ group[g].used[i] = UsedBy({w \in AllWorks : work[w].state = "RUNNING"}, g, i)

\* The bundles of a strict spread never share a slot.
SpreadApart ==
    \A g \in AllGroups :
        group[g].state = "PLACED" /\ Group[g].strategy = "STRICT_SPREAD" => IsInjective(group[g].at)

\* The autoscaler never has more allocated than the cluster may have, and workers never run
\* on more than was allocated for them, whatever failed, was replaced or rejected; but for
\* a scale-down while lost workers wait for their replacement (README, section 7).
WorkersWithinAllocation ==
    \A c \in Clusters :
        /\ cl[c].allocated <= MaxWorkers[c]
        /\ cl[c].registered <= cl[c].allocated \/ (c = Autoscaled /\ forgotten)

\* A cluster that was up gives back its own allocation when it ends, failed or terminated.
\* A scale still queued then may be admitted later (README, section 7).
AllocationGivenBack ==
    \A c \in Clusters : cl[c].life \in {"TERMINATED", "FAILED"} /\ cl[c].allocation => cl[c].request = "none"

\* What the infrastructure lent to a cluster covers its workers and comes back.
AllocationsKept == WorkersWithinAllocation /\ AllocationGivenBack

\* Slots, placement groups and workloads agree on who holds what, however a workload
\* ended and whatever it ran in, on workers the infrastructure has lent.
HoldingsAgree == RayTypeOK /\ SlotsAccounted /\ ReservationsHold /\ SpreadApart /\ AllocationsKept

\* A worker that admission let in registers: the next scale waits for it
\* (registration without delay; README, section 7, for one with).
Starting == \E i \in DOMAIN cl[Autoscaled].scales : cl[Autoscaled].scales[i].state = "starting"
AdmittedWorkersRegister == Starting ~> ~Starting

\* A workload that runs comes to its end, unless the cluster is taken down, or a failed
\* worker leaves a busy slot behind, with which the autoscaler raises at each advance.
RunningEnds ==
    \A w \in AllWorks :
        work[w].state = "RUNNING" ~>
          work[w].state # "RUNNING" \/ ~Ready(Autoscaled) \/ Busy(Autoscaled) # {}
=============================================================================
