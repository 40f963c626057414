----------------------------- MODULE KubeDemand -----------------------------
(***************************************************************************)
(* The admission agents of core/kube_demand.py and step 0 of evaluate_tick *)
(* (core/simulation_core.py), which ticks them one after the other against *)
(* the grid headroom of the previous tick.  A Kubernetes agent hands its   *)
(* admitted jobs as pods to KubePods; the agents of Slurm and Ray tenants  *)
(* run them as gangs.  Time counts ticks.  What an informer observes in    *)
(* the interval before a tick counts as observed at the tick: the reorder  *)
(* window is a multiple of the interval, and jitter keeps its order open.  *)
(***************************************************************************)
EXTENDS KubePods, SequencesExt

CONSTANTS
    Agents,        \* state.kube_agents, a sequence
    Kubernetes,    \* the agent whose scheduler_type is K8S, if there is one
    ClusterOf,     \* cluster_id of an agent
    Jobs,          \* of an agent, in the order of arrival
    Size,          \* node_count of a job
    Length,        \* duration_s of a job
    Jitters,       \* of an event's timestamp
    Window,        \* reorder_window_s
    MaxNodes, MinNodes,
    Ceiling,       \* capacity_ceiling_mw in nodes, or NoCeiling
    NoCeiling,
    Headrooms,     \* the headrooms of the grid, as simulation_core.py clips them
    Threshold,     \* headroom_threshold_mw
    Hysteresis,    \* power_cap_hysteresis_s
    Burst,         \* bound: arrivals of an agent per tick
    LastTick       \* bound: the last tick

ASSUME AgentsAssumption ==
    /\ Agents \in Seq(DOMAIN ClusterOf) /\ Agents # <<>> /\ IsInjective(Agents)
    /\ Kubernetes \subseteq Range(Agents) /\ \A a, b \in Kubernetes : a = b
    /\ Jobs \in [Range(Agents) -> Seq(DOMAIN Size)]
    /\ \A a \in Range(Agents) : IsInjective(Jobs[a])
    /\ \A a, b \in Range(Agents) : a # b => Range(Jobs[a]) \cap Range(Jobs[b]) = {}
    /\ \A a \in Range(Agents) : \A j \in Range(Jobs[a]) :
          /\ Size[j] \in 1 .. MaxNodes /\ Length[j] \in Nat \ {0}
          /\ a \in Kubernetes => {j} \X (1 .. Size[j]) \subseteq Pods
ASSUME NumbersAssumption ==
    /\ {Window, MaxNodes, MinNodes, Burst, LastTick} \subseteq Nat /\ Jitters \subseteq Int
    /\ Ceiling \in Nat \cup {NoCeiling} /\ NoCeiling \notin Nat
ASSUME GridAssumption ==
    /\ Headrooms \subseteq Nat /\ IsFiniteSet(Headrooms) /\ Threshold \in Int
    /\ Hysteresis \in Nat /\ \E h \in Headrooms : h >= Threshold

VARIABLES
    turn,        \* the agent that ticks, 0 between ticks
    step,        \* "begin", "drain", "pods" or "report" of its tick
    headroom,    \* _kube_grid_state
    arrived,     \* _job_counter
    buffer,      \* _reorder_buffer
    seen,        \* _seen_event_ids
    active,      \* _active_jobs: the jobs and when they end
    prevShort,   \* _prev_raw_cap
    holdUntil,   \* _power_cap_hold_until
    capped,      \* power_cap_active of the agent that ticks
    accepted,    \* accepted_nodes of the Kubernetes agent
    already,     \* _admitted_by_cluster
    reported,    \* _last_total_nodes, -1 until _started; what the GPU modules run
    admitted,    \* history: the jobs admitted so far
    refused,     \* history: the jobs no capacity check will let in again
    recoveredAt  \* history: when the headroom was last short and no longer is

agentVars == <<headroom, arrived, buffer, seen, active, prevShort, holdUntil, capped,
               accepted, already, reported, admitted, refused, recoveredAt>>
vars == <<now, phase, podVars, turn, step, agentVars>>

Is(a) == turn > 0 /\ turn <= Len(Agents) /\ Agents[turn] = a
AllAgents == Range(Agents)

-----------------------------------------------------------------------------
(* The reorder buffer. *)

Id(job, tags) == [job |-> job, tags |-> tags]
Entry(id, at, stamp, count) == [id |-> id, observed |-> at, stamp |-> stamp, count |-> count]
\* event_id.split("-retry")[0] + "-retry-n", and the same with "-capdefer".
Retagged(id, tag, n) ==
    LET cuts == {i \in DOMAIN id.tags : id.tags[i][1] = tag}
        kept == IF cuts = {} THEN id.tags ELSE SubSeq(id.tags, 1, Min(cuts) - 1)
    IN  Id(id.job, Append(kept, <<tag, n>>))

ReadyAt(b) == {i \in DOMAIN b : b[i].observed + Window <= now}
\* A stable sort by timestamp.
NextReady(b) ==
    CHOOSE i \in ReadyAt(b) :
        \A k \in ReadyAt(b) : b[i].stamp < b[k].stamp \/ (b[i].stamp = b[k].stamp /\ i <= k)

\* The cap, and the hold after it.
\* (mutant: the hold is rolled forward while headroom is short, not set on recovery)
BugHold(a) == IF headroom < Threshold THEN now + Hysteresis ELSE holdUntil[a]
Hold(a) ==
    IF headroom >= Threshold /\ prevShort[a] THEN now + Hysteresis ELSE holdUntil[a]

Init ==
    /\ PodsInit /\ turn = 1 /\ step = "begin"
    /\ headroom = Max(Headrooms)      \* the first tick has no grid state: nothing is short
    /\ arrived = [a \in AllAgents |-> 0] /\ buffer = [a \in AllAgents |-> <<>>]
    /\ seen = [a \in AllAgents |-> {}] /\ active = [a \in AllAgents |-> {}]
    /\ prevShort = [a \in AllAgents |-> FALSE] /\ holdUntil = [a \in AllAgents |-> -1]
    /\ capped = FALSE /\ accepted = 0 /\ already = [c \in Range(ClusterOf) |-> 0]
    /\ reported = [a \in AllAgents |-> -1]
    /\ admitted = {} /\ refused = {} /\ recoveredAt = -Hysteresis

-----------------------------------------------------------------------------
(* One tick of all the agents. *)

StartTick ==
    /\ turn = 0 /\ now < LastTick
    /\ now' = now + 1 /\ turn' = 1 /\ step' = "begin"
    /\ headroom' \in Headrooms
    /\ recoveredAt' =
          IF headroom < Threshold /\ headroom' >= Threshold THEN now' ELSE recoveredAt
    /\ already' = [c \in DOMAIN already |-> 0]
    /\ UNCHANGED <<phase, podVars, arrived, buffer, seen, active, prevShort, holdUntil,
                   capped, accepted, reported, admitted, refused>>

\* The cap, the arrivals of the interval (the first is due at once) and the retirements.
BeginAgent(a) ==
    /\ Is(a) /\ step = "begin" /\ step' = "drain"
    /\ holdUntil' = [holdUntil EXCEPT ![a] = Hold(a)]
    /\ prevShort' = [prevShort EXCEPT ![a] = headroom < Threshold]
    /\ capped' = (headroom < Threshold \/ now < Hold(a))
    /\ \E n \in 0 .. Burst :
          /\ now = 0 => n >= 1
          /\ arrived[a] + n <= Len(Jobs[a])
          /\ arrived' = [arrived EXCEPT ![a] = @ + n]
          /\ \E jitter \in [1 .. n -> Jitters] :
                buffer' = [buffer EXCEPT ![a] = @ \o [i \in 1 .. n |->
                    Entry(Id(Jobs[a][arrived[a] + i], <<>>), now, now + jitter[i], 0)]]
    /\ active' = [active EXCEPT ![a] = {r \in @ : r.endsAt > now}]
    /\ accepted' = Cardinality(In("running"))
    /\ UNCHANGED <<now, phase, podVars, turn, headroom, seen, already, reported,
                   admitted, refused, recoveredAt>>

\* The ready event that is looked at next, and what is committed by then.
Looks(a, e) ==
    /\ Is(a) /\ step = "drain" /\ ReadyAt(buffer[a]) # {}
    /\ e = buffer[a][NextReady(buffer[a])]
NodesOf(gangs) == Total([r \in gangs |-> Size[r.id.job]], gangs)
Committed(a) ==
    IF a \in Kubernetes THEN accepted ELSE NodesOf(active[a]) + already[ClusterOf[a]]
IsNew(a, e) == e.id \notin seen[a]
\* The bound of nodes holds for gangs only.
Overfull(a, e) == a \notin Kubernetes /\ Committed(a) + Size[e.id.job] > MaxNodes
OverCeiling(a, e) == Ceiling # NoCeiling /\ Committed(a) + Size[e.id.job] > Ceiling

\* The events left in the buffer, the retry of this one at the end: an agent of gangs
\* leaves out a retry whose id it has seen.
Kept(a) == RemoveAt(buffer[a], NextReady(buffer[a]))
WithRetry(a, e, id, count) ==
    IF a \notin Kubernetes /\ id \in seen[a] THEN Kept(a)
    ELSE Append(Kept(a), Entry(id, now + 1, now + 1, count))
Look(a, e, b) ==
    /\ buffer' = [buffer EXCEPT ![a] = b]
    /\ seen' = [seen EXCEPT ![a] = @ \cup {e.id}]
    /\ UNCHANGED <<now, phase, turn, step, headroom, arrived, prevShort, holdUntil, capped,
                   already, reported, recoveredAt>>

DropDuplicate(a, e) ==
    /\ Looks(a, e) /\ ~IsNew(a, e) /\ Look(a, e, Kept(a))
    /\ UNCHANGED <<podVars, active, accepted, admitted, refused>>
Refuse(a, e) ==
    /\ Looks(a, e) /\ IsNew(a, e) /\ Overfull(a, e) /\ Look(a, e, Kept(a))
    /\ refused' = refused \cup {e.id.job}
    /\ UNCHANGED <<podVars, active, accepted, admitted>>
\* The contracted capacity: the retry keeps its requeue_count.
Defer(a, e) ==
    /\ Looks(a, e) /\ IsNew(a, e) /\ ~Overfull(a, e) /\ OverCeiling(a, e)
    /\ Look(a, e, WithRetry(a, e, Retagged(e.id, "capdefer", e.count + 1), e.count))
    /\ UNCHANGED <<podVars, active, accepted, admitted, refused>>
\* (mutant: the hold does not count its retries either)
BugHoldBack(a, e) ==
    /\ Looks(a, e) /\ IsNew(a, e) /\ ~Overfull(a, e) /\ ~OverCeiling(a, e) /\ capped
    /\ Look(a, e, WithRetry(a, e, Retagged(e.id, "retry", e.count + 1), e.count))
    /\ UNCHANGED <<podVars, active, accepted, admitted, refused>>
\* The power cap: the retry counts.
HoldBack(a, e) ==
    /\ Looks(a, e) /\ IsNew(a, e) /\ ~Overfull(a, e) /\ ~OverCeiling(a, e) /\ capped
    /\ Look(a, e, WithRetry(a, e, Retagged(e.id, "retry", e.count + 1), e.count + 1))
    /\ UNCHANGED <<podVars, active, accepted, admitted, refused>>
Admit(a, e) ==
    /\ Looks(a, e) /\ IsNew(a, e) /\ ~Overfull(a, e) /\ ~OverCeiling(a, e) /\ ~capped
    /\ Look(a, e, Kept(a))
    /\ admitted' = admitted \cup {e.id.job}
    /\ IF a \in Kubernetes
       THEN /\ Enqueue([i \in 1 .. Size[e.id.job] |-> <<e.id.job, i>>])
            /\ accepted' = accepted + Size[e.id.job]
            /\ UNCHANGED active
       ELSE /\ active' = [active EXCEPT ![a] =
                    @ \cup {[id |-> e.id, endsAt |-> now + Length[e.id.job]]}]
            /\ UNCHANGED <<where, order, submitted, accepted>>
    /\ UNCHANGED <<attempts, readyAt, backoff, onNode, endsAt, allocated, passed, placed, refused>>

EndDrain(a) ==
    /\ Is(a) /\ step = "drain" /\ ReadyAt(buffer[a]) = {}
    /\ IF a \in Kubernetes THEN step' = "pods" /\ phase' = "due"
                           ELSE step' = "report" /\ UNCHANGED phase
    /\ UNCHANGED <<now, podVars, turn, agentVars>>
PodsTick(a) ==
    /\ Is(a) /\ step = "pods" /\ TickStep
    /\ step' = IF phase' = "done" THEN "report" ELSE "pods"
    /\ UNCHANGED <<turn, agentVars>>

\* The eviction of the largest gang, and the signal when the number of nodes changed.
Survivors(a) ==
    IF headroom < 0 /\ active[a] # {}
    THEN active[a] \ {CHOOSE r \in active[a] : \A q \in active[a] : Size[q.id.job] <= Size[r.id.job]}
    ELSE active[a]
AdmittedNodes(a) ==
    IF a \in Kubernetes THEN Cardinality(In("running"))
    ELSE NodesOf(Survivors(a))
Signalled(a) == Max({MinNodes, AdmittedNodes(a)})
Report(a) ==
    /\ Is(a) /\ step = "report" /\ step' = "begin"
    /\ turn' = IF turn < Len(Agents) THEN turn + 1 ELSE 0
    /\ phase' = "idle"
    /\ active' = [active EXCEPT ![a] = Survivors(a)]
    /\ reported' = [reported EXCEPT ![a] = Signalled(a)]
    /\ already' = [already EXCEPT ![ClusterOf[a]] = @ + AdmittedNodes(a)]
    /\ UNCHANGED <<now, podVars, headroom, arrived, buffer, seen, prevShort, holdUntil, capped,
                   accepted, admitted, refused, recoveredAt>>

AgentStep(a) ==
    \/ BeginAgent(a)
    \/ \E e \in Range(buffer[a]) :
          DropDuplicate(a, e) \/ Refuse(a, e) \/ Defer(a, e) \/ HoldBack(a, e) \/ Admit(a, e)
    \/ EndDrain(a) \/ PodsTick(a) \/ Report(a)
Next == StartTick \/ \E a \in AllAgents : AgentStep(a)
Spec == Init /\ [][Next]_vars

-----------------------------------------------------------------------------
(* Properties. *)

Observed(a) == {Jobs[a][i] : i \in 1 .. arrived[a]}
Waiting(a, j) == {i \in DOMAIN buffer[a] : buffer[a][i].id.job = j}

Ids == [job : DOMAIN Size, tags : Seq({"retry", "capdefer"} \X Nat)]
TypeOK ==
    /\ PodsTypeOK /\ turn \in 0 .. Len(Agents) /\ step \in {"begin", "drain", "pods", "report"}
    /\ headroom \in Headrooms /\ capped \in BOOLEAN /\ accepted \in Nat /\ recoveredAt \in Int
    /\ arrived \in [AllAgents -> Nat] /\ \A a \in AllAgents : arrived[a] <= Len(Jobs[a])
    /\ buffer \in [AllAgents -> Seq([id : Ids, observed : Nat, stamp : Int, count : Nat])]
    /\ seen \in [AllAgents -> SUBSET Ids]
    /\ active \in [AllAgents -> SUBSET [id : Ids, endsAt : Nat]]
    /\ \A a \in AllAgents : IsFiniteSet(active[a]) /\ \A r \in active[a] : r.id \in seen[a]
    /\ prevShort \in [AllAgents -> BOOLEAN] /\ holdUntil \in [AllAgents -> Int]
    /\ already \in [Range(ClusterOf) -> Nat] /\ reported \in [AllAgents -> Nat \cup {-1}]

\* Every job an informer observed is in exactly one place: in the reorder buffer once,
\* admitted once, or refused for want of nodes; the cap's retries under fresh ids
\* neither lose nor double it.  Not so a job deferred twice by the ceiling (KubeLost).
DeferredBefore(a, j) ==
    \E id \in seen[a] : id.job = j /\ \E t \in Range(id.tags) : t[1] = "capdefer"
OnePlace ==
    \A a \in AllAgents : \A j \in Observed(a) : ~DeferredBefore(a, j) =>
        Cardinality(Waiting(a, j)) + Cardinality({j} \cap admitted) + Cardinality({j} \cap refused) = 1

\* What the docs say of the contracted capacity, and the code does not hold (KubeLost).
NeverDropped ==
    \A a \in AllAgents : \A j \in Observed(a) \ (admitted \cup refused) : Waiting(a, j) # {}

\* The pods of a Kubernetes agent fit on its nodes, and none waits that would fit.
PodsFit == NodesAccounted /\ NoneStranded

\* After a tick the GPU modules run what the agent has admitted, or its idle baseline.
LoadFollowsAdmission ==
    turn = 0 => \A a \in AllAgents : reported[a] = Max({MinNodes, AdmittedNodes(a)})

\* The configuration of an agent has one shape for its pods and one for its nodes.
Alike ==
    /\ \A p, q \in Pods : Pod[p].needs = Pod[q].needs /\ Pod[p].gpuTypes = Pod[q].gpuTypes
    /\ \A m, n \in KubeNodes : NodeCapacity[m] = NodeCapacity[n] /\ GpuType[m] = GpuType[n]

\* The running nodes of one agent stay within the contracted capacity, although a
\* Kubernetes agent does not count the pods that still wait for a node.
AgentWithinCeiling ==
    \A a \in AllAgents : Ceiling # NoCeiling /\ turn = 0 => AdmittedNodes(a) <= Ceiling

\* No job is lost between its informer, the gates and the pod scheduler, and none takes
\* what is not there or not contracted; what the GPU modules run after a tick is what was
\* admitted.
JobsAccounted == TypeOK /\ OnePlace /\ PodsFit /\ LoadFollowsAdmission /\ AgentWithinCeiling

\* Events of one agent that became ready together are admitted by their timestamps.
OrderKept ==
    [][\A a \in AllAgents : \A e, f \in Range(buffer[a]) :
          (/\ e.id.job \in admitted' \ admitted
           /\ f.observed + Window <= now /\ f.id \notin seen[a]) => e.stamp <= f.stamp]_vars

\* No job is admitted while headroom is short, nor for the whole hysteresis after it
\* recovered, however long it was short.
HoldAfterRecovery ==
    [][admitted' # admitted => headroom >= Threshold /\ now >= recoveredAt + Hysteresis]_vars

\* Admissions keep to the order of the events and to the power cap.
AdmissionsInTurn == OrderKept /\ HoldAfterRecovery
=============================================================================
