------------------------------ MODULE KubePods ------------------------------
(***************************************************************************)
(* The pod scheduler of core/kube_scheduler.py: activeQ, backoffQ and the  *)
(* unschedulable pods in front of an inventory of nodes.  A tick completes *)
(* what is due, moves what is ready back to activeQ, then tries the pods   *)
(* of activeQ one by one; a try is a step here.  enqueue_time never        *)
(* decreases from one submission to the next, so order, the number of the  *)
(* submission, stands for the pair (enqueue_time, enqueue_sequence).       *)
(***************************************************************************)
EXTENDS Integers, FiniteSets, Functions, Sequences, Totals

CONSTANTS
    Pods,
    Pod,            \* priority, needs, gpuTypes, duration and completion of a pod
    KubeNodes,      \* 1 .. n; node_id is compared last
    GpuType,        \* of a node
    NodeCapacity,   \* of a node, by resource
    Backoffs,       \* the values of backoff_duration_s
    MaxRetries,     \* max_backoff_retries
    StartDelay,     \* container_start_delay_s
    NoTime

Resources == <<"gpu", "cpu", "memory">>    \* as the best fit compares them

ASSUME PodsAssumption ==
    /\ IsFiniteSet(Pods)
    /\ \A p \in Pods :
        /\ Pod[p].needs \in [Range(Resources) -> Nat]
        /\ {Pod[p].priority, Pod[p].duration} \subseteq Nat
        /\ Pod[p].completion \in Nat \cup {NoTime}
ASSUME NodesAssumption ==
    /\ IsFiniteSet(KubeNodes) /\ KubeNodes = 1 .. Cardinality(KubeNodes)
    /\ NodeCapacity \in [KubeNodes -> [Range(Resources) -> Nat]]
ASSUME DelaysAssumption ==
    Backoffs \cup {MaxRetries, StartDelay} \subseteq Nat /\ NoTime \notin Nat

VARIABLES
    now,
    phase,        \* "idle", "due" before a tick, "try" in its loop, "done" after it
    where,        \* the queue or the state of each pod
    order,        \* enqueue_sequence
    attempts,
    readyAt,      \* of a pod in backoffQ
    backoff,      \* backoff_duration_s, fixed when the engine is made
    onNode,       \* of a running pod
    endsAt,
    allocated,    \* by node and resource
    submitted,    \* _enqueue_sequence
    passed,       \* history: the pods no node was found for in this tick
    placed        \* history: the pods placed in this tick

podVars == <<where, order, attempts, readyAt, backoff, onNode, endsAt, allocated, submitted, passed, placed>>

In(q) == {p \in Pods : where[p] = q}
PodsInit ==
    /\ now = 0 /\ phase = "idle" /\ submitted = 0
    /\ where = [p \in Pods |-> "new"] /\ order = [p \in Pods |-> 0]
    /\ attempts = [p \in Pods |-> 0] /\ readyAt = [p \in Pods |-> 0]
    /\ backoff \in Backoffs
    /\ onNode = [p \in Pods |-> 0] /\ endsAt = [p \in Pods |-> 0]
    /\ allocated = [n \in KubeNodes |-> [r \in Range(Resources) |-> 0]]
    /\ passed = {} /\ placed = {}

-----------------------------------------------------------------------------
(* KubeNode. *)

Fits(p, n, used) ==
    /\ \A r \in Range(Resources) : used[r] + Pod[p].needs[r] <= NodeCapacity[n][r]
    /\ \/ Pod[p].needs["gpu"] = 0 \/ Pod[p].gpuTypes = {}
       \/ GpuType[n] \in Pod[p].gpuTypes

NeedsOf(S, r) == Total([p \in Pods |-> Pod[p].needs[r]], S)
Floor(x) == IF x < 0 THEN 0 ELSE x

\* _best_fit_node: the least remaining capacity, resource by resource.
Leftover(p, n, i) ==
    IF i \in DOMAIN Resources
    THEN NodeCapacity[n][Resources[i]] - allocated[n][Resources[i]] - Pod[p].needs[Resources[i]]
    ELSE n
Tighter(p, m, n) ==
    \E i \in 1 .. 4 :
        /\ Leftover(p, m, i) < Leftover(p, n, i)
        /\ \A k \in 1 .. i - 1 : Leftover(p, m, k) = Leftover(p, n, k)
Candidates(p) == {n \in KubeNodes : Fits(p, n, allocated[n])}
BestFit(p) == CHOOSE n \in Candidates(p) : \A m \in Candidates(p) \ {n} : Tighter(p, n, m)

-----------------------------------------------------------------------------
(* KubeSchedulerEngine. *)

\* submit, for each pod of a sequence.
Enqueue(ps) ==
    /\ submitted' = submitted + Len(ps)
    /\ where' = [p \in Pods |-> IF p \in Range(ps) THEN "active" ELSE where[p]]
    /\ order' = [p \in Pods |->
                    IF p \in Range(ps)
                    THEN submitted + (CHOOSE i \in DOMAIN ps : ps[i] = p) ELSE order[p]]

Expired(p) == Pod[p].completion # NoTime /\ Pod[p].completion <= now
DueToEnd == {p \in In("running") : endsAt[p] <= now}
BackoffOver == {p \in In("backoff") : readyAt[p] <= now}
\* (mutant: freed resources wake nobody)
BugWoken == {}
Woken == IF DueToEnd = {} THEN {} ELSE In("unschedulable")

\* The first half of tick: completions, backoff expiry, the cluster event.
BeginTick ==
    /\ phase = "due" /\ phase' = "try"
    /\ where' = [p \in Pods |->
          CASE p \in DueToEnd -> "completed"
            [] p \in BackoffOver \cup Woken -> IF Expired(p) THEN "expired" ELSE "active"
            [] OTHER -> where[p]]
    /\ allocated' = [n \in KubeNodes |-> [r \in Range(Resources) |->
          Floor(allocated[n][r] - NeedsOf({p \in DueToEnd : onNode[p] = n}, r))]]
    /\ passed' = {} /\ placed' = {}
    /\ UNCHANGED <<now, order, attempts, readyAt, backoff, onNode, endsAt, submitted>>

\* (mutant: activeQ is a plain queue)
BugAhead(p, q) == order[p] < order[q]
Ahead(p, q) ==
    \/ Pod[p].priority > Pod[q].priority
    \/ Pod[p].priority = Pod[q].priority /\ order[p] < order[q]
NextPod(p) == phase = "try" /\ p \in In("active") /\ \A q \in In("active") \ {p} : Ahead(p, q)

Expire(p) ==
    /\ NextPod(p) /\ Expired(p)
    /\ where' = [where EXCEPT ![p] = "expired"]
    /\ UNCHANGED <<now, phase, order, attempts, readyAt, backoff, onNode, endsAt, allocated, submitted, passed, placed>>

Place(p) ==
    /\ NextPod(p) /\ ~Expired(p) /\ Candidates(p) # {}
    /\ attempts' = [attempts EXCEPT ![p] = @ + 1]
    /\ where' = [where EXCEPT ![p] = "running"]
    /\ onNode' = [onNode EXCEPT ![p] = BestFit(p)]
    /\ allocated' = [allocated EXCEPT ![BestFit(p)] = [r \in Range(Resources) |-> @[r] + Pod[p].needs[r]]]
    /\ endsAt' = [endsAt EXCEPT ![p] =
          IF Pod[p].completion # NoTime THEN Pod[p].completion
          ELSE now + StartDelay + Pod[p].duration]
    /\ placed' = placed \cup {p}
    /\ UNCHANGED <<now, phase, order, readyAt, backoff, submitted, passed>>

\* No feasible node: back off for a few attempts, then wait for a completion.
BackOff(p) ==
    /\ NextPod(p) /\ ~Expired(p) /\ Candidates(p) = {} /\ attempts[p] < MaxRetries
    /\ attempts' = [attempts EXCEPT ![p] = @ + 1]
    /\ where' = [where EXCEPT ![p] = "backoff"]
    /\ readyAt' = [readyAt EXCEPT ![p] = now + backoff]
    /\ passed' = passed \cup {p}
    /\ UNCHANGED <<now, phase, order, backoff, onNode, endsAt, allocated, submitted, placed>>

GiveUp(p) ==
    /\ NextPod(p) /\ ~Expired(p) /\ Candidates(p) = {} /\ attempts[p] >= MaxRetries
    /\ attempts' = [attempts EXCEPT ![p] = @ + 1]
    /\ where' = [where EXCEPT ![p] = "unschedulable"]
    /\ passed' = passed \cup {p}
    /\ UNCHANGED <<now, phase, order, readyAt, backoff, onNode, endsAt, allocated, submitted, placed>>

EndTick ==
    /\ phase = "try" /\ In("active") = {} /\ phase' = "done"
    /\ UNCHANGED <<now, podVars>>

TickStep ==
    \/ BeginTick
    \/ \E p \in Pods : Expire(p) \/ Place(p) \/ BackOff(p) \/ GiveUp(p)
    \/ EndTick

-----------------------------------------------------------------------------
(* Properties. *)

\* Every variable has its type.
PodsTypeOK ==
    /\ now \in Nat /\ submitted \in Nat /\ phase \in {"idle", "due", "try", "done"}
    /\ where \in [Pods -> {"new", "active", "backoff", "unschedulable", "running", "completed", "expired"}]
    /\ {order, attempts, readyAt, endsAt} \subseteq [Pods -> Nat]
    /\ onNode \in [Pods -> KubeNodes \cup {0}]
    /\ allocated \in [KubeNodes -> [Range(Resources) -> Nat]]
    /\ passed \subseteq Pods /\ placed \subseteq Pods /\ backoff \in Backoffs

\* What a node has allocated is what the pods running on it asked for, through every
\* allocate and release (KubeNode), and never more than it has.
NodesAccounted ==
    \A n \in KubeNodes, r \in Range(Resources) :
        /\ allocated[n][r] = NeedsOf({p \in In("running") : onNode[p] = n}, r)
        /\ allocated[n][r] <= NodeCapacity[n][r]

\* Between ticks no unschedulable pod would fit somewhere: it is woken by completions
\* only, and nothing else may free what it waits for.
NoneStranded ==
    phase \in {"idle", "done"} =>
        \A p \in In("unschedulable") : Candidates(p) = {}

\* A failed attempt does not let weaker pods take what a stronger pod waits for: give
\* back what the weaker pods of this tick took, and the stronger one still does not fit.
NoPriorityInversion ==
    phase # "due" =>
        \A q \in passed, n \in KubeNodes :
            LET weaker == {p \in placed :
                    /\ onNode[p] = n
                    /\ \/ Pod[p].priority < Pod[q].priority
                       \/ Pod[p].priority = Pod[q].priority /\ order[p] > order[q]}
            IN  ~Fits(q, n, [r \in Range(Resources) |-> allocated[n][r] - NeedsOf(weaker, r)])

\* A pod waits only for what others hold with good reason.
WaitingJustified == NoneStranded /\ NoPriorityInversion
=============================================================================
