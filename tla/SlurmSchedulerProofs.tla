----------------------- MODULE SlurmSchedulerProofs -----------------------
(***************************************************************************)
(* Proofs about SlurmScheduler, for every set of jobs, nodes, pools and    *)
(* policies.  The inductive invariant adds to the type invariant and the   *)
(* safety properties what holds while advance is under way: the jobs a     *)
(* loop has still to visit are pending, and the components chosen to start *)
(* are pending, ready, and placed on nodes they may share with nobody they *)
(* must not share with.                                                    *)
(*                                                                         *)
(* On top of it come five invariants, each about what a decision of the    *)
(* scheduling loop still says when the decision is carried out: the nodes  *)
(* still have room (NodesInv), the pools still do (PoolsInv), the arrays   *)
(* and limits still allow it (CountsInv), the group is still whole         *)
(* (GroupsInv) and nobody was overtaken (OrderInv).  The sums of the code  *)
(* are the totals of SetLemmas.                                            *)
(***************************************************************************)
EXTENDS SlurmScheduler, SetLemmas

\* The loops visit pending jobs only, and only while they run.
LoopsVisitPending ==
    /\ todo # {} => stage \in {"preempt", "schedule"}
    /\ DOMAIN starting # {} => stage = "schedule"
    /\ todo \subseteq Pending
    /\ DOMAIN starting \subseteq Pending \ todo

AfterOkDone(j) ==
    \A dep \in Job[j].dependencies :
        dep.kind = "afterok" => state[dep.base] = "COMPLETED"

\* The components about to start are ready, take disjoint sets of nodes, and
\* share a node with an allocation only if neither is exclusive.
StartingPlaced ==
    /\ \A j \in DOMAIN starting : AfterOkDone(j)
    /\ \A j, k \in DOMAIN starting :
          j # k => starting[j] \cap starting[k] = {}
    /\ \A j \in DOMAIN starting, k \in DOMAIN alloc :
          (Job[j].exclusive \/ Job[k].exclusive)
              => starting[j] \cap alloc[k].nodes = {}

GpusOfNodes ==
    \A j \in DOMAIN alloc : \A g \in alloc[j].gpus :
        g[1] \in alloc[j].nodes /\ g[2] < Capacity[g[1]]["gpu"]
GpusDisjoint ==
    \A j, k \in DOMAIN alloc : j # k => alloc[j].gpus \cap alloc[k].gpus = {}

IndInv ==
    /\ TypeOK
    /\ RunningIffAllocated
    /\ LoopsVisitPending
    /\ GpusOfNodes
    /\ GpusDisjoint
    /\ ExclusiveNodes
    /\ StartingPlaced
    /\ AfterOkOrder

-----------------------------------------------------------------------------
(* Lemmas about the helpers. *)

\* The first k elements of a set are elements of it.
LEMMA FirstSubset == \A S, k : First(S, k) \subseteq S
  BY DEF First

\* A binding takes free GPUs of the nodes of the job only.
LEMMA BindingFree ==
  ASSUME NEW nodes \in SUBSET Nodes, NEW k
  PROVE  \A g \in AllocateGpuIds(nodes, k) :
             /\ g \in GpuIds /\ g \notin Occupied
             /\ g[1] \in nodes /\ g[2] < Capacity[g[1]]["gpu"]
<1>1. ASSUME NEW n \in nodes, NEW i \in First(FreeGpus(n), k)
      PROVE  /\ <<n, i>> \in GpuIds /\ <<n, i>> \notin Occupied
             /\ i < Capacity[n]["gpu"]
  <2>1. i \in FreeGpus(n)
    BY FirstSubset
  <2>2. Capacity[n]["gpu"] \in Nat
    BY CapacityAssumption, DimsAssumption
  <2> QED  BY <2>1, <2>2 DEF FreeGpus, GpuIds
<1> QED  BY <1>1 DEF AllocateGpuIds

\* The counters of the pools stay natural numbers.
LEMMA PoolTypes ==
  ASSUME TypeOK, NEW j \in Jobs
  PROVE  Acquire(j) \in [Pools -> Nat] /\ Release(j) \in [Pools -> Nat]
<1>1. \A p \in Pools : Job[j].pools[p] \in Nat /\ poolUsed[p] \in Nat
  BY JobAssumption DEF SlurmJobSpec, TypeOK
<1>2. Acquire(j) \in [Pools -> Nat]
  BY <1>1 DEF Acquire
<1>3. Release(j) \in [Pools -> Nat]
  BY <1>1 DEF Release
<1> QED  BY <1>2, <1>3

\* The tasks a batch queues are jobs the engine does not know yet.
LEMMA AcceptedNew ==
  ASSUME NEW batch \in SUBSET Jobs
  PROVE  /\ Accepted(batch) \in SUBSET Jobs
         /\ \A j \in Accepted(batch) : state[j] = "NEW"
<1>1. Accepted(batch) \in SUBSET Jobs
  BY DEF Accepted
<1>2. ASSUME NEW j \in Accepted(batch) PROVE state[j] = "NEW"
  <2>1. j \in batch /\ \A i \in batch : i <= j => state[i] = "NEW" /\ Possible(i)
    BY DEF Accepted
  <2>2. j <= j
    BY <2>1, JobsAssumption
  <2> QED  BY <2>1, <2>2
<1> QED  BY <1>1, <1>2

-----------------------------------------------------------------------------
(* Each action preserves the inductive invariant. *)

LEMMA InitInv == Init => IndInv
<1> SUFFICES ASSUME Init PROVE IndInv
  OBVIOUS
<1>1. TypeOK
  BY DEF Init, TypeOK, Empty, States, Signals, None
<1>2. RunningIffAllocated
  BY DEF Init, RunningIffAllocated, Running, Empty
<1>3. LoopsVisitPending
  BY DEF Init, LoopsVisitPending, Pending, Empty
<1>4. GpusOfNodes /\ GpusDisjoint /\ ExclusiveNodes /\ StartingPlaced
  BY DEF Init, GpusOfNodes, GpusDisjoint, ExclusiveNodes, StartingPlaced, Empty
<1>5. AfterOkOrder
  BY DEF Init, AfterOkOrder
<1> QED  BY <1>1, <1>2, <1>3, <1>4, <1>5 DEF IndInv

LEMMA SubmitInv ==
  ASSUME IndInv, NEW batch \in SUBSET Jobs, NEW when \in Nat, Submit(batch, when)
  PROVE  IndInv'
<1> DEFINE accepted == Accepted(batch)
<1>1. accepted \subseteq Jobs /\ \A j \in accepted : state[j] = "NEW"
  BY AcceptedNew
<1>2. /\ state' = [j \in Jobs |-> IF j \in accepted THEN "PENDING" ELSE state[j]]
      /\ stage = "idle" /\ stage' = stage
      /\ alloc' = alloc /\ starting' = starting /\ todo' = todo
      /\ startedAt' = startedAt
  BY DEF Submit, passVars
<1>3. TypeOK'
  <2>1. sequence' \in Nat /\ submitted' \in [Jobs -> Nat]
    <3>1. \A S \in SUBSET Jobs : Cardinality(S) \in Nat
      BY JobsAssumption, FS_Subset, FS_CardinalityType
    <3>2. Cardinality(accepted) \in Nat
      BY <1>1, <3>1
    <3>3. \A j \in Jobs : Cardinality({i \in accepted : i < j}) \in Nat
      BY <1>1, <3>1
    <3>4. sequence' = sequence + Cardinality(accepted)
      BY DEF Submit
    <3>5. submitted' = [j \in Jobs |-> IF j \in accepted
                THEN sequence + Cardinality({i \in accepted : i < j})
                ELSE submitted[j]]
      BY DEF Submit
    <3> HIDE DEF accepted
    <3> QED  BY <3>2, <3>3, <3>4, <3>5 DEF IndInv, TypeOK
  <2>2. state' \in [Jobs -> States] /\ lastSignal' \in [Jobs -> Signals]
    <3>1. lastSignal' = [j \in Jobs |->
                IF j \in accepted THEN "QUEUED" ELSE lastSignal[j]]
      BY DEF Submit
    <3> HIDE DEF accepted
    <3> QED  BY <1>2, <3>1 DEF IndInv, TypeOK, States, Signals
  <2>3. time' \in Nat
    BY DEF Submit
  <2> QED  BY <2>1, <2>2, <2>3, <1>2 DEF Submit, passVars, IndInv, TypeOK
<1> HIDE DEF accepted
<1>4. Running' = Running /\ Pending \subseteq Pending'
  BY <1>1, <1>2 DEF Running, Pending
<1>5. RunningIffAllocated' /\ LoopsVisitPending'
  BY <1>2, <1>4 DEF IndInv, RunningIffAllocated, LoopsVisitPending
<1>6. GpusOfNodes' /\ GpusDisjoint' /\ ExclusiveNodes'
  BY <1>2 DEF IndInv, GpusOfNodes, GpusDisjoint, ExclusiveNodes
<1>7. \A j \in Jobs : state[j] = "COMPLETED" => state'[j] = "COMPLETED"
  BY <1>1, <1>2
<1>8. \A j \in Jobs : AfterOkDone(j) => AfterOkDone(j)'
  BY <1>7, JobAssumption DEF AfterOkDone, SlurmJobSpec
<1>9. StartingPlaced' /\ AfterOkOrder'
  BY <1>2, <1>8 DEF IndInv, StartingPlaced, AfterOkOrder, AfterOkDone, TypeOK
<1> QED  BY <1>3, <1>5, <1>6, <1>9 DEF IndInv

\* What a step that touches no job and no allocation cannot disturb.
LEMMA QuietInv ==
  ASSUME IndInv, UNCHANGED <<state, alloc, startedAt, starting>>
  PROVE  /\ RunningIffAllocated' /\ GpusOfNodes' /\ GpusDisjoint'
         /\ ExclusiveNodes' /\ StartingPlaced' /\ AfterOkOrder'
         /\ Pending' = Pending
<1>1. RunningIffAllocated' /\ Pending' = Pending
  BY DEF IndInv, RunningIffAllocated, Running, Pending
<1>2. GpusOfNodes' /\ GpusDisjoint' /\ ExclusiveNodes'
  BY DEF IndInv, GpusOfNodes, GpusDisjoint, ExclusiveNodes
<1>3. StartingPlaced' /\ AfterOkOrder'
  BY DEF IndInv, StartingPlaced, AfterOkOrder, AfterOkDone
<1> QED  BY <1>1, <1>2, <1>3

\* A job that no loop is about to start leaves its allocation.
LEMMA LeaveInv ==
  ASSUME IndInv, NEW j \in Jobs, NEW s \in States \ {"NEW", "RUNNING"},
         state[j] \in {"PENDING", "RUNNING"},
         j \notin todo, j \notin DOMAIN starting,
         alloc' = Without(j), state' = [state EXCEPT ![j] = s],
         UNCHANGED <<startedAt, starting, stage>>, todo' \subseteq todo
  PROVE  /\ RunningIffAllocated' /\ LoopsVisitPending' /\ GpusOfNodes'
         /\ GpusDisjoint' /\ ExclusiveNodes' /\ StartingPlaced' /\ AfterOkOrder'
         /\ DOMAIN alloc' \subseteq Jobs /\ alloc' \in [DOMAIN alloc' -> Allocation]
<1>1. /\ state \in [Jobs -> States] /\ DOMAIN alloc \subseteq Jobs
      /\ alloc \in [DOMAIN alloc -> Allocation]
  BY DEF IndInv, TypeOK
<1>2. DOMAIN alloc' = DOMAIN alloc \ {j}
  BY DEF Without
<1>3. \A k \in DOMAIN alloc' : alloc'[k] = alloc[k]
  BY DEF Without
<1>4. RunningIffAllocated'
  BY <1>1, <1>2 DEF IndInv, RunningIffAllocated, Running
<1>5. LoopsVisitPending'
  <2>1. \A k \in Pending \ {j} : k \in Pending'
    BY <1>1 DEF Pending
  <2> QED  BY <2>1 DEF IndInv, LoopsVisitPending
<1>6. GpusOfNodes' /\ GpusDisjoint' /\ ExclusiveNodes'
  BY <1>2, <1>3 DEF IndInv, GpusOfNodes, GpusDisjoint, ExclusiveNodes
<1>7. \A k \in Jobs : state[k] = "COMPLETED" => state'[k] = "COMPLETED"
  BY <1>1
<1>8. \A k \in Jobs : AfterOkDone(k) => AfterOkDone(k)'
  BY <1>7, JobAssumption DEF AfterOkDone, SlurmJobSpec
<1>9. StartingPlaced'
  BY <1>2, <1>3, <1>8 DEF IndInv, StartingPlaced, TypeOK
<1>10. AfterOkOrder'
  BY <1>8 DEF IndInv, AfterOkOrder, AfterOkDone
<1>11. alloc' \in [DOMAIN alloc' -> Allocation]
  BY <1>1, <1>2 DEF Without
<1> QED  BY <1>1, <1>2, <1>4, <1>5, <1>6, <1>9, <1>10, <1>11

LEMMA CancelInv ==
  ASSUME IndInv, NEW j \in Jobs, Cancel(j)
  PROVE  IndInv'
<1>1. j \notin todo /\ j \notin DOMAIN starting
  BY DEF IndInv, LoopsVisitPending, Cancel
<1>2. Release(j) \in [Pools -> Nat]
  BY PoolTypes DEF IndInv
<1>3. "CANCELLED" \in States \ {"NEW", "RUNNING"} /\ "CANCELLED" \in Signals
  BY DEF States, Signals, Terminal
<1>4. /\ RunningIffAllocated' /\ LoopsVisitPending' /\ GpusOfNodes'
      /\ GpusDisjoint' /\ ExclusiveNodes' /\ StartingPlaced' /\ AfterOkOrder'
      /\ DOMAIN alloc' \subseteq Jobs /\ alloc' \in [DOMAIN alloc' -> Allocation]
  BY <1>1, <1>3, LeaveInv DEF Cancel, passVars
<1>5. TypeOK'
  BY <1>2, <1>3, <1>4 DEF IndInv, TypeOK, Cancel, jobVars, passVars
<1> QED  BY <1>4, <1>5 DEF IndInv

LEMMA FinishInv ==
  ASSUME IndInv, NEW j \in Jobs, Finish(j)
  PROVE  IndInv'
<1>1. state[j] = "RUNNING" /\ j \notin todo /\ j \notin DOMAIN starting
  BY DEF IndInv, LoopsVisitPending, RunningIffAllocated, Running, Finish, Due
<1>2. Release(j) \in [Pools -> Nat]
  BY PoolTypes DEF IndInv
<1>3. /\ Job[j].outcome \in States \ {"NEW", "RUNNING"}
      /\ Job[j].outcome \in Signals
  BY JobAssumption DEF SlurmJobSpec, States, Signals, Terminal, Outcomes
<1>4. /\ RunningIffAllocated' /\ LoopsVisitPending' /\ GpusOfNodes'
      /\ GpusDisjoint' /\ ExclusiveNodes' /\ StartingPlaced' /\ AfterOkOrder'
      /\ DOMAIN alloc' \subseteq Jobs /\ alloc' \in [DOMAIN alloc' -> Allocation]
  BY <1>1, <1>3, LeaveInv DEF Finish, passVars
<1>5. TypeOK'
  BY <1>2, <1>3, <1>4 DEF IndInv, TypeOK, Finish, jobVars, passVars
<1> QED  BY <1>4, <1>5 DEF IndInv

LEMMA PreemptInv ==
  ASSUME IndInv, NEW j \in Jobs, NEW victim \in Jobs, Preempt(j, victim)
  PROVE  IndInv'
<1> DEFINE s == IF Job[j].preemptMode = "requeue" \/ Job[victim].requeue
                THEN "PENDING" ELSE "PREEMPTED"
<1>1. /\ state[victim] = "RUNNING"
      /\ victim \notin todo /\ victim \notin DOMAIN starting
  BY DEF IndInv, LoopsVisitPending, RunningIffAllocated, Running, Pending,
         Preempt, Victims
<1>2. Release(victim) \in [Pools -> Nat]
  BY PoolTypes DEF IndInv
<1>3. s \in States \ {"NEW", "RUNNING"} /\ {"QUEUED", "PREEMPTED"} \subseteq Signals
  BY DEF States, Signals, Terminal
<1>4. /\ alloc' = Without(victim) /\ state' = [state EXCEPT ![victim] = s]
      /\ UNCHANGED <<startedAt, starting, stage>> /\ todo' \subseteq todo
  BY DEF Preempt, NextToPreemptFor
<1> HIDE DEF s
<1>5. /\ RunningIffAllocated' /\ LoopsVisitPending' /\ GpusOfNodes'
      /\ GpusDisjoint' /\ ExclusiveNodes' /\ StartingPlaced' /\ AfterOkOrder'
      /\ DOMAIN alloc' \subseteq Jobs /\ alloc' \in [DOMAIN alloc' -> Allocation]
  BY <1>1, <1>3, <1>4, LeaveInv
<1>6. TypeOK'
  BY <1>2, <1>3, <1>4, <1>5 DEF IndInv, TypeOK, Preempt, NextToPreemptFor, jobVars
<1> QED  BY <1>5, <1>6 DEF IndInv

\* The steps that only move advance from one loop, or one iteration, to the next.
LEMMA ControlInv ==
  ASSUME IndInv, NEW j, NEW now \in Nat,
         \/ Advance(now) \/ FinishDone \/ PreemptSkip(j) \/ PreemptDone
         \/ PassOver(j) \/ ScheduleDone
  PROVE  IndInv'
<1>1. UNCHANGED <<sequence, submitted, state, alloc, startedAt, poolUsed,
                  fairUsage, lastSignal, starting>>
  BY DEF Advance, FinishDone, PreemptSkip, PreemptDone, PassOver, ScheduleDone,
         jobVars, passVars
<1>2. /\ RunningIffAllocated' /\ GpusOfNodes' /\ GpusDisjoint'
      /\ ExclusiveNodes' /\ StartingPlaced' /\ AfterOkOrder'
      /\ Pending' = Pending
  BY <1>1, QuietInv
<1>3. time' \in Nat /\ stage' \in {"idle", "finish", "preempt", "schedule"}
  BY DEF Advance, FinishDone, PreemptSkip, PreemptDone, PassOver, ScheduleDone,
         NextToPreemptFor, jobVars, passVars, IndInv, TypeOK
<1>4. usageAtSort' \in [Owners -> Nat]
  BY DEF Advance, FinishDone, PreemptSkip, PreemptDone, PassOver, ScheduleDone,
         passVars, IndInv, TypeOK
<1>5. LoopsVisitPending'
  <2>1. CASE Advance(now)
    BY <2>1, <1>2 DEF Advance, passVars, IndInv, LoopsVisitPending
  <2>2. CASE FinishDone
    <3>1. stage' = "preempt" /\ todo' \subseteq Pending /\ starting' = starting
          /\ DOMAIN starting = {}
      BY <2>2 DEF FinishDone, IndInv, LoopsVisitPending
    <3> QED  BY <3>1, <1>2 DEF LoopsVisitPending
  <2>3. CASE PreemptSkip(j)
    BY <2>3, <1>2 DEF PreemptSkip, NextToPreemptFor, IndInv, LoopsVisitPending
  <2>4. CASE PreemptDone
    <3>1. stage' = "schedule" /\ todo' \subseteq Pending /\ starting' = starting
          /\ DOMAIN starting = {}
      BY <2>4 DEF PreemptDone, IndInv, LoopsVisitPending
    <3> QED  BY <3>1, <1>2 DEF LoopsVisitPending
  <2>5. CASE PassOver(j)
    <3>1. stage = "schedule" /\ stage' = stage /\ todo' \subseteq todo
          /\ starting' = starting
      BY <2>5 DEF PassOver, NextToSchedule
    <3> QED  BY <3>1, <1>2 DEF IndInv, LoopsVisitPending
  <2>6. CASE ScheduleDone
    <3>1. todo' = {} /\ starting' = starting /\ DOMAIN starting = {}
      BY <2>6 DEF ScheduleDone, Empty
    <3> QED  BY <3>1, <1>2 DEF LoopsVisitPending
  <2> QED  BY <2>1, <2>2, <2>3, <2>4, <2>5, <2>6
<1>6. TypeOK'
  <2>1. todo' \subseteq Jobs
    BY <1>5, <1>2 DEF LoopsVisitPending, Pending
  <2> QED  BY <1>1, <1>3, <1>4, <2>1 DEF IndInv, TypeOK
<1> QED  BY <1>2, <1>5, <1>6 DEF IndInv

\* A placement takes, for each component, nodes it may share, and gives no node
\* to two components.
LEMMA PlacementSound ==
  ASSUME NEW C \in SUBSET Jobs, NEW chosen, Placement(C, chosen), IndInv
  PROVE  /\ chosen \in [C -> SUBSET Nodes]
         /\ \A b, c \in C : b # c => chosen[b] \cap chosen[c] = {}
         /\ \A c \in C, k \in DOMAIN alloc :
               (Job[c].exclusive \/ Job[k].exclusive)
                   => chosen[c] \cap alloc[k].nodes = {}
<1>1. chosen \in [C -> SUBSET Nodes]
  BY DEF Placement
<1>2. ASSUME NEW c \in C
      PROVE  chosen[c] \subseteq
                 Available(c, UNION {chosen[b] : b \in {b \in C : b < c}})
  <2>1. chosen[c] = First(Available(c, UNION {chosen[b] : b \in {b \in C : b < c}}),
                          Job[c].nodeCount)
    BY DEF Placement
  <2> QED  BY <2>1, FirstSubset
<1>3. ASSUME NEW b \in C, NEW c \in C, b < c
      PROVE  chosen[b] \cap chosen[c] = {}
  BY <1>2, <1>3 DEF Available
<1>4. \A b, c \in C : b # c => b < c \/ c < b
  BY JobsAssumption
<1>5. ASSUME NEW c \in C, NEW k \in DOMAIN alloc, NEW n \in chosen[c],
             n \in alloc[k].nodes, Job[c].exclusive \/ Job[k].exclusive
      PROVE  FALSE
  <2>1. k \in AllocsOn(n) /\ k \in Jobs
    BY <1>5 DEF AllocsOn, IndInv, TypeOK
  <2>2. NodeBusy(n)
    BY <2>1, JobAssumption DEF NodeBusy
  <2>3. Job[k].exclusive => NodeExclusive(n)
    BY <2>1 DEF NodeExclusive
  <2>4. NodeExclusive(n) \/ Job[c].exclusive => ~NodeBusy(n)
    BY <1>2, <1>5 DEF Available
  <2> QED  BY <2>2, <2>3, <2>4, <1>5
<1>6. \A b, c \in C : b # c => chosen[b] \cap chosen[c] = {}
  BY <1>3, <1>4
<1>7. \A c \in C, k \in DOMAIN alloc :
          (Job[c].exclusive \/ Job[k].exclusive)
              => chosen[c] \cap alloc[k].nodes = {}
  BY <1>5
<1> QED  BY <1>1, <1>6, <1>7

LEMMA ChooseInv ==
  ASSUME IndInv, NEW j \in Jobs, Choose(j)
  PROVE  IndInv'
<1> DEFINE C == Components(j)
<1>1. j \in Pending
  BY DEF Choose, NextToSchedule, IndInv, LoopsVisitPending
<1>2. C \subseteq Pending /\ C \in SUBSET Jobs
  BY <1>1 DEF Components, Pending
<1>3. PICK chosen \in [C -> SUBSET Nodes] :
          Placement(C, chosen) /\ starting' = chosen
  BY DEF Choose
<1>4. /\ stage = "schedule" /\ stage' = stage /\ todo' = todo \ C
      /\ UNCHANGED <<time, jobVars, state, alloc, startedAt, poolUsed,
                     fairUsage, lastSignal, stage, usageAtSort>>
      /\ Eligible(C)
  BY DEF Choose, NextToSchedule
<1> HIDE DEF C
<1>5. DOMAIN starting' = C
  BY <1>3
<1>6. \A c \in C : AfterOkDone(c)
  <2>1. ASSUME NEW c \in C, NEW dep \in Job[c].dependencies, dep.kind = "afterok"
        PROVE  state[dep.base] = "COMPLETED"
    <3>1. state[dep.base] \in SatisfiedBy("afterok")
      BY <1>4, <2>1 DEF Eligible, DependencyReady
    <3> QED  BY <3>1 DEF SatisfiedBy
  <2> QED  BY <2>1 DEF AfterOkDone
<1>7. StartingPlaced'
  <2>1. /\ \A b, c \in C : b # c => chosen[b] \cap chosen[c] = {}
        /\ \A c \in C, k \in DOMAIN alloc :
               (Job[c].exclusive \/ Job[k].exclusive)
                   => chosen[c] \cap alloc[k].nodes = {}
    BY <1>2, <1>3, PlacementSound
  <2> QED  BY <2>1, <1>3, <1>4, <1>5, <1>6 DEF StartingPlaced, AfterOkDone
<1>8. LoopsVisitPending'
  BY <1>2, <1>4, <1>5 DEF IndInv, LoopsVisitPending, Pending
<1>9. RunningIffAllocated' /\ GpusOfNodes' /\ GpusDisjoint' /\ ExclusiveNodes'
      /\ AfterOkOrder'
  BY <1>4 DEF IndInv, RunningIffAllocated, Running, GpusOfNodes, GpusDisjoint,
              ExclusiveNodes, AfterOkOrder
<1>10. TypeOK'
  BY <1>2, <1>3, <1>4, <1>5 DEF IndInv, TypeOK, jobVars
<1> QED  BY <1>7, <1>8, <1>9, <1>10 DEF IndInv

LEMMA StartInv ==
  ASSUME IndInv, NEW j \in Jobs, Start(j)
  PROVE  IndInv'
<1> DEFINE gpus == AllocateGpuIds(starting[j], Job[j].request["gpu"])
           new == [nodes |-> starting[j], gpus |-> gpus]
<1>1. /\ stage = "schedule" /\ stage' = stage /\ j \in DOMAIN starting
      /\ alloc' = [k \in DOMAIN alloc \cup {j} |-> IF k = j THEN new ELSE alloc[k]]
      /\ state' = [state EXCEPT ![j] = "RUNNING"]
      /\ startedAt' = [startedAt EXCEPT ![j] = time]
      /\ starting' = [k \in DOMAIN starting \ {j} |-> starting[k]]
      /\ todo' = todo
  BY DEF Start
<1>2. j \in Pending /\ j \notin DOMAIN alloc /\ j \notin todo
  BY <1>1 DEF IndInv, LoopsVisitPending, RunningIffAllocated, Running, Pending
<1>3. starting[j] \in SUBSET Nodes
  BY <1>1 DEF IndInv, TypeOK
<1>4. \A g \in gpus : /\ g \in GpuIds /\ g \notin Occupied
                      /\ g[1] \in starting[j] /\ g[2] < Capacity[g[1]]["gpu"]
  BY <1>3, BindingFree
<1>5. new \in Allocation
  BY <1>3, <1>4 DEF Allocation
<1> HIDE DEF gpus
<1>6. /\ DOMAIN alloc' = DOMAIN alloc \cup {j}
      /\ alloc'[j].nodes = starting[j] /\ alloc'[j].gpus = gpus
      /\ \A k \in DOMAIN alloc : alloc'[k] = alloc[k]
  BY <1>1, <1>2
<1>7. /\ DOMAIN starting' = DOMAIN starting \ {j}
      /\ \A k \in DOMAIN starting' : starting'[k] = starting[k]
  BY <1>1
<1>8. state \in [Jobs -> States] /\ state'[j] = "RUNNING"
      /\ \A k \in Jobs \ {j} : state'[k] = state[k]
  BY <1>1 DEF IndInv, TypeOK
<1>9. RunningIffAllocated'
  BY <1>6, <1>8 DEF IndInv, RunningIffAllocated, Running
<1>10. LoopsVisitPending'
  <2>1. \A k \in Pending \ {j} : k \in Pending'
    BY <1>8 DEF Pending
  <2> QED  BY <2>1, <1>1, <1>2, <1>7 DEF IndInv, LoopsVisitPending
<1>11. GpusOfNodes'
  BY <1>4, <1>6 DEF IndInv, GpusOfNodes
<1>12. GpusDisjoint'
  <2>1. \A k \in DOMAIN alloc : gpus \cap alloc[k].gpus = {}
    BY <1>4 DEF Occupied
  <2> QED  BY <2>1, <1>6 DEF IndInv, GpusDisjoint
<1>13. ExclusiveNodes'
  <2>1. \A k \in DOMAIN alloc : (Job[j].exclusive \/ Job[k].exclusive)
            => starting[j] \cap alloc[k].nodes = {}
    BY <1>1 DEF IndInv, StartingPlaced
  <2> QED  BY <2>1, <1>6 DEF IndInv, ExclusiveNodes
<1>14. \A k \in Jobs : AfterOkDone(k) => AfterOkDone(k)'
  BY <1>8, <1>2, JobAssumption DEF AfterOkDone, SlurmJobSpec, Pending
<1>15. StartingPlaced'
  <2>1. \A k \in DOMAIN starting' : AfterOkDone(k)'
    BY <1>7, <1>14 DEF IndInv, StartingPlaced, TypeOK
  <2>2. \A k, l \in DOMAIN starting' :
            k # l => starting'[k] \cap starting'[l] = {}
    BY <1>7 DEF IndInv, StartingPlaced
  <2>3. \A k \in DOMAIN starting', l \in DOMAIN alloc' :
            (Job[k].exclusive \/ Job[l].exclusive)
                => starting'[k] \cap alloc'[l].nodes = {}
    BY <1>1, <1>6, <1>7 DEF IndInv, StartingPlaced
  <2> QED  BY <2>1, <2>2, <2>3 DEF StartingPlaced
<1>16. AfterOkOrder'
  <2>1. AfterOkDone(j)
    BY <1>1 DEF IndInv, StartingPlaced
  <2>2. \A k \in Jobs \ {j} : startedAt'[k] = startedAt[k]
    BY <1>1 DEF IndInv, TypeOK
  <2>3. \A k \in Jobs : startedAt'[k] >= 0 => AfterOkDone(k)'
    BY <2>1, <2>2, <1>14 DEF IndInv, AfterOkOrder, AfterOkDone
  <2> QED  BY <2>3 DEF AfterOkOrder, AfterOkDone
<1>17. TypeOK'
  <2>1. Acquire(j) \in [Pools -> Nat]
    BY PoolTypes DEF IndInv
  <2>2. Job[j].owner \in Owners /\ Job[j].duration \in Nat
    BY JobAssumption DEF SlurmJobSpec
  <2>3. fairUsage' \in [Owners -> Nat]
    BY <2>2 DEF IndInv, TypeOK, Start
  <2>4. alloc' \in [DOMAIN alloc' -> Allocation] /\ DOMAIN alloc' \subseteq Jobs
    BY <1>1, <1>5, <1>6 DEF IndInv, TypeOK
  <2>5. /\ state' \in [Jobs -> States] /\ startedAt' \in [Jobs -> Nat \cup {-1}]
        /\ lastSignal' \in [Jobs -> Signals]
    BY <1>1 DEF IndInv, TypeOK, Start, States, Signals
  <2>6. DOMAIN starting' \subseteq Jobs
        /\ starting' \in [DOMAIN starting' -> SUBSET Nodes]
    BY <1>1, <1>7 DEF IndInv, TypeOK
  <2> QED  BY <2>1, <2>3, <2>4, <2>5, <2>6 DEF IndInv, TypeOK, Start, jobVars
<1> QED  BY <1>9, <1>10, <1>11, <1>12, <1>13, <1>15, <1>16, <1>17 DEF IndInv

-----------------------------------------------------------------------------
(* The theorems. *)

LEMMA NextInv == IndInv /\ [Next]_vars => IndInv'
<1> SUFFICES ASSUME IndInv, [Next]_vars PROVE IndInv'
  OBVIOUS
<1>1. ASSUME NEW batch \in Batches, NEW d \in Steps, Submit(batch, time + d)
      PROVE  IndInv'
  <2>1. batch \in SUBSET Jobs /\ time + d \in Nat
    BY CallersAssumption DEF IndInv, TypeOK
  <2> QED  BY <2>1, <1>1, SubmitInv
<1>2. ASSUME NEW j \in Cancellable, Cancel(j) PROVE IndInv'
  BY <1>2, CancelInv, CallersAssumption
<1>3. ASSUME NEW d \in Steps, Advance(time + d) PROVE IndInv'
  <2>1. time + d \in Nat
    BY CallersAssumption DEF IndInv, TypeOK
  <2> QED  BY <2>1, <1>3, ControlInv
<1>4. CASE Continue
  <2>1. ASSUME NEW j \in Jobs, Finish(j) PROVE IndInv'
    BY <2>1, FinishInv
  <2>2. ASSUME NEW j \in Jobs, NEW victim \in Jobs, Preempt(j, victim)
        PROVE  IndInv'
    BY <2>2, PreemptInv
  <2>3. ASSUME NEW j \in Jobs, PreemptSkip(j) PROVE IndInv'
    BY <2>3, ControlInv
  <2>4. ASSUME NEW j \in Jobs, Choose(j) PROVE IndInv'
    BY <2>4, ChooseInv
  <2>5. ASSUME NEW j \in Jobs, PassOver(j) PROVE IndInv'
    BY <2>5, ControlInv
  <2>6. ASSUME NEW j \in Jobs, Start(j) PROVE IndInv'
    BY <2>6, StartInv
  <2>7. 0 \in Nat /\ (FinishDone \/ PreemptDone \/ ScheduleDone => IndInv')
    BY ControlInv
  <2> QED  BY <1>4, <2>1, <2>2, <2>3, <2>4, <2>5, <2>6, <2>7 DEF Continue
<1>5. CASE UNCHANGED vars
  BY <1>5, QuietInv DEF vars, IndInv, TypeOK, LoopsVisitPending
<1> QED  BY <1>1, <1>2, <1>3, <1>4, <1>5 DEF Next

LEMMA Invariance == Spec => []IndInv
<1>1. Init => IndInv
  BY InitInv
<1>2. IndInv /\ [Next]_vars => IndInv'
  BY NextInv
<1> QED  BY <1>1, <1>2, PTL DEF Spec

\* The types of the dictionaries and counters of the engine never break.
THEOREM TypeCorrect == Spec => []TypeOK
<1>1. IndInv => TypeOK
  BY DEF IndInv
<1> QED  BY <1>1, Invariance, PTL

\* _state and _allocations agree in every state, inside advance included.
THEOREM AllocationsAgree == Spec => []RunningIffAllocated
<1>1. IndInv => RunningIffAllocated
  BY DEF IndInv
<1> QED  BY <1>1, Invariance, PTL

\* No two jobs are ever bound to one GPU.
THEOREM GpusExclusive == Spec => []GpuExclusive
<1>1. IndInv => GpuExclusive
  BY DEF IndInv, GpusOfNodes, GpusDisjoint, GpuExclusive
<1> QED  BY <1>1, Invariance, PTL

\* A job that asked for exclusive nodes never shares one.
THEOREM ExclusiveNodesKept == Spec => []ExclusiveNodes
<1>1. IndInv => ExclusiveNodes
  BY DEF IndInv
<1> QED  BY <1>1, Invariance, PTL

\* No job starts before its afterok dependencies have completed.
THEOREM DependenciesRespected == Spec => []AfterOkOrder
<1>1. IndInv => AfterOkOrder
  BY DEF IndInv
<1> QED  BY <1>1, Invariance, PTL

\* One step leaves a terminal job terminal and never forgets a submitted one.
LEMMA TerminalStep ==
  ASSUME IndInv, Next, NEW j \in Jobs
  PROVE  /\ state[j] \in Terminal => state'[j] = state[j]
         /\ state[j] # "NEW" => state'[j] # "NEW"
<1> USE DEF Terminal, Outcomes
<1>0. state \in [Jobs -> States]
  BY DEF IndInv, TypeOK
<1>1. ASSUME NEW batch \in Batches, NEW d \in Steps, Submit(batch, time + d),
             state'[j] # state[j]
      PROVE  state[j] = "NEW"
  <2> DEFINE accepted == Accepted(batch)
  <2>1. state' = [k \in Jobs |-> IF k \in accepted THEN "PENDING" ELSE state[k]]
    BY <1>1 DEF Submit
  <2>2. \A k \in accepted : state[k] = "NEW"
    BY AcceptedNew, CallersAssumption
  <2> HIDE DEF accepted
  <2> QED  BY <2>1, <2>2, <1>1, <1>0
<1>2. ASSUME NEW batch \in Batches, NEW d \in Steps, Submit(batch, time + d)
      PROVE  state'[j] \in {state[j], "PENDING"}
  BY <1>2, <1>0 DEF Submit
<1>3. ASSUME NEW k \in Jobs, Cancel(k) PROVE
        \/ state'[j] = state[j]
        \/ state[j] \in {"PENDING", "RUNNING"} /\ state'[j] = "CANCELLED"
  BY <1>3, <1>0 DEF Cancel
<1>4. ASSUME NEW k \in Jobs, Finish(k) PROVE
        \/ state'[j] = state[j]
        \/ state[j] = "RUNNING" /\ state'[j] \in Outcomes
  <2>1. Job[k].outcome \in Outcomes
    BY JobAssumption DEF SlurmJobSpec
  <2> QED  BY <2>1, <1>4, <1>0
              DEF Finish, Due, IndInv, RunningIffAllocated, Running
<1>5. ASSUME NEW k \in Jobs, NEW victim \in Jobs, Preempt(k, victim) PROVE
        \/ state'[j] = state[j]
        \/ state[j] = "RUNNING" /\ state'[j] \in {"PENDING", "PREEMPTED"}
  BY <1>5, <1>0 DEF Preempt, Victims, IndInv, RunningIffAllocated, Running
<1>6. ASSUME NEW k \in Jobs, Start(k) PROVE
        \/ state'[j] = state[j]
        \/ state[j] = "PENDING" /\ state'[j] = "RUNNING"
  BY <1>6, <1>0 DEF Start, IndInv, LoopsVisitPending, Pending
<1>7. ASSUME NEW k, NEW now,
             \/ Advance(now) \/ FinishDone \/ PreemptSkip(k) \/ PreemptDone
             \/ Choose(k) \/ PassOver(k) \/ ScheduleDone
      PROVE  state'[j] = state[j]
  BY <1>7 DEF Advance, FinishDone, PreemptSkip, PreemptDone, Choose, PassOver,
              ScheduleDone
<1> QED  BY <1>0, <1>1, <1>2, <1>3, <1>4, <1>5, <1>6, <1>7, CallersAssumption
            DEF Next, Continue

\* What is terminal stays as it is.
THEOREM TerminalKept == Spec => TerminalStable
<1>1. IndInv /\ [Next]_vars =>
        [\A j \in Jobs :
            /\ state[j] \in Terminal => state'[j] = state[j]
            /\ state[j] # "NEW" => state'[j] # "NEW"]_vars
  BY TerminalStep
<1> QED  BY <1>1, Invariance, PTL DEF Spec, TerminalStable

-----------------------------------------------------------------------------
(* What was signalled, and what is taken back. *)

\* The signals tell the state inside advance as well.
SignalInv ==
    \A j \in Jobs :
        /\ lastSignal[j] = "RUNNING" <=> j \in DOMAIN alloc
        /\ state[j] \in Terminal => lastSignal[j] = state[j]

LEMMA SignalStep ==
  ASSUME IndInv, SignalInv, [Next]_vars
  PROVE  SignalInv'
<1> USE DEF Terminal, Outcomes
<1>0. /\ state \in [Jobs -> States] /\ lastSignal \in [Jobs -> Signals]
      /\ DOMAIN alloc = Running
  BY DEF IndInv, TypeOK, RunningIffAllocated
<1>1. ASSUME NEW batch \in Batches, NEW d \in Steps, Submit(batch, time + d)
      PROVE  SignalInv'
  <2> DEFINE accepted == Accepted(batch)
  <2>1. accepted \in SUBSET Jobs /\ \A j \in accepted : state[j] = "NEW"
    BY AcceptedNew, CallersAssumption
  <2>2. /\ state' = [j \in Jobs |-> IF j \in accepted THEN "PENDING" ELSE state[j]]
        /\ lastSignal' = [j \in Jobs |->
              IF j \in accepted THEN "QUEUED" ELSE lastSignal[j]]
        /\ alloc' = alloc
    BY <1>1 DEF Submit
  <2> HIDE DEF accepted
  <2> QED  BY <1>0, <2>1, <2>2 DEF SignalInv, Running
<1>2. ASSUME NEW k \in Jobs, Cancel(k) PROVE SignalInv'
  BY <1>0, <1>2 DEF Cancel, Without, SignalInv
<1>3. ASSUME NEW k \in Jobs, Finish(k) PROVE SignalInv'
  <2>1. Job[k].outcome \in Outcomes
    BY JobAssumption DEF SlurmJobSpec
  <2> QED  BY <1>0, <1>3, <2>1 DEF Finish, Without, SignalInv
<1>4. ASSUME NEW k \in Jobs, NEW victim \in Jobs, Preempt(k, victim)
      PROVE  SignalInv'
  BY <1>0, <1>4 DEF Preempt, Without, SignalInv
<1>5. ASSUME NEW k \in Jobs, Start(k) PROVE SignalInv'
  BY <1>0, <1>5 DEF Start, SignalInv
<1>6. ASSUME NEW k, NEW now,
             \/ Advance(now) \/ FinishDone \/ PreemptSkip(k) \/ PreemptDone
             \/ Choose(k) \/ PassOver(k) \/ ScheduleDone \/ UNCHANGED vars
      PROVE  SignalInv'
  BY <1>6 DEF Advance, FinishDone, PreemptSkip, PreemptDone, Choose, PassOver,
              ScheduleDone, vars, SignalInv
<1> QED  BY <1>1, <1>2, <1>3, <1>4, <1>5, <1>6, CallersAssumption
            DEF Next, Continue

\* _state, _allocations and the signals tell the same story of every job.
THEOREM BooksKept == Spec => []BooksAgree
<1>1. Init => SignalInv
  BY DEF Init, SignalInv, Empty, Terminal, Outcomes, None
<1>2. IndInv /\ SignalInv /\ [Next]_vars => SignalInv'
  BY SignalStep
<1>3. IndInv /\ SignalInv => BooksAgree
  BY DEF IndInv, SignalInv, BooksAgree, SignalsTellState
<1> QED  BY <1>1, <1>2, <1>3, Invariance, PTL DEF Spec

\* Who loses an allocation in a step, and why.
LEMMA LossStep ==
  ASSUME IndInv, Next, NEW j \in DOMAIN alloc, j \notin DOMAIN alloc'
  PROVE  \/ state'[j] = "CANCELLED"
         \/ time >= EndOf(j) /\ state'[j] = Job[j].outcome
         \/ \E k \in Pending : Job[k].priority > Job[j].priority
<1>0. /\ state \in [Jobs -> States] /\ j \in Jobs /\ time \in Nat
      /\ startedAt \in [Jobs -> Nat \cup {-1}] /\ Job[j].duration \in Nat
  BY JobAssumption DEF IndInv, TypeOK, SlurmJobSpec
<1>1. ASSUME NEW k \in Jobs, Cancel(k) PROVE state'[j] = "CANCELLED"
  BY <1>0, <1>1 DEF Cancel, Without
<1>2. ASSUME NEW k \in Jobs, Finish(k)
      PROVE  time >= EndOf(j) /\ state'[j] = Job[j].outcome
  BY <1>0, <1>2 DEF Finish, Without, Due, EndOf
<1>3. ASSUME NEW k \in Jobs, NEW victim \in Jobs, Preempt(k, victim)
      PROVE  k \in Pending /\ Job[k].priority > Job[j].priority
  <2>1. victim = j
    BY <1>3 DEF Preempt, Without
  <2>2. k \in Pending /\ Job[j].priority < Job[k].priority
    BY <1>3, <2>1 DEF Preempt, NextToPreemptFor, Victims, IndInv, LoopsVisitPending
  <2>3. Job[j].priority \in Int /\ Job[k].priority \in Int
    BY <1>0, JobAssumption DEF SlurmJobSpec
  <2> QED  BY <2>2, <2>3
<1>4. ASSUME NEW k \in Jobs, Start(k) PROVE FALSE
  BY <1>4 DEF Start
<1>5. ASSUME NEW k, NEW now, NEW batch,
             \/ Submit(batch, now) \/ Advance(now) \/ FinishDone \/ PreemptSkip(k)
             \/ PreemptDone \/ Choose(k) \/ PassOver(k) \/ ScheduleDone
      PROVE  FALSE
  BY <1>5 DEF Submit, Advance, FinishDone, PreemptSkip, PreemptDone, Choose, PassOver,
              ScheduleDone
<1> QED  BY <1>1, <1>2, <1>3, <1>4, <1>5, CallersAssumption DEF Next, Continue

\* An end is final, and an allocation is lost at its end, by cancellation, or to a
\* pending job of higher priority.
THEOREM NothingIsTakenBack == Spec => NothingTakenBack
<1>1. IndInv /\ [Next]_vars =>
        [\A j \in DOMAIN alloc :
            (j \notin DOMAIN alloc' /\ state'[j] # "CANCELLED") =>
                \/ time >= EndOf(j) /\ state'[j] = Job[j].outcome
                \/ \E k \in Pending : Job[k].priority > Job[j].priority]_vars
  BY LossStep
<1> QED  BY <1>1, TerminalKept, Invariance, PTL
         DEF Spec, NothingTakenBack, LosesOnlyToHigherPriority

-----------------------------------------------------------------------------
(* The engine implements GpuLeases. *)

AllGpus == UNION {{<<n, i>> : i \in 0 .. Capacity[n]["gpu"] - 1} : n \in Nodes}

\* What a binding takes are GPUs of the cluster.
LEMMA BindingOfCluster ==
  ASSUME NEW nodes \in SUBSET Nodes, NEW k
  PROVE  AllocateGpuIds(nodes, k) \subseteq AllGpus
<1>1. ASSUME NEW n \in nodes, NEW i \in First(FreeGpus(n), k)
      PROVE  <<n, i>> \in AllGpus
  <2>1. i \in 0 .. Capacity[n]["gpu"] - 1
    BY FirstSubset DEF FreeGpus
  <2> QED  BY <2>1 DEF AllGpus
<1> QED  BY <1>1 DEF AllocateGpuIds

\* Leaving an allocation gives all its GPUs back.
LEMMA LeaveHeld ==
  ASSUME TypeOK, NEW j \in Jobs, alloc' = Without(j)
  PROVE  HeldGpus' = [HeldGpus EXCEPT ![j] = {}]
BY DEF HeldGpus, Without, TypeOK

LEMMA LeaseStep ==
  ASSUME IndInv, Next
  PROVE  Leases!Next \/ UNCHANGED <<state, HeldGpus>>
<1>0. state \in [Jobs -> States] /\ DOMAIN alloc = Running
      /\ DOMAIN alloc \subseteq Jobs
  BY DEF IndInv, TypeOK, RunningIffAllocated
<1>1. ASSUME NEW batch \in Batches, NEW d \in Steps, Submit(batch, time + d)
      PROVE  Leases!Next
  <2> DEFINE accepted == Accepted(batch)
  <2>1. accepted \in SUBSET Jobs
    BY AcceptedNew, CallersAssumption
  <2>2. \A j \in accepted : state[j] = "NEW"
    BY AcceptedNew, CallersAssumption
  <2>3. /\ accepted # {} /\ alloc' = alloc
        /\ state' = [j \in Jobs |-> IF j \in accepted THEN "PENDING" ELSE state[j]]
    BY <1>1 DEF Submit
  <2> HIDE DEF accepted
  <2>4. Leases!Queue(accepted)
    BY <2>1, <2>2, <2>3 DEF Leases!Queue, HeldGpus
  <2> QED  BY <2>1, <2>4 DEF Leases!Next
<1>2. ASSUME NEW j \in Jobs, Cancel(j) PROVE Leases!Next
  <2>1. /\ alloc' = Without(j) /\ state[j] \in {"PENDING", "RUNNING"}
        /\ state' = [state EXCEPT ![j] = "CANCELLED"] /\ "CANCELLED" \in Terminal
    BY <1>2 DEF Cancel, Terminal
  <2>2. HeldGpus' = [HeldGpus EXCEPT ![j] = {}]
    BY <2>1, LeaveHeld DEF IndInv
  <2>3. CASE state[j] = "PENDING"
    <3>1. HeldGpus' = HeldGpus
      BY <2>2, <2>3, <1>0 DEF HeldGpus, Running
    <3>2. Leases!Withdraw(j, "CANCELLED")
      BY <2>1, <2>3, <3>1 DEF Leases!Withdraw
    <3> QED  BY <2>1, <3>2 DEF Leases!Next
  <2>4. CASE state[j] = "RUNNING"
    <3>1. Leases!GiveBack(j, "CANCELLED")
      BY <2>1, <2>2, <2>4 DEF Leases!GiveBack
    <3> QED  BY <2>1, <3>1 DEF Leases!Next
  <2> QED  BY <2>1, <2>3, <2>4
<1>3. ASSUME NEW j \in Jobs, Finish(j) PROVE Leases!Next
  <2>1. /\ alloc' = Without(j) /\ state[j] = "RUNNING"
        /\ state' = [state EXCEPT ![j] = Job[j].outcome]
    BY <1>3, <1>0 DEF Finish, Due, Running
  <2>2. Job[j].outcome \in Terminal
    BY JobAssumption DEF SlurmJobSpec, Terminal
  <2>3. Leases!GiveBack(j, Job[j].outcome)
    BY <2>1, LeaveHeld DEF Leases!GiveBack, IndInv
  <2> QED  BY <2>2, <2>3 DEF Leases!Next
<1>4. ASSUME NEW j \in Jobs, NEW victim \in Jobs, Preempt(j, victim)
      PROVE  Leases!Next
  <2> DEFINE next == IF Job[j].preemptMode = "requeue" \/ Job[victim].requeue
                     THEN "PENDING" ELSE "PREEMPTED"
  <2>1. /\ alloc' = Without(victim) /\ state[victim] = "RUNNING"
        /\ state' = [state EXCEPT ![victim] = next]
    BY <1>4, <1>0 DEF Preempt, Victims, Running
  <2>2. next \in {"PENDING"} \cup Terminal
    BY DEF Terminal
  <2> HIDE DEF next
  <2>3. Leases!GiveBack(victim, next)
    BY <2>1, LeaveHeld DEF Leases!GiveBack, IndInv
  <2> QED  BY <2>2, <2>3 DEF Leases!Next
<1>5. ASSUME NEW j \in Jobs, Start(j) PROVE Leases!Next
  <2> DEFINE gpus == AllocateGpuIds(starting[j], Job[j].request["gpu"])
  <2>1. /\ j \in DOMAIN starting /\ state' = [state EXCEPT ![j] = "RUNNING"]
        /\ alloc' = [k \in DOMAIN alloc \cup {j} |->
              IF k = j THEN [nodes |-> starting[j], gpus |-> gpus] ELSE alloc[k]]
    BY <1>5 DEF Start
  <2>2. starting[j] \in SUBSET Nodes /\ state[j] = "PENDING" /\ j \notin DOMAIN alloc
    BY <2>1, <1>0 DEF IndInv, TypeOK, LoopsVisitPending, Pending, Running
  <2>3. gpus \in SUBSET AllGpus /\ \A g \in gpus : g \notin Occupied
    BY <2>2, BindingOfCluster, BindingFree
  <2> HIDE DEF gpus
  <2>4. \A k \in Jobs : HeldGpus[k] \cap gpus = {}
    BY <2>3 DEF HeldGpus, Occupied
  <2>5. HeldGpus' = [HeldGpus EXCEPT ![j] = gpus]
    BY <2>1, <2>2, <1>0 DEF HeldGpus
  <2>6. Leases!Grant(j, gpus)
    BY <2>1, <2>2, <2>4, <2>5 DEF Leases!Grant
  <2> QED  BY <2>3, <2>6 DEF Leases!Next, AllGpus
<1>6. ASSUME NEW k, NEW now,
             \/ Advance(now) \/ FinishDone \/ PreemptSkip(k) \/ PreemptDone
             \/ Choose(k) \/ PassOver(k) \/ ScheduleDone
      PROVE  UNCHANGED <<state, HeldGpus>>
  BY <1>6 DEF Advance, FinishDone, PreemptSkip, PreemptDone, Choose, PassOver,
              ScheduleDone, HeldGpus
<1> QED  BY <1>1, <1>2, <1>3, <1>4, <1>5, <1>6, CallersAssumption
            DEF Next, Continue

\* Every behaviour of the engine is one of the GPU leases: a job is granted GPUs
\* nobody holds, and gives all of them back when it leaves.
THEOREM LeasesImplemented == Spec => LeasesHonoured
<1>1. Init => Leases!Init
  BY DEF Init, Leases!Init, HeldGpus, Empty
<1>2. IndInv /\ [Next]_vars => [Leases!Next]_<<state, HeldGpus>>
  <2>1. UNCHANGED vars => UNCHANGED <<state, HeldGpus>>
    BY DEF vars, HeldGpus
  <2> QED  BY <2>1, LeaseStep
<1> QED  BY <1>1, <1>2, Invariance, PTL DEF Spec, LeasesHonoured, Leases!Spec

-----------------------------------------------------------------------------
(* Resources.  The nodes: what the allocations of a node take is a total over *)
(* its jobs, and a component about to start still fits on its nodes.          *)

StartingFits ==
    \A c \in DOMAIN starting : \A n \in starting[c], d \in Dims :
        UsedOnNode(n, d) + Job[c].request[d] <= Capacity[n][d]

NodesInv == IndInv /\ NodeCapacity /\ GpuBindingComplete /\ StartingFits

\* The allocations of a node have weights in every dimension.
LEMMA RequestsWeigh ==
  ASSUME TypeOK, NEW n, NEW d \in Dims
  PROVE  /\ Weighs(Requests[d], AllocsOn(n))
         /\ UsedOnNode(n, d) \in Nat
         /\ \A j \in Jobs :
               Requests[d][j] = Job[j].request[d] /\ Job[j].request[d] \in Nat
<1>1. \A j \in Jobs : Requests[d][j] = Job[j].request[d] /\ Job[j].request[d] \in Nat
  BY JobAssumption DEF Requests, SlurmJobSpec
<1>2. AllocsOn(n) \in SUBSET Jobs
  BY DEF AllocsOn, TypeOK
<1>3. IsFiniteSet(AllocsOn(n))
  BY <1>2, JobsAssumption, FS_Subset
<1>4. Weighs(Requests[d], AllocsOn(n))
  BY <1>1, <1>2, <1>3 DEF Weighs
<1> QED  BY <1>1, <1>4, TotalNat DEF UsedOnNode

\* Fewer allocations take no more.
LEMMA UsedLess ==
  ASSUME TypeOK, NEW d \in Dims, NEW n, AllocsOn(n)' \subseteq AllocsOn(n)
  PROVE  UsedOnNode(n, d)' <= UsedOnNode(n, d)
<1>1. Weighs(Requests[d], AllocsOn(n)) /\ AllocsOn(n)' \in SUBSET AllocsOn(n)
  BY RequestsWeigh
<1>2. UsedOnNode(n, d)' = Total(Requests[d], AllocsOn(n)')
  BY DEF UsedOnNode
<1> QED  BY <1>1, <1>2, TotalMonotone DEF UsedOnNode

\* An allocation that goes, or a step that leaves the allocations alone, keeps
\* the nodes in order.
LEMMA NodesKept ==
  ASSUME NodesInv, IndInv', DOMAIN alloc' \subseteq DOMAIN alloc,
         \A k \in DOMAIN alloc' : alloc'[k] = alloc[k],
         \/ DOMAIN starting' = {}
         \/ starting' = starting /\ alloc' = alloc
  PROVE  NodesInv'
<1>1. \A n : AllocsOn(n)' \subseteq AllocsOn(n)
  BY DEF AllocsOn
<1>2. TypeOK
  BY DEF NodesInv, IndInv
<1>3. NodeCapacity'
  <2>1. SUFFICES ASSUME NEW n \in Nodes, NEW d \in Dims
                 PROVE  UsedOnNode(n, d)' <= Capacity[n][d]
    BY DEF NodeCapacity, UsedOnNode, AllocsOn
  <2>2. UsedOnNode(n, d) <= Capacity[n][d]
    BY DEF NodesInv, NodeCapacity, UsedOnNode, AllocsOn
  <2>3. UsedOnNode(n, d)' <= UsedOnNode(n, d)
    BY <1>1, <1>2, UsedLess
  <2>4. TypeOK' /\ Capacity[n][d] \in Nat
    BY CapacityAssumption DEF IndInv
  <2>5. UsedOnNode(n, d)' \in Nat /\ UsedOnNode(n, d) \in Nat
    <3>1. Weighs(Requests[d], AllocsOn(n)) /\ Weighs(Requests[d], AllocsOn(n)')
      BY <1>1, <1>2, RequestsWeigh, FS_Subset DEF Weighs
    <3> QED  BY <3>1, TotalNat DEF UsedOnNode
  <2> QED  BY <2>2, <2>3, <2>4, <2>5
<1>4. GpuBindingComplete'
  BY DEF NodesInv, GpuBindingComplete
<1>5. StartingFits'
  BY DEF NodesInv, StartingFits, UsedOnNode, AllocsOn
<1> QED  BY <1>3, <1>4, <1>5 DEF NodesInv

\* A set of GPUs of one node has as many elements as their indices.
LEMMA GpuIndices ==
  ASSUME NEW n, NEW I, IsFiniteSet(I)
  PROVE  /\ IsFiniteSet({<<n, i>> : i \in I})
         /\ Cardinality({<<n, i>> : i \in I}) = Cardinality(I)
<1> DEFINE G == {<<n, i>> : i \in I}
           f == [i \in I |-> <<n, i>>]
<1>1. f \in Bijection(I, G)
  <2>1. f \in [I -> G] /\ (\A i, k \in I : f[i] = f[k] => i = k)
        /\ \A g \in G : \E i \in I : f[i] = g
    OBVIOUS
  <2> QED  BY <2>1 DEF Bijection, Injection, Surjection, IsInjective
<1>2. ExistsBijection(I, G)
  BY <1>1 DEF ExistsBijection
<1> QED  BY <1>2, FS_Bijection

\* The GPUs bound on a node are as many as the sums of _used_on_node say, so a
\* request that fits finds free ones.
LEMMA FreeEnough ==
  ASSUME NodesInv, NEW n \in Nodes, NEW k \in Nat,
         UsedOnNode(n, "gpu") + k <= Capacity[n]["gpu"]
  PROVE  /\ IsFiniteSet(First(FreeGpus(n), k))
         /\ Cardinality(First(FreeGpus(n), k)) = k
<1> DEFINE cap == Capacity[n]["gpu"]
           All == 0 .. cap - 1
           Free == FreeGpus(n)
           Used == All \ Free
           part == [j \in AllocsOn(n) |-> {g \in alloc[j].gpus : g[1] = n}]
           Bound == UNION {part[j] : j \in AllocsOn(n)}
<1>1. TypeOK /\ "gpu" \in Dims /\ cap \in Nat
  BY DimsAssumption, CapacityAssumption DEF NodesInv, IndInv
<1>2. IsFiniteSet(All) /\ Cardinality(All) = cap
  <2>1. 0 \in Int /\ cap - 1 \in Int
    BY <1>1
  <2>2. IsFiniteSet(All) /\ Cardinality(All) = IF 0 > cap - 1 THEN 0 ELSE (cap - 1) - 0 + 1
    BY <2>1, FS_Interval
  <2> QED  BY <1>1, <2>2
<1>3. Free \in SUBSET All /\ Used \in SUBSET All
  BY DEF FreeGpus
<1>4. \A j \in AllocsOn(n) : \A g \in part[j] : \E i \in All : g = <<n, i>>
  <2>1. SUFFICES ASSUME NEW j \in AllocsOn(n), NEW g \in alloc[j].gpus, g[1] = n
                 PROVE  \E i \in All : g = <<n, i>>
    OBVIOUS
  <2>2. g \in GpuIds /\ g[2] < Capacity[g[1]]["gpu"]
    BY <1>1 DEF AllocsOn, TypeOK, Allocation, NodesInv, IndInv, GpusOfNodes
  <2>3. g = <<g[1], g[2]>> /\ g[2] \in Nat
    BY <2>2 DEF GpuIds
  <2> QED  BY <1>1, <2>1, <2>2, <2>3
<1>5. {<<n, i>> : i \in Used} = Bound
  <2> HIDE DEF cap
  <2>1. ASSUME NEW i \in Used PROVE <<n, i>> \in Bound
    <3>1. <<n, i>> \in Occupied
      BY DEF FreeGpus, cap
    <3>2. PICK j \in DOMAIN alloc : <<n, i>> \in alloc[j].gpus
      BY <3>1 DEF Occupied
    <3>3. <<n, i>>[1] = n /\ j \in AllocsOn(n)
      BY <3>2 DEF AllocsOn, NodesInv, IndInv, GpusOfNodes
    <3>4. <<n, i>> \in part[j]
      BY <3>2, <3>3
    <3> QED  BY <3>3, <3>4
  <2>2. ASSUME NEW j \in AllocsOn(n), NEW g \in part[j]
        PROVE  g \in {<<n, i>> : i \in Used}
    <3>1. PICK i \in All : g = <<n, i>>
      BY <1>4
    <3>2. g \in Occupied
      BY DEF Occupied, AllocsOn
    <3>3. i \notin Free
      BY <3>1, <3>2 DEF FreeGpus
    <3> QED  BY <3>1, <3>3
  <2> QED  BY <2>1, <2>2
<1>6. IsFiniteSet(Used) /\ IsFiniteSet(Free)
  BY <1>2, <1>3, FS_Subset
<1>7. IsFiniteSet(Bound) /\ Cardinality(Bound) = Cardinality(Used)
  <2>1. /\ IsFiniteSet({<<n, i>> : i \in Used})
        /\ Cardinality({<<n, i>> : i \in Used}) = Cardinality(Used)
    <3> HIDE DEF Used
    <3> QED  BY <1>6, GpuIndices
  <2> HIDE DEF Used, Bound
  <2> QED  BY <1>5, <2>1
<1>8. Cardinality(Bound) = UsedOnNode(n, "gpu")
  <2>1. IsFiniteSet(AllocsOn(n))
    BY <1>1, RequestsWeigh DEF Weighs
  <2>2. \A j \in AllocsOn(n) : part[j] \in SUBSET Bound
    OBVIOUS
  <2>3. \A j \in AllocsOn(n) : IsFiniteSet(part[j])
    BY <1>7, <2>2, FS_Subset
  <2>4. \A i, j \in AllocsOn(n) : i # j => part[i] \cap part[j] = {}
    BY DEF NodesInv, IndInv, GpusDisjoint, AllocsOn
  <2>5. \A j \in AllocsOn(n) : Requests["gpu"][j] = Cardinality(part[j])
    BY <1>1, RequestsWeigh DEF NodesInv, GpuBindingComplete, AllocsOn, TypeOK
  <2> HIDE DEF part
  <2> QED  BY <2>1, <2>3, <2>4, <2>5, TotalOfParts DEF UsedOnNode
<1>9. Cardinality(Free) = cap - Cardinality(Used)
  <2>1. All = Free \cup Used /\ Free \cap Used = {}
    BY <1>3
  <2>2. Cardinality(All) = Cardinality(Free) + Cardinality(Used) - Cardinality({})
    BY <1>6, <2>1, FS_Union
  <2>3. Cardinality(Free) \in Nat /\ Cardinality(Used) \in Nat /\ Cardinality({}) = 0
    BY <1>6, FS_CardinalityType, FS_EmptySet
  <2> HIDE DEF Free, Used, All, cap
  <2> QED  BY <1>1, <1>2, <2>2, <2>3
<1>10. k <= Cardinality(Free)
  <2>1. Cardinality(Used) = UsedOnNode(n, "gpu") /\ UsedOnNode(n, "gpu") \in Nat
    BY <1>1, <1>7, <1>8, RequestsWeigh
  <2> HIDE DEF Free, Used
  <2> QED  BY <1>1, <1>9, <2>1
<1>11. Free \in SUBSET Int
  BY <1>3
<1>12. First(Free, k) \in SUBSET Free
  BY FirstSubset
<1>13. IsFiniteSet(First(Free, k))
  <2> HIDE DEF Free
  <2> QED  BY <1>6, <1>12, FS_Subset
<1>14. Cardinality(First(Free, k)) = k
  <2> HIDE DEF Free
  <2>1. First(Free, k) = {u \in Free : Cardinality({v \in Free : v < u}) < k}
    BY DEF First
  <2> QED  BY <1>6, <1>10, <1>11, <2>1, FirstOfSet
<1> QED  BY <1>13, <1>14

\* What a placement gives a component was available to it.
LEMMA PlacementFits ==
  ASSUME NEW C \in SUBSET Jobs, NEW chosen, Placement(C, chosen), NEW c \in C
  PROVE  /\ \A n \in chosen[c], d \in Dims :
               UsedOnNode(n, d) + Job[c].request[d] <= Capacity[n][d]
         /\ PoolsAvailable(c)
<1> DEFINE free == Available(c, UNION {chosen[b] : b \in {b \in C : b < c}})
<1>1. chosen[c] = First(free, Job[c].nodeCount)
      /\ Cardinality(free) >= Job[c].nodeCount
  BY DEF Placement
<1>2. chosen[c] \subseteq free
  BY <1>1, FirstSubset
<1>3. free # {}
  <2>1. Job[c].nodeCount \in Nat \ {0}
    BY JobAssumption DEF SlurmJobSpec
  <2> HIDE DEF free
  <2> QED  BY <1>1, <2>1, FS_EmptySet
<1> QED  BY <1>2, <1>3 DEF Available

LEMMA ChooseNodes ==
  ASSUME NodesInv, IndInv', NEW j \in Jobs, Choose(j)
  PROVE  NodesInv'
<1> DEFINE C == Components(j)
<1>1. PICK chosen \in [C -> SUBSET Nodes] :
          Placement(C, chosen) /\ starting' = chosen
  BY DEF Choose
<1>2. alloc' = alloc /\ C \in SUBSET Jobs
  BY DEF Choose, Components, Pending
<1> HIDE DEF C
<1>3. NodeCapacity' /\ GpuBindingComplete'
  BY <1>2 DEF NodesInv, NodeCapacity, GpuBindingComplete
<1>4. StartingFits'
  <2>1. ASSUME NEW c \in C, NEW n \in chosen[c], NEW d \in Dims
        PROVE  UsedOnNode(n, d) + Job[c].request[d] <= Capacity[n][d]
    BY <1>1, <1>2, PlacementFits
  <2>2. \A n, d : UsedOnNode(n, d)' = UsedOnNode(n, d)
    BY <1>2 DEF UsedOnNode, AllocsOn
  <2>3. DOMAIN starting' = C /\ starting' = chosen
    BY <1>1
  <2> QED  BY <2>1, <2>2, <2>3 DEF StartingFits
<1> QED  BY <1>3, <1>4 DEF NodesInv

\* What the binding of a start has on a node of the job.
LEMMA BindingOnNode ==
  ASSUME NodesInv, NEW nodes \in SUBSET Nodes, NEW n \in nodes, NEW k \in Nat,
         UsedOnNode(n, "gpu") + k <= Capacity[n]["gpu"]
  PROVE  Cardinality({g \in AllocateGpuIds(nodes, k) : g[1] = n}) = k
<1> DEFINE I == First(FreeGpus(n), k)
<1>1. IsFiniteSet(I) /\ Cardinality(I) = k
  BY FreeEnough
<1>2. {g \in AllocateGpuIds(nodes, k) : g[1] = n} = {<<n, i>> : i \in I}
  BY DEF AllocateGpuIds
<1> HIDE DEF I
<1>3. Cardinality({<<n, i>> : i \in I}) = Cardinality(I)
  BY <1>1, GpuIndices
<1> QED  BY <1>1, <1>2, <1>3

LEMMA StartNodes ==
  ASSUME NodesInv, IndInv', NEW j \in Jobs, Start(j)
  PROVE  NodesInv'
<1> DEFINE gpus == AllocateGpuIds(starting[j], Job[j].request["gpu"])
<1>1. /\ j \in DOMAIN starting
      /\ alloc' = [k \in DOMAIN alloc \cup {j} |->
            IF k = j THEN [nodes |-> starting[j], gpus |-> gpus] ELSE alloc[k]]
      /\ starting' = [k \in DOMAIN starting \ {j} |-> starting[k]]
  BY DEF Start
<1>2. /\ j \notin DOMAIN alloc /\ starting[j] \in SUBSET Nodes
      /\ TypeOK /\ IndInv /\ StartingFits
  BY <1>1 DEF NodesInv, IndInv, TypeOK, LoopsVisitPending, Pending,
              RunningIffAllocated, Running
<1>3. \A n : j \notin AllocsOn(n)
  BY <1>2 DEF AllocsOn
<1>4. \A n \in starting[j] : AllocsOn(n)' = AllocsOn(n) \cup {j}
  BY <1>1, <1>2 DEF AllocsOn
<1>5. \A n : n \notin starting[j] => AllocsOn(n)' = AllocsOn(n)
  BY <1>1, <1>2 DEF AllocsOn
<1>6. ASSUME NEW n \in starting[j], NEW d \in Dims
      PROVE  UsedOnNode(n, d)' <= Capacity[n][d]
  <2>1. Weighs(Requests[d], AllocsOn(n)) /\ UsedOnNode(n, d) \in Nat
        /\ Requests[d][j] = Job[j].request[d] /\ Job[j].request[d] \in Nat
    BY <1>2, RequestsWeigh
  <2>2. Total(Requests[d], AllocsOn(n) \cup {j})
          = Requests[d][j] + Total(Requests[d], AllocsOn(n))
    BY <1>3, <2>1, TotalAdd
  <2>3. UsedOnNode(n, d)' = Job[j].request[d] + UsedOnNode(n, d)
    BY <1>4, <2>1, <2>2 DEF UsedOnNode
  <2>4. UsedOnNode(n, d) + Job[j].request[d] <= Capacity[n][d]
    BY <1>1, <1>2 DEF StartingFits
  <2> QED  BY <2>1, <2>3, <2>4
<1>7. NodeCapacity'
  <2>1. SUFFICES ASSUME NEW n \in Nodes, NEW d \in Dims
                 PROVE  UsedOnNode(n, d)' <= Capacity[n][d]
    BY DEF NodeCapacity, UsedOnNode, AllocsOn
  <2>2. CASE n \in starting[j]
    BY <1>6, <2>2
  <2>3. CASE n \notin starting[j]
    <3>1. UsedOnNode(n, d)' = UsedOnNode(n, d)
      BY <1>5, <2>3 DEF UsedOnNode
    <3>2. UsedOnNode(n, d) <= Capacity[n][d]
      BY DEF NodesInv, NodeCapacity, UsedOnNode, AllocsOn
    <3> QED  BY <3>1, <3>2
  <2> QED  BY <2>2, <2>3
<1>8. GpuBindingComplete'
  <2>1. Job[j].request["gpu"] \in Nat /\ "gpu" \in Dims
    BY <1>2, DimsAssumption, RequestsWeigh
  <2>2. ASSUME NEW n \in starting[j]
        PROVE  Cardinality({g \in gpus : g[1] = n}) = Job[j].request["gpu"]
    <3>1. UsedOnNode(n, "gpu") + Job[j].request["gpu"] <= Capacity[n]["gpu"]
      BY <1>1, <1>2, <2>1 DEF StartingFits
    <3>2. Cardinality({g \in AllocateGpuIds(starting[j], Job[j].request["gpu"]) :
                          g[1] = n}) = Job[j].request["gpu"]
      <4>1. NodesInv /\ starting[j] \in SUBSET Nodes
        BY <1>2
      <4> QED  BY <2>1, <3>1, <4>1, BindingOnNode
    <3> QED  BY <3>2
  <2> HIDE DEF gpus
  <2>3. \A k \in DOMAIN alloc : \A n \in alloc[k].nodes :
            Cardinality({g \in alloc[k].gpus : g[1] = n}) = Job[k].request["gpu"]
    BY DEF NodesInv, GpuBindingComplete
  <2>4. /\ DOMAIN alloc' = DOMAIN alloc \cup {j}
        /\ alloc'[j] = [nodes |-> starting[j], gpus |-> gpus]
        /\ \A k \in DOMAIN alloc : alloc'[k] = alloc[k]
    BY <1>1, <1>2
  <2>5. SUFFICES ASSUME NEW k \in DOMAIN alloc', NEW n \in alloc'[k].nodes
                 PROVE  Cardinality({g \in alloc'[k].gpus : g[1] = n})
                          = Job[k].request["gpu"]
    BY DEF GpuBindingComplete
  <2>6. CASE k = j
    BY <2>2, <2>4, <2>5, <2>6
  <2>7. CASE k # j
    BY <2>3, <2>4, <2>5, <2>7
  <2> QED  BY <2>6, <2>7
<1>9. StartingFits'
  <2>1. SUFFICES ASSUME NEW c \in DOMAIN starting', NEW n \in starting'[c],
                        NEW d \in Dims
                 PROVE  UsedOnNode(n, d)' + Job[c].request[d] <= Capacity[n][d]
    BY DEF StartingFits
  <2>2. c \in DOMAIN starting /\ c # j /\ n \in starting[c]
    BY <1>1
  <2>3. n \notin starting[j]
    BY <1>1, <1>2, <2>2 DEF IndInv, StartingPlaced
  <2>4. UsedOnNode(n, d)' = UsedOnNode(n, d)
    BY <1>5, <2>3 DEF UsedOnNode
  <2>5. UsedOnNode(n, d) + Job[c].request[d] <= Capacity[n][d]
    BY <1>2, <2>2 DEF StartingFits
  <2> QED  BY <2>4, <2>5
<1> QED  BY <1>7, <1>8, <1>9 DEF NodesInv

LEMMA NodesStep == NodesInv /\ [Next]_vars => NodesInv'
<1> SUFFICES ASSUME NodesInv, [Next]_vars PROVE NodesInv'
  OBVIOUS
<1>1. IndInv /\ IndInv'
  BY NextInv DEF NodesInv
<1>2. stage # "schedule" => DOMAIN starting = {}
  BY <1>1 DEF IndInv, LoopsVisitPending
<1>3. ASSUME NEW batch, NEW when, Submit(batch, when) PROVE NodesInv'
  BY <1>1, <1>3, NodesKept DEF Submit, passVars
<1>4. ASSUME NEW j, NEW s, stage # "schedule", alloc' = Without(j),
             starting' = starting
      PROVE  NodesInv'
  <2>1. DOMAIN alloc' \subseteq DOMAIN alloc
    BY <1>4 DEF Without
  <2>2. \A k \in DOMAIN alloc' : alloc'[k] = alloc[k]
    BY <1>4 DEF Without
  <2>3. DOMAIN starting' = {}
    BY <1>2, <1>4
  <2> QED  BY <1>1, <2>1, <2>2, <2>3, NodesKept
<1>5. ASSUME NEW j, NEW victim, Cancel(j) \/ Finish(j) \/ Preempt(j, victim)
      PROVE  NodesInv'
  BY <1>4, <1>5 DEF Cancel, Finish, Preempt, NextToPreemptFor, passVars
<1>6. ASSUME NEW j, NEW now,
             \/ Advance(now) \/ FinishDone \/ PreemptSkip(j) \/ PreemptDone
             \/ PassOver(j) \/ ScheduleDone \/ UNCHANGED vars
      PROVE  NodesInv'
  <2>1. alloc' = alloc /\ starting' = starting
    BY <1>6 DEF Advance, FinishDone, PreemptSkip, PreemptDone, PassOver, ScheduleDone,
                passVars, vars
  <2> QED  BY <1>1, <2>1, NodesKept
<1>7. ASSUME NEW j \in Jobs, Choose(j) \/ Start(j) PROVE NodesInv'
  BY <1>1, <1>7, ChooseNodes, StartNodes
<1> QED  BY <1>3, <1>5, <1>6, <1>7 DEF Next, Continue

\* No node is ever overbooked in any dimension, shared against its job's wish, or
\* short of the GPUs that were counted on it: what _used_on_node sums and what
\* _allocate_gpu_ids binds agree for ever.
THEOREM NodesAlwaysHonoured == Spec => []NodesHonoured
<1>1. Init => NodesInv
  <2>1. ASSUME Init PROVE NodesInv
    <3>1. DOMAIN alloc = {} /\ DOMAIN starting = {}
      BY <2>1 DEF Init, Empty
    <3>2. \A n, d : UsedOnNode(n, d) = 0
      BY <3>1, TotalEmpty DEF UsedOnNode, AllocsOn
    <3>3. NodeCapacity
      BY <3>1, <3>2, CapacityAssumption DEF NodeCapacity, UsedOnNode, AllocsOn
    <3> QED  BY <2>1, <3>1, <3>3, InitInv DEF NodesInv, GpuBindingComplete, StartingFits
  <2> QED  BY <2>1
<1>2. NodesInv /\ [Next]_vars => NodesInv'
  BY NodesStep
<1>3. NodesInv => NodesHonoured
  BY DEF NodesInv, IndInv, NodesHonoured
<1> QED  BY <1>1, <1>2, <1>3, PTL DEF Spec

-----------------------------------------------------------------------------
(* The pools.  A step acquires for one job that starts, releases for one that *)
(* leaves, or releases for a pending job that is cancelled, which holds       *)
(* nothing: the counter may then fall below what is held, and never rises     *)
(* above it.                                                                  *)

\* The shares of a set of jobs have a total.
LEMMA SharesWeigh ==
  ASSUME NEW S \in SUBSET Jobs, NEW p \in Pools
  PROVE  /\ Weighs(Shares[p], S) /\ Total(Shares[p], S) \in Nat
         /\ \A j \in Jobs : Shares[p][j] = Job[j].pools[p] /\ Job[j].pools[p] \in Nat
<1>1. \A j \in Jobs : Shares[p][j] = Job[j].pools[p] /\ Job[j].pools[p] \in Nat
  BY JobAssumption DEF Shares, SlurmJobSpec
<1>2. IsFiniteSet(S)
  BY JobsAssumption, FS_Subset
<1>3. Weighs(Shares[p], S)
  BY <1>1, <1>2 DEF Weighs
<1> QED  BY <1>1, <1>3, TotalNat

\* What a step does to the running jobs and to the counters.
LEMMA PoolChange ==
  ASSUME IndInv, [Next]_vars
  PROVE  \/ UNCHANGED <<Running, poolUsed>>
         \/ \E j \in Running : Running' = Running \ {j} /\ poolUsed' = Release(j)
         \/ \E j \in Cancellable : Running' = Running /\ poolUsed' = Release(j)
         \/ \E j \in Jobs \ Running :
               Start(j) /\ Running' = Running \cup {j} /\ poolUsed' = Acquire(j)
<1>0. state \in [Jobs -> States] /\ DOMAIN alloc = Running
  BY DEF IndInv, TypeOK, RunningIffAllocated
<1>1. ASSUME NEW batch \in Batches, NEW d \in Steps, Submit(batch, time + d)
      PROVE  UNCHANGED <<Running, poolUsed>>
  <2> DEFINE accepted == Accepted(batch)
  <2>1. accepted \in SUBSET Jobs /\ \A j \in accepted : state[j] = "NEW"
    BY AcceptedNew, CallersAssumption
  <2>2. /\ state' = [j \in Jobs |-> IF j \in accepted THEN "PENDING" ELSE state[j]]
        /\ poolUsed' = poolUsed
    BY <1>1 DEF Submit
  <2> HIDE DEF accepted
  <2> QED  BY <1>0, <2>1, <2>2 DEF Running
<1>2. ASSUME NEW j \in Cancellable, Cancel(j)
      PROVE  /\ poolUsed' = Release(j)
             /\ \/ j \in Running /\ Running' = Running \ {j}
                \/ Running' = Running
  BY <1>0, <1>2, CallersAssumption DEF Cancel, Running
<1>3. ASSUME NEW j \in Jobs, Finish(j)
      PROVE  j \in Running /\ Running' = Running \ {j} /\ poolUsed' = Release(j)
  <2>1. Job[j].outcome # "RUNNING"
    BY JobAssumption DEF SlurmJobSpec, Outcomes
  <2> QED  BY <1>0, <1>3, <2>1 DEF Finish, Due, Running
<1>4. ASSUME NEW j \in Jobs, NEW victim \in Jobs, Preempt(j, victim)
      PROVE  /\ victim \in Running /\ Running' = Running \ {victim}
             /\ poolUsed' = Release(victim)
  BY <1>0, <1>4 DEF Preempt, Victims, Running
<1>5. ASSUME NEW j \in Jobs, Start(j)
      PROVE  /\ j \in Jobs \ Running /\ Running' = Running \cup {j}
             /\ poolUsed' = Acquire(j)
  BY <1>0, <1>5 DEF Start, IndInv, LoopsVisitPending, Pending, Running
<1>6. ASSUME NEW k, NEW now,
             \/ Advance(now) \/ FinishDone \/ PreemptSkip(k) \/ PreemptDone
             \/ Choose(k) \/ PassOver(k) \/ ScheduleDone \/ UNCHANGED vars
      PROVE  UNCHANGED <<Running, poolUsed>>
  BY <1>6 DEF Advance, FinishDone, PreemptSkip, PreemptDone, Choose, PassOver,
              ScheduleDone, vars, Running
<1> QED  BY <1>1, <1>2, <1>3, <1>4, <1>5, <1>6 DEF Next, Continue

\* A counter that is at most what is held stays so when the held part leaves, and
\* equals it afterwards if it did before.
LEMMA PoolLeaves ==
  ASSUME TypeOK, NEW j \in Running, NEW p \in Pools,
         poolUsed[p] <= Total(Shares[p], Running)
  PROVE  /\ Release(j)[p] <= Total(Shares[p], Running \ {j})
         /\ poolUsed[p] = Total(Shares[p], Running)
              => Release(j)[p] = Total(Shares[p], Running \ {j})
         /\ Total(Shares[p], Running \ {j}) <= Total(Shares[p], Running)
<1>1. Running \in SUBSET Jobs /\ Running \ {j} \in SUBSET Jobs /\ j \in Jobs
  BY DEF Running
<1>2. /\ Weighs(Shares[p], Running)
      /\ Total(Shares[p], Running) \in Nat
      /\ Total(Shares[p], Running \ {j}) \in Nat
      /\ Shares[p][j] = Job[j].pools[p] /\ Job[j].pools[p] \in Nat
  BY <1>1, SharesWeigh
<1>3. Total(Shares[p], Running)
        = Job[j].pools[p] + Total(Shares[p], Running \ {j})
  BY <1>2, TotalRemove
<1>4. poolUsed[p] \in Nat
  BY DEF TypeOK
<1>5. Release(j)[p] = IF poolUsed[p] > Job[j].pools[p]
                      THEN poolUsed[p] - Job[j].pools[p] ELSE 0
  BY DEF Release
<1> QED  BY <1>2, <1>3, <1>4, <1>5

\* A start adds what the counter adds.
LEMMA PoolJoins ==
  ASSUME TypeOK, NEW j \in Jobs \ Running, NEW p \in Pools
  PROVE  /\ Total(Shares[p], Running \cup {j})
              = Job[j].pools[p] + Total(Shares[p], Running)
         /\ Acquire(j)[p] = poolUsed[p] + Job[j].pools[p]
         /\ Total(Shares[p], Running) \in Nat /\ poolUsed[p] \in Nat
         /\ Job[j].pools[p] \in Nat
<1>1. Running \in SUBSET Jobs
  BY DEF Running
<1>2. /\ Weighs(Shares[p], Running) /\ Total(Shares[p], Running) \in Nat
      /\ Shares[p][j] = Job[j].pools[p] /\ Job[j].pools[p] \in Nat
  BY <1>1, SharesWeigh
<1>3. Total(Shares[p], Running \cup {j})
        = Job[j].pools[p] + Total(Shares[p], Running)
  BY <1>2, TotalAdd
<1> QED  BY <1>2, <1>3 DEF Acquire, TypeOK

\* The counters never count what no running job holds.
PoolsNotLeaked == \A p \in Pools : poolUsed[p] <= Total(Shares[p], Running)

LEMMA LeakStep ==
  ASSUME IndInv, PoolsNotLeaked, [Next]_vars
  PROVE  PoolsNotLeaked'
<1>0. TypeOK
  BY DEF IndInv
<1>1. SUFFICES ASSUME NEW p \in Pools
               PROVE  poolUsed'[p] <= Total(Shares[p], Running')
  BY DEF PoolsNotLeaked
<1>2. poolUsed[p] <= Total(Shares[p], Running)
  BY DEF PoolsNotLeaked
<1>3. CASE UNCHANGED <<Running, poolUsed>>
  BY <1>2, <1>3
<1>4. ASSUME NEW j \in Running, Running' = Running \ {j}, poolUsed' = Release(j)
      PROVE  poolUsed'[p] <= Total(Shares[p], Running')
  BY <1>0, <1>2, <1>4, PoolLeaves
<1>5. ASSUME NEW j \in Cancellable, Running' = Running, poolUsed' = Release(j)
      PROVE  poolUsed'[p] <= Total(Shares[p], Running')
  <2>1. Running \in SUBSET Jobs /\ j \in Jobs
    BY CallersAssumption DEF Running
  <2>2. poolUsed[p] \in Nat /\ Total(Shares[p], Running) \in Nat
        /\ Job[j].pools[p] \in Nat
    BY <1>0, <2>1, SharesWeigh DEF TypeOK
  <2>3. Release(j)[p] = IF poolUsed[p] > Job[j].pools[p]
                        THEN poolUsed[p] - Job[j].pools[p] ELSE 0
    BY DEF Release
  <2>4. Release(j)[p] \in Nat /\ Release(j)[p] <= poolUsed[p]
    BY <2>2, <2>3
  <2> QED  BY <1>2, <1>5, <2>2, <2>4
<1>6. ASSUME NEW j \in Jobs \ Running, Running' = Running \cup {j},
             poolUsed' = Acquire(j)
      PROVE  poolUsed'[p] <= Total(Shares[p], Running')
  <2>1. /\ Total(Shares[p], Running \cup {j})
             = Job[j].pools[p] + Total(Shares[p], Running)
        /\ Acquire(j)[p] = poolUsed[p] + Job[j].pools[p]
        /\ Total(Shares[p], Running) \in Nat /\ poolUsed[p] \in Nat
        /\ Job[j].pools[p] \in Nat
    BY <1>0, PoolJoins
  <2> QED  BY <1>2, <1>6, <2>1
<1> QED  BY <1>3, <1>4, <1>5, <1>6, PoolChange

\* At first no job runs and nothing is held.
LEMMA InitPools ==
  ASSUME Init
  PROVE  /\ Running = {}
         /\ \A p \in Pools : poolUsed[p] = 0 /\ Total(Shares[p], Running) = 0
<1>1. Running = {}
  BY DEF Init, Running
<1> QED  BY <1>1, TotalEmpty DEF Init

\* Whatever is cancelled, and whatever components share, no license and no burst
\* buffer stays counted when the job that held it is gone.
THEOREM NoPoolLeaks == Spec => []PoolsNotLeaked
<1>1. Init => PoolsNotLeaked
  BY InitPools DEF PoolsNotLeaked
<1>2. IndInv /\ PoolsNotLeaked /\ [Next]_vars => PoolsNotLeaked'
  BY LeakStep
<1> QED  BY <1>1, <1>2, Invariance, PTL DEF Spec

LEMMA ConservedStep ==
  ASSUME CancelsHoldNoPool, IndInv, PoolsConserved, [Next]_vars
  PROVE  PoolsConserved'
<1>0. TypeOK
  BY DEF IndInv
<1>1. SUFFICES ASSUME NEW p \in Pools
               PROVE  poolUsed'[p] = Total(Shares[p], Running')
  BY DEF PoolsConserved
<1>2. poolUsed[p] = Total(Shares[p], Running) /\ poolUsed[p] \in Nat
  BY <1>0 DEF PoolsConserved, TypeOK
<1>3. CASE UNCHANGED <<Running, poolUsed>>
  BY <1>2, <1>3
<1>4. ASSUME NEW j \in Running, Running' = Running \ {j}, poolUsed' = Release(j)
      PROVE  poolUsed'[p] = Total(Shares[p], Running')
  <2>1. poolUsed[p] <= Total(Shares[p], Running)
    BY <1>2
  <2> QED  BY <1>0, <1>2, <1>4, <2>1, PoolLeaves
<1>5. ASSUME NEW j \in Cancellable, Running' = Running, poolUsed' = Release(j)
      PROVE  poolUsed'[p] = Total(Shares[p], Running')
  <2>1. Job[j].pools[p] = 0
    BY DEF CancelsHoldNoPool
  <2>2. Release(j)[p] = poolUsed[p]
    BY <1>2, <2>1 DEF Release
  <2> QED  BY <1>2, <1>5, <2>2
<1>6. ASSUME NEW j \in Jobs \ Running, Running' = Running \cup {j},
             poolUsed' = Acquire(j)
      PROVE  poolUsed'[p] = Total(Shares[p], Running')
  <2>1. /\ Total(Shares[p], Running \cup {j})
             = Job[j].pools[p] + Total(Shares[p], Running)
        /\ Acquire(j)[p] = poolUsed[p] + Job[j].pools[p]
        /\ Job[j].pools[p] \in Nat
    BY <1>0, PoolJoins
  <2> QED  BY <1>2, <1>6, <2>1
<1> QED  BY <1>3, <1>4, <1>5, <1>6, PoolChange

\* The components about to start belong to one job, and each finds in every pool
\* what it asks for.
StartingServed ==
    /\ \A c \in DOMAIN starting : PoolsAvailable(c)
    /\ \A b, c \in DOMAIN starting :
          b # c => Job[b].group # 0 /\ Job[b].group = Job[c].group

PoolsInv ==
    /\ IndInv
    /\ PoolsConserved
    /\ \A p \in Pools : poolUsed[p] <= PoolCapacity[p]
    /\ StartingServed

LEMMA ServedKept ==
  ASSUME PoolsInv, TypeOK', UNCHANGED <<starting>>,
         \A p \in Pools : poolUsed'[p] <= poolUsed[p]
  PROVE  StartingServed' /\ \A p \in Pools : poolUsed'[p] <= PoolCapacity[p]
<1>1. \A p \in Pools : poolUsed[p] \in Nat /\ poolUsed'[p] \in Nat
                       /\ PoolCapacity[p] \in Nat
  BY CapacityAssumption DEF PoolsInv, IndInv, TypeOK
<1>2. \A c \in DOMAIN starting : \A p \in Pools : Job[c].pools[p] \in Nat
  BY JobAssumption DEF PoolsInv, IndInv, TypeOK, SlurmJobSpec
<1>3. ASSUME NEW c \in DOMAIN starting PROVE PoolsAvailable(c)'
  <2>1. ASSUME NEW p \in Pools
        PROVE  poolUsed'[p] + Job[c].pools[p] <= PoolCapacity[p]
    <3>1. poolUsed[p] + Job[c].pools[p] <= PoolCapacity[p]
      BY DEF PoolsInv, StartingServed, PoolsAvailable
    <3> QED  BY <1>1, <1>2, <3>1
  <2> QED  BY <2>1 DEF PoolsAvailable
<1>4. StartingServed'
  BY <1>3 DEF PoolsInv, StartingServed
<1>5. \A p \in Pools : poolUsed'[p] <= PoolCapacity[p]
  BY <1>1 DEF PoolsInv
<1> QED  BY <1>4, <1>5

LEMMA ReleaseLess ==
  ASSUME TypeOK, NEW j \in Jobs, NEW p \in Pools
  PROVE  Release(j)[p] <= poolUsed[p]
<1>1. poolUsed[p] \in Nat /\ Job[j].pools[p] \in Nat
  BY SharesWeigh DEF TypeOK
<1>2. Release(j)[p] = IF poolUsed[p] > Job[j].pools[p]
                      THEN poolUsed[p] - Job[j].pools[p] ELSE 0
  BY DEF Release
<1> QED  BY <1>1, <1>2

LEMMA ChooseServed ==
  ASSUME PoolsInv, NEW j \in Jobs, Choose(j)
  PROVE  StartingServed' /\ \A p \in Pools : poolUsed'[p] <= PoolCapacity[p]
<1> DEFINE C == Components(j)
<1>1. PICK chosen \in [C -> SUBSET Nodes] :
          Placement(C, chosen) /\ starting' = chosen
  BY DEF Choose
<1>2. poolUsed' = poolUsed /\ C \in SUBSET Jobs
  BY DEF Choose, Components, Pending
<1>3. \A b, c \in C : b # c => Job[b].group # 0 /\ Job[b].group = Job[c].group
  BY DEF Components
<1> HIDE DEF C
<1>4. DOMAIN starting' = C
  BY <1>1
<1>5. ASSUME NEW c \in C PROVE PoolsAvailable(c)'
  <2>1. PoolsAvailable(c)
    BY <1>1, <1>2, PlacementFits
  <2> QED  BY <1>2, <2>1 DEF PoolsAvailable
<1>6. StartingServed'
  BY <1>3, <1>4, <1>5 DEF StartingServed
<1> QED  BY <1>2, <1>6 DEF PoolsInv

LEMMA StartServed ==
  ASSUME ComponentsPoolsDisjoint, PoolsInv, NEW j \in Jobs, Start(j)
  PROVE  StartingServed' /\ \A p \in Pools : poolUsed'[p] <= PoolCapacity[p]
<1>1. /\ j \in DOMAIN starting /\ poolUsed' = Acquire(j)
      /\ DOMAIN starting' = DOMAIN starting \ {j}
      /\ DOMAIN starting \in SUBSET Jobs
  BY DEF Start, PoolsInv, IndInv, TypeOK
<1>2. \A p \in Pools : poolUsed'[p] = poolUsed[p] + Job[j].pools[p]
  BY <1>1 DEF Acquire
<1>3. \A p \in Pools : poolUsed'[p] <= PoolCapacity[p]
  BY <1>1, <1>2 DEF PoolsInv, StartingServed, PoolsAvailable
<1>4. ASSUME NEW c \in DOMAIN starting', NEW p \in Pools
      PROVE  poolUsed'[p] + Job[c].pools[p] <= PoolCapacity[p]
  <2>1. c \in DOMAIN starting /\ c # j /\ c \in Jobs
    BY <1>1
  <2>2. Job[c].group # 0 /\ Job[c].group = Job[j].group
    BY <1>1, <2>1 DEF PoolsInv, StartingServed
  <2>3. Job[c].pools[p] = 0 \/ Job[j].pools[p] = 0
    BY <2>1, <2>2 DEF ComponentsPoolsDisjoint, Mates
  <2>4. poolUsed[p] + Job[c].pools[p] <= PoolCapacity[p]
    BY <2>1 DEF PoolsInv, StartingServed, PoolsAvailable
  <2>5. poolUsed[p] \in Nat /\ Job[c].pools[p] \in Nat /\ Job[j].pools[p] \in Nat
    BY <2>1, SharesWeigh DEF PoolsInv, IndInv, TypeOK
  <2> QED  BY <1>2, <1>3, <2>3, <2>4, <2>5
<1>5. StartingServed'
  BY <1>1, <1>4 DEF PoolsInv, StartingServed, PoolsAvailable
<1> QED  BY <1>3, <1>5

LEMMA PoolsStep ==
  ASSUME CancelsHoldNoPool, ComponentsPoolsDisjoint, PoolsInv, [Next]_vars
  PROVE  PoolsInv'
<1> USE DEF PoolsInv
<1>1. IndInv' /\ PoolsConserved' /\ TypeOK /\ TypeOK'
  BY NextInv, ConservedStep DEF IndInv
<1>2. SUFFICES StartingServed' /\ \A p \in Pools : poolUsed'[p] <= PoolCapacity[p]
  BY <1>1
<1>3. ASSUME NEW j \in Jobs, starting' = starting, poolUsed' = Release(j)
      PROVE  StartingServed' /\ \A p \in Pools : poolUsed'[p] <= PoolCapacity[p]
  <2>1. \A p \in Pools : poolUsed'[p] <= poolUsed[p]
    BY <1>1, <1>3, ReleaseLess
  <2> QED  BY <1>1, <1>3, <2>1, ServedKept
<1>4. ASSUME starting' = starting, poolUsed' = poolUsed
      PROVE  StartingServed' /\ \A p \in Pools : poolUsed'[p] <= PoolCapacity[p]
  BY <1>4 DEF StartingServed, PoolsAvailable
<1>5. ASSUME NEW batch, NEW when, Submit(batch, when)
      PROVE  starting' = starting /\ poolUsed' = poolUsed
  BY <1>5 DEF Submit, passVars
<1>6. ASSUME NEW j \in Jobs, NEW victim \in Jobs,
             Cancel(j) \/ Finish(j) \/ Preempt(j, victim)
      PROVE  starting' = starting /\ \E k \in Jobs : poolUsed' = Release(k)
  BY <1>6 DEF Cancel, Finish, Preempt, passVars
<1>7. ASSUME NEW j, NEW now,
             \/ Advance(now) \/ FinishDone \/ PreemptSkip(j) \/ PreemptDone
             \/ PassOver(j) \/ ScheduleDone \/ UNCHANGED vars
      PROVE  starting' = starting /\ poolUsed' = poolUsed
  BY <1>7 DEF Advance, FinishDone, PreemptSkip, PreemptDone, PassOver, ScheduleDone,
              passVars, vars
<1>8. ASSUME NEW j \in Jobs, Choose(j) \/ Start(j)
      PROVE  StartingServed' /\ \A p \in Pools : poolUsed'[p] <= PoolCapacity[p]
  BY <1>8, ChooseServed, StartServed
<1> HIDE DEF PoolsInv
<1> QED  BY <1>3, <1>4, <1>5, <1>6, <1>7, <1>8, CallersAssumption DEF Next, Continue

\* The counters balance when no job that holds a pool may be cancelled.
THEOREM PoolsStayConserved ==
  ASSUME CancelsHoldNoPool PROVE Spec => []PoolsConserved
<1>1. Init => PoolsConserved
  BY InitPools DEF PoolsConserved
<1>2. IndInv /\ PoolsConserved /\ [Next]_vars => PoolsConserved'
  BY ConservedStep
<1> QED  BY <1>1, <1>2, Invariance, PTL DEF Spec

\* And then no node and no pool is ever overdrawn, provided the components of a
\* heterogeneous job do not compete for one pool.
THEOREM ResourcesAlwaysHonoured ==
  ASSUME CancelsHoldNoPool, ComponentsPoolsDisjoint
  PROVE  Spec => []ResourcesHonoured
<1>1. Init => PoolsInv
  <2>1. Init => IndInv /\ DOMAIN starting = {}
    BY InitInv DEF Init, Empty
  <2>2. \A p \in Pools : 0 <= PoolCapacity[p]
    BY CapacityAssumption
  <2> QED  BY <2>1, <2>2, InitPools DEF PoolsInv, PoolsConserved, StartingServed
<1>2. PoolsInv /\ [Next]_vars => PoolsInv'
  BY PoolsStep
<1>3. PoolsInv => PoolsBalance
  BY DEF PoolsInv, PoolsBalance, PoolsConserved, PoolsWithinCapacity
<1>4. PoolsBalance /\ NodesHonoured => ResourcesHonoured
  BY DEF ResourcesHonoured
<1> QED  BY <1>1, <1>2, <1>3, <1>4, NodesAlwaysHonoured, PTL DEF Spec

-----------------------------------------------------------------------------
(* The policies.  Every component that is about to start was tested against   *)
(* its array and its limits, and is the only one of its job that counts there. *)

TasksOf(a) == {k \in Running : Job[k].array = a}

TresAllows(c) ==
    \A l \in Limits : c \in l.members =>
        Total(Tres, Running \cap l.members) + Job[c].tres <= l.maxTres

StartingAllowed ==
    /\ \A c \in DOMAIN starting : ~ArrayAtCapacity(c) /\ TresAllows(c)
    /\ \A b, c \in DOMAIN starting :
          b # c => Job[b].group # 0 /\ Job[b].group = Job[c].group

CountsInv == IndInv /\ ArrayConcurrency /\ TresWithinLimit /\ StartingAllowed

LEMMA TresWeigh ==
  ASSUME NEW S \in SUBSET Jobs
  PROVE  /\ Weighs(Tres, S) /\ Total(Tres, S) \in Nat /\ IsFiniteSet(S)
         /\ \A j \in Jobs : Tres[j] = Job[j].tres /\ Job[j].tres \in Nat
<1>1. \A j \in Jobs : Tres[j] = Job[j].tres /\ Job[j].tres \in Nat
  BY JobAssumption DEF Tres, SlurmJobSpec
<1>2. IsFiniteSet(S)
  BY JobsAssumption, FS_Subset
<1>3. Weighs(Tres, S)
  BY <1>1, <1>2 DEF Weighs
<1> QED  BY <1>1, <1>2, <1>3, TotalNat

\* Counts and totals over the running jobs, and over fewer of them.
LEMMA FewerCount ==
  ASSUME NEW R \in SUBSET Running
  PROVE  /\ \A a : /\ Cardinality({k \in R : Job[k].array = a}) <= Cardinality(TasksOf(a))
                   /\ Cardinality({k \in R : Job[k].array = a}) \in Nat
                   /\ Cardinality(TasksOf(a)) \in Nat
         /\ \A l \in Limits : /\ Total(Tres, R \cap l.members)
                                     <= Total(Tres, Running \cap l.members)
                              /\ Total(Tres, R \cap l.members) \in Nat
                              /\ Total(Tres, Running \cap l.members) \in Nat
<1>1. ASSUME NEW a
      PROVE  /\ Cardinality({k \in R : Job[k].array = a}) <= Cardinality(TasksOf(a))
             /\ Cardinality({k \in R : Job[k].array = a}) \in Nat
             /\ Cardinality(TasksOf(a)) \in Nat
  <2> DEFINE small == {k \in R : Job[k].array = a}
  <2>1. small \in SUBSET TasksOf(a) /\ TasksOf(a) \in SUBSET Jobs
    BY DEF TasksOf, Running
  <2>2. IsFiniteSet(TasksOf(a))
    BY <2>1, JobsAssumption, FS_Subset
  <2> HIDE DEF small
  <2>3. IsFiniteSet(small) /\ Cardinality(small) <= Cardinality(TasksOf(a))
    BY <2>1, <2>2, FS_Subset
  <2> QED  BY <2>2, <2>3, FS_CardinalityType DEF small
<1>2. ASSUME NEW l \in Limits
      PROVE  /\ Total(Tres, R \cap l.members) <= Total(Tres, Running \cap l.members)
             /\ Total(Tres, R \cap l.members) \in Nat
             /\ Total(Tres, Running \cap l.members) \in Nat
  <2>1. R \cap l.members \in SUBSET (Running \cap l.members)
        /\ Running \cap l.members \in SUBSET Jobs
        /\ R \cap l.members \in SUBSET Jobs
    BY DEF Running
  <2> QED  BY <2>1, TresWeigh, TotalMonotone
<1> QED  BY <1>1, <1>2

\* A step after which no more jobs run than before keeps the counts.
LEMMA CountsKept ==
  ASSUME CountsInv, IndInv', Running' \in SUBSET Running,
         \/ DOMAIN starting' = {}
         \/ starting' = starting /\ Running' = Running
  PROVE  CountsInv'
<1>1. ArrayConcurrency'
  <2>1. SUFFICES ASSUME NEW j \in Running', Job[j].array # 0, Job[j].arrayMax # 0
                 PROVE  Cardinality(TasksOf(Job[j].array)') <= Job[j].arrayMax
    BY DEF ArrayConcurrency, TasksOf
  <2> DEFINE a == Job[j].array
  <2>2. Cardinality(TasksOf(a)) <= Job[j].arrayMax
    BY <2>1 DEF CountsInv, ArrayConcurrency, TasksOf
  <2>3. /\ Cardinality(TasksOf(a)') <= Cardinality(TasksOf(a))
        /\ Cardinality(TasksOf(a)') \in Nat /\ Cardinality(TasksOf(a)) \in Nat
    BY FewerCount DEF TasksOf
  <2>4. Job[j].arrayMax \in Nat
    BY JobAssumption DEF Running, SlurmJobSpec
  <2> HIDE DEF a
  <2> QED  BY <2>2, <2>3, <2>4 DEF a
<1>2. TresWithinLimit'
  <2>1. SUFFICES ASSUME NEW l \in Limits
                 PROVE  Total(Tres, Running' \cap l.members) <= l.maxTres
    BY DEF TresWithinLimit
  <2>2. /\ Total(Tres, Running' \cap l.members) <= Total(Tres, Running \cap l.members)
        /\ Total(Tres, Running' \cap l.members) \in Nat
        /\ Total(Tres, Running \cap l.members) \in Nat
    BY FewerCount
  <2>3. Total(Tres, Running \cap l.members) <= l.maxTres /\ l.maxTres \in Nat
    BY LimitsAssumption DEF CountsInv, TresWithinLimit
  <2> QED  BY <2>2, <2>3
<1>3. StartingAllowed'
  <2>1. CASE DOMAIN starting' = {}
    BY <2>1 DEF StartingAllowed
  <2>2. CASE starting' = starting /\ Running' = Running
    BY <2>2 DEF CountsInv, StartingAllowed, ArrayAtCapacity, TresAllows
  <2> QED  BY <2>1, <2>2
<1> QED  BY <1>1, <1>2, <1>3 DEF CountsInv

LEMMA ChooseCounts ==
  ASSUME CountsInv, IndInv', NEW j \in Jobs, Choose(j)
  PROVE  CountsInv'
<1> DEFINE C == Components(j)
<1>1. PICK chosen \in [C -> SUBSET Nodes] :
          Placement(C, chosen) /\ starting' = chosen
  BY DEF Choose
<1>2. state' = state
  BY DEF Choose
<1>3. \A b, c \in C : b # c => Job[b].group # 0 /\ Job[b].group = Job[c].group
  BY DEF Components
<1> HIDE DEF C
<1>4. \A c \in C : ~ArrayAtCapacity(c) /\ TresAllows(c)
  BY <1>1 DEF Placement, PolicyCapacityAvailable, TresAllows
<1>5. Running' = Running
  BY <1>2 DEF Running
<1>6. DOMAIN starting' = C
  BY <1>1
<1>7. StartingAllowed'
  BY <1>3, <1>4, <1>5, <1>6 DEF StartingAllowed, ArrayAtCapacity, TresAllows
<1>8. ArrayConcurrency' /\ TresWithinLimit'
  BY <1>5 DEF CountsInv, ArrayConcurrency, TresWithinLimit
<1> QED  BY <1>7, <1>8 DEF CountsInv

\* A start adds itself to its own array and to its own limits only.
LEMMA StartCounts ==
  ASSUME ArraysUniform, ComponentsCountOnce, CountsInv, IndInv', NEW j \in Jobs, Start(j)
  PROVE  CountsInv'
<1>1. /\ j \in DOMAIN starting /\ state' = [state EXCEPT ![j] = "RUNNING"]
      /\ DOMAIN starting' = DOMAIN starting \ {j}
      /\ DOMAIN starting \in SUBSET Jobs /\ state \in [Jobs -> States]
  BY DEF Start, CountsInv, IndInv, TypeOK
<1>2. j \notin Running /\ Running' = Running \cup {j}
  BY <1>1 DEF CountsInv, IndInv, LoopsVisitPending, Pending, Running
<1>3. \A a : TasksOf(a)' = IF Job[j].array = a THEN TasksOf(a) \cup {j} ELSE TasksOf(a)
  BY <1>2 DEF TasksOf
<1>4. \A a : IsFiniteSet(TasksOf(a)) /\ Cardinality(TasksOf(a)) \in Nat
             /\ j \notin TasksOf(a)
  <2>1. \A a : TasksOf(a) \in SUBSET Jobs /\ j \notin TasksOf(a)
    BY <1>2 DEF TasksOf, Running
  <2>2. \A a : IsFiniteSet(TasksOf(a))
    BY <2>1, JobsAssumption, FS_Subset
  <2> QED  BY <2>1, <2>2, FS_CardinalityType
<1>5. ~ArrayAtCapacity(j) /\ TresAllows(j)
  BY <1>1 DEF CountsInv, StartingAllowed
<1>6. ArrayConcurrency'
  <2>1. SUFFICES ASSUME NEW k \in Running', Job[k].array # 0, Job[k].arrayMax # 0
                 PROVE  Cardinality(TasksOf(Job[k].array)') <= Job[k].arrayMax
    BY DEF ArrayConcurrency, TasksOf
  <2>2. Job[k].arrayMax \in Nat /\ k \in Jobs
    BY JobAssumption DEF Running, SlurmJobSpec
  <2>3. CASE Job[k].array = Job[j].array
    <3>1. Job[k].arrayMax = Job[j].arrayMax
      BY <2>1, <2>2, <2>3 DEF ArraysUniform
    <3>2. ~(Cardinality(TasksOf(Job[j].array)) >= Job[j].arrayMax)
      BY <1>5, <2>1, <2>3, <3>1 DEF ArrayAtCapacity, TasksOf
    <3>3. Cardinality(TasksOf(Job[j].array)') = Cardinality(TasksOf(Job[j].array)) + 1
      BY <1>3, <1>4, FS_AddElement
    <3> QED  BY <1>4, <2>2, <2>3, <3>1, <3>2, <3>3
  <2>4. CASE Job[k].array # Job[j].array
    <3>1. TasksOf(Job[k].array)' = TasksOf(Job[k].array) /\ k \in Running
      BY <1>2, <1>3, <2>4
    <3> QED  BY <2>1, <3>1 DEF CountsInv, ArrayConcurrency, TasksOf
  <2> QED  BY <2>3, <2>4
<1>7. ASSUME NEW l \in Limits
      PROVE  /\ Total(Tres, Running' \cap l.members)
                  = IF j \in l.members
                    THEN Job[j].tres + Total(Tres, Running \cap l.members)
                    ELSE Total(Tres, Running \cap l.members)
             /\ Total(Tres, Running \cap l.members) \in Nat
             /\ Job[j].tres \in Nat /\ l.maxTres \in Nat
  <2> DEFINE R == Running \cap l.members
  <2>1. R \in SUBSET Jobs /\ j \notin R
    BY <1>2 DEF Running
  <2>2. Weighs(Tres, R) /\ Total(Tres, R) \in Nat /\ Tres[j] = Job[j].tres
        /\ Job[j].tres \in Nat
    BY <2>1, TresWeigh
  <2>3. l.maxTres \in Nat
    BY LimitsAssumption
  <2>4. Running' \cap l.members = IF j \in l.members THEN R \cup {j} ELSE R
    BY <1>2
  <2> HIDE DEF R
  <2>5. Total(Tres, R \cup {j}) = Job[j].tres + Total(Tres, R)
    BY <2>1, <2>2, TotalAdd
  <2> QED  BY <2>2, <2>3, <2>4, <2>5 DEF R
<1>8. TresWithinLimit'
  <2>1. SUFFICES ASSUME NEW l \in Limits
                 PROVE  Total(Tres, Running' \cap l.members) <= l.maxTres
    BY DEF TresWithinLimit
  <2>2. j \in l.members => Total(Tres, Running \cap l.members) + Job[j].tres <= l.maxTres
    BY <1>5 DEF TresAllows
  <2>3. Total(Tres, Running \cap l.members) <= l.maxTres
    BY DEF CountsInv, TresWithinLimit
  <2> QED  BY <1>7, <2>2, <2>3
<1>9. ASSUME NEW c \in DOMAIN starting'
      PROVE  ~ArrayAtCapacity(c)' /\ TresAllows(c)'
  <2>1. c \in DOMAIN starting /\ c # j /\ c \in Jobs
        /\ Job[c].group # 0 /\ Job[c].group = Job[j].group
        /\ ~ArrayAtCapacity(c) /\ TresAllows(c)
    BY <1>1 DEF CountsInv, StartingAllowed
  <2>2. ~ArrayAtCapacity(c)'
    <3>1. Job[c].array # 0 => TasksOf(Job[c].array)' = TasksOf(Job[c].array)
      BY <1>3, <2>1 DEF ComponentsCountOnce, Mates
    <3> QED  BY <2>1, <3>1 DEF ArrayAtCapacity, TasksOf
  <2>3. ASSUME NEW l \in Limits, c \in l.members
        PROVE  Total(Tres, Running' \cap l.members) + Job[c].tres <= l.maxTres
    <3>1. Total(Tres, Running \cap l.members) + Job[c].tres <= l.maxTres
      BY <2>1, <2>3 DEF TresAllows
    <3>2. j \in l.members => Job[j].tres = 0 \/ Job[c].tres = 0
      BY <2>1, <2>3 DEF ComponentsCountOnce, Mates
    <3>3. j \in l.members =>
              Total(Tres, Running \cap l.members) + Job[j].tres <= l.maxTres
      BY <1>5 DEF TresAllows
    <3>4. Job[c].tres \in Nat
      BY <2>1, JobAssumption DEF SlurmJobSpec
    <3> QED  BY <1>7, <3>1, <3>2, <3>3, <3>4
  <2> QED  BY <2>2, <2>3 DEF TresAllows
<1>10. StartingAllowed'
  BY <1>1, <1>9 DEF CountsInv, StartingAllowed
<1> QED  BY <1>6, <1>8, <1>10 DEF CountsInv

LEMMA CountsStep ==
  ASSUME ArraysUniform, ComponentsCountOnce, CountsInv, [Next]_vars
  PROVE  CountsInv'
<1>1. IndInv /\ IndInv'
  BY NextInv DEF CountsInv
<1>2. stage # "schedule" => DOMAIN starting = {}
  BY <1>1 DEF IndInv, LoopsVisitPending
<1>3. ASSUME NEW j \in Jobs, Start(j) PROVE CountsInv'
  BY <1>1, <1>3, StartCounts
<1>4. ASSUME NEW j \in Jobs, Choose(j) PROVE CountsInv'
  BY <1>1, <1>4, ChooseCounts
<1>5. ASSUME Running' \in SUBSET Running,
             \/ starting' = starting /\ stage # "schedule"
             \/ starting' = starting /\ state' = state
      PROVE  CountsInv'
  <2>1. \/ DOMAIN starting' = {}
        \/ starting' = starting /\ Running' = Running
    BY <1>2, <1>5 DEF Running
  <2> QED  BY <1>1, <1>5, <2>1, CountsKept
<1>6. ASSUME NEW batch, NEW when, Submit(batch, when)
      PROVE  starting' = starting /\ stage # "schedule"
  BY <1>6 DEF Submit, passVars
<1>7. ASSUME NEW j \in Jobs, NEW victim \in Jobs,
             Cancel(j) \/ Finish(j) \/ Preempt(j, victim)
      PROVE  starting' = starting /\ stage # "schedule"
  BY <1>7 DEF Cancel, Finish, Preempt, NextToPreemptFor, passVars
<1>8. ASSUME NEW j, NEW now,
             \/ Advance(now) \/ FinishDone \/ PreemptSkip(j) \/ PreemptDone
             \/ PassOver(j) \/ ScheduleDone \/ UNCHANGED vars
      PROVE  starting' = starting /\ state' = state
  BY <1>8 DEF Advance, FinishDone, PreemptSkip, PreemptDone, PassOver, ScheduleDone,
              passVars, vars
<1>9. Running' \in SUBSET Running \/ \E j \in Jobs : Start(j)
  BY <1>1, PoolChange
<1> QED  BY <1>3, <1>4, <1>5, <1>6, <1>7, <1>8, <1>9, CallersAssumption
            DEF Next, Continue

\* While a group starts, a component has either started just now or is about to;
\* before and after, all of them are pending or none is.
InStep(j, k) ==
    \/ k \in DOMAIN starting
    \/ /\ j \in DOMAIN starting
       /\ state[k] = "RUNNING" /\ startedAt[k] = time
    \/ /\ j \notin DOMAIN starting
       /\ state[j] = "PENDING" <=> state[k] = "PENDING"
       /\ startedAt[j] = startedAt[k]

GroupsInv ==
    /\ IndInv
    /\ (PreemptMode = "off" /\ stage = "preempt") => todo = {}
    /\ \A j \in Jobs : state[j] = "NEW" => startedAt[j] = -1
    /\ \A j, k \in Jobs : (Mates(j, k) /\ j < k /\ state[k] # "NEW") => state[j] # "NEW"
    /\ \A j, k \in Known : Mates(j, k) => InStep(j, k)

LEMMA SubmitGroups ==
  ASSUME GroupsWhole, GroupsInv, IndInv', NEW batch \in Batches, NEW when,
         Submit(batch, when)
  PROVE  GroupsInv'
<1> DEFINE accepted == Accepted(batch)
<1>1. /\ state' = [j \in Jobs |-> IF j \in accepted THEN "PENDING" ELSE state[j]]
      /\ UNCHANGED <<startedAt, starting, stage, todo>> /\ stage = "idle"
  BY DEF Submit, passVars
<1>2. accepted \in SUBSET Jobs /\ (\A j \in accepted : state[j] = "NEW")
      /\ batch \in SUBSET Jobs
  BY AcceptedNew, CallersAssumption
<1>3. DOMAIN starting = {} /\ state \in [Jobs -> States]
  BY <1>1 DEF GroupsInv, IndInv, LoopsVisitPending, TypeOK
<1>4. ASSUME NEW j, NEW k, Mates(j, k), k \in accepted, j < k
      PROVE  j \in accepted
  <2>1. j \in batch /\ k \in batch
    BY <1>4 DEF Mates, GroupsWhole, Accepted
  <2>2. \A i \in batch : i <= j => i <= k
    BY <1>2, <1>4, <2>1, JobsAssumption
  <2> QED  BY <1>4, <2>1, <2>2 DEF Accepted
<1>5. ASSUME NEW j, NEW k, Mates(j, k), k \in accepted
      PROVE  state[j] = "NEW"
  <2>1. j < k \/ k < j \/ j = k
    BY <1>5, JobsAssumption DEF Mates
  <2>2. CASE j < k
    BY <1>2, <1>4, <1>5, <2>2
  <2>3. CASE k < j
    <3>1. state[j] # "NEW" => state[k] # "NEW"
      BY <1>5, <2>3 DEF GroupsInv, Mates
    <3> QED  BY <1>2, <1>5, <3>1
  <2> QED  BY <1>2, <1>5, <2>1, <2>2, <2>3
<1> HIDE DEF accepted
<1>6. \A j \in Jobs : state'[j] = "NEW" => startedAt'[j] = -1
  BY <1>1 DEF GroupsInv
<1>7. \A j, k \in Jobs : (Mates(j, k) /\ j < k /\ state'[k] # "NEW") => state'[j] # "NEW"
  BY <1>1, <1>4 DEF GroupsInv
<1>8. ASSUME NEW j \in Known', NEW k \in Known', Mates(j, k)
      PROVE  InStep(j, k)'
  <2>1. j \in Jobs /\ k \in Jobs /\ Mates(k, j)
    BY <1>8 DEF Mates
  <2>2. j \in accepted <=> k \in accepted
    <3>1. k \in accepted => state[j] = "NEW"
      BY <1>5, <1>8
    <3>2. j \in accepted => state[k] = "NEW"
      BY <1>5, <2>1
    <3> QED  BY <1>1, <1>8, <2>1, <3>1, <3>2 DEF Known
  <2>3. CASE j \in accepted
    <3>1. startedAt[j] = -1 /\ startedAt[k] = -1
      BY <1>2, <2>1, <2>2, <2>3 DEF GroupsInv
    <3> QED  BY <1>1, <1>3, <2>1, <2>2, <2>3, <3>1 DEF InStep
  <2>4. CASE j \notin accepted
    <3>1. InStep(j, k)
      BY <1>1, <1>8, <2>1, <2>2, <2>4 DEF GroupsInv, Known
    <3> QED  BY <1>1, <1>3, <2>1, <2>2, <2>4, <3>1 DEF InStep
  <2> QED  BY <2>3, <2>4
<1> QED  BY <1>1, <1>6, <1>7, <1>8 DEF GroupsInv

\* A job leaves the running or the pending ones outside a start: it belongs to no
\* group, or it was running and does not come back.
LEMMA LeaveGroups ==
  ASSUME GroupsInv, IndInv', NEW x \in Jobs, NEW s, s # "NEW", state[x] # "NEW",
         state' = [state EXCEPT ![x] = s],
         stage # "schedule", UNCHANGED <<startedAt, starting, stage>>,
         todo' \in SUBSET todo,
         Job[x].group = 0 \/ (state[x] # "PENDING" /\ s # "PENDING")
  PROVE  GroupsInv'
<1>1. state \in [Jobs -> States] /\ DOMAIN starting = {}
  BY DEF GroupsInv, IndInv, TypeOK, LoopsVisitPending
<1>2. \A j \in Jobs : state'[j] = IF j = x THEN s ELSE state[j]
  BY <1>1
<1>3. Known' = Known
  BY <1>2 DEF Known
<1>4. ASSUME NEW j \in Known, NEW k \in Known, Mates(j, k)
      PROVE  InStep(j, k)'
  <2>1. InStep(j, k) /\ j \in Jobs /\ k \in Jobs
        /\ Job[j].group # 0 /\ Job[k].group # 0
    BY <1>4 DEF GroupsInv, Mates
  <2>2. state[j] = "PENDING" <=> state'[j] = "PENDING"
    BY <1>2, <2>1
  <2>3. state[k] = "PENDING" <=> state'[k] = "PENDING"
    BY <1>2, <2>1
  <2> QED  BY <1>1, <2>1, <2>2, <2>3 DEF InStep
<1>5. (PreemptMode = "off" /\ stage' = "preempt") => todo' = {}
  BY DEF GroupsInv
<1>6. \A j \in Jobs : state'[j] = "NEW" => startedAt'[j] = -1
  BY <1>2 DEF GroupsInv
<1>7. \A j, k \in Jobs : (Mates(j, k) /\ j < k /\ state'[k] # "NEW") => state'[j] # "NEW"
  BY <1>2 DEF GroupsInv
<1> QED  BY <1>3, <1>4, <1>5, <1>6, <1>7 DEF GroupsInv

LEMMA ControlGroups ==
  ASSUME GroupsInv, IndInv', NEW j, NEW now,
         \/ Advance(now) \/ FinishDone \/ PreemptSkip(j) \/ PreemptDone
         \/ PassOver(j) \/ ScheduleDone \/ UNCHANGED vars
  PROVE  GroupsInv'
<1>1. UNCHANGED <<state, startedAt, starting>>
  BY DEF Advance, FinishDone, PreemptSkip, PreemptDone, PassOver, ScheduleDone,
         passVars, vars
<1>2. (PreemptMode = "off" /\ stage' = "preempt") => todo' = {}
  BY DEF GroupsInv, Advance, FinishDone, PreemptSkip, PreemptDone, PassOver,
         ScheduleDone, NextToPreemptFor, NextToSchedule, passVars, vars
<1>3. time' = time \/ DOMAIN starting = {}
  BY DEF GroupsInv, IndInv, LoopsVisitPending, Advance, FinishDone, PreemptSkip,
         PreemptDone, PassOver, ScheduleDone, vars
<1>4. \A i, k \in Known : Mates(i, k) => InStep(i, k)'
  BY <1>1, <1>3 DEF GroupsInv, InStep
<1>5. Known' = Known
  BY <1>1 DEF Known
<1>6. /\ \A i \in Jobs : state'[i] = "NEW" => startedAt'[i] = -1
      /\ \A i, k \in Jobs :
            (Mates(i, k) /\ i < k /\ state'[k] # "NEW") => state'[i] # "NEW"
  BY <1>1 DEF GroupsInv
<1> QED  BY <1>2, <1>4, <1>5, <1>6 DEF GroupsInv

\* All the components that are waiting are chosen at once.
LEMMA ChooseGroups ==
  ASSUME GroupsInv, IndInv', NEW j \in Jobs, Choose(j)
  PROVE  GroupsInv'
<1> DEFINE C == Components(j)
<1>1. /\ starting = Empty /\ stage = "schedule" /\ j \in todo
      /\ UNCHANGED <<state, startedAt, time, stage>>
      /\ DOMAIN starting' = C
  BY DEF Choose, NextToSchedule
<1>2. DOMAIN starting = {} /\ j \in Pending
  BY <1>1 DEF Empty, GroupsInv, IndInv, LoopsVisitPending
<1>3. ASSUME NEW b \in Known, NEW c \in Known, Mates(b, c)
      PROVE  InStep(b, c)'
  <2>1. /\ state[b] = "PENDING" <=> state[c] = "PENDING"
        /\ startedAt[b] = startedAt[c]
    BY <1>2, <1>3 DEF GroupsInv, InStep
  <2>2. b \in C => c \in C
    BY <1>2, <1>3, <2>1 DEF Components, Mates, Pending
  <2> HIDE DEF C
  <2> QED  BY <1>1, <2>1, <2>2 DEF InStep
<1>4. Known' = Known
  BY <1>1 DEF Known
<1>5. /\ \A i \in Jobs : state'[i] = "NEW" => startedAt'[i] = -1
      /\ \A i, k \in Jobs :
            (Mates(i, k) /\ i < k /\ state'[k] # "NEW") => state'[i] # "NEW"
      /\ stage' # "preempt"
  BY <1>1 DEF GroupsInv
<1> QED  BY <1>3, <1>4, <1>5 DEF GroupsInv

\* They start at one instant: the clock does not move inside a pass.
LEMMA StartGroups ==
  ASSUME GroupsInv, IndInv', NEW j \in Jobs, Start(j)
  PROVE  GroupsInv'
<1>1. /\ j \in DOMAIN starting /\ stage = "schedule"
      /\ DOMAIN starting' = DOMAIN starting \ {j}
      /\ state' = [state EXCEPT ![j] = "RUNNING"]
      /\ startedAt' = [startedAt EXCEPT ![j] = time]
      /\ UNCHANGED <<time, stage>>
  BY DEF Start
<1>2. /\ state \in [Jobs -> States] /\ startedAt \in [Jobs -> Nat \cup {-1}]
      /\ j \in Pending
  BY <1>1 DEF GroupsInv, IndInv, TypeOK, LoopsVisitPending
<1>3. /\ state'[j] = "RUNNING" /\ startedAt'[j] = time
      /\ \A k \in Jobs \ {j} : state'[k] = state[k] /\ startedAt'[k] = startedAt[k]
  BY <1>1, <1>2
<1>4. Known' = Known
  BY <1>2, <1>3 DEF Known, Pending
<1>5. ASSUME NEW b \in Known, NEW c \in Known, Mates(b, c)
      PROVE  InStep(b, c)'
  <2>1. InStep(b, c) /\ InStep(c, b) /\ b \in Jobs /\ c \in Jobs
    BY <1>5 DEF GroupsInv, Mates
  <2>2. CASE c = j
    <3>1. b \in DOMAIN starting \/ (state[b] = "RUNNING" /\ startedAt[b] = time)
      BY <1>1, <2>1, <2>2 DEF InStep
    <3> QED  BY <1>1, <1>3, <2>1, <2>2, <3>1 DEF InStep
  <2>3. CASE c # j /\ b = j
    <3>1. c \in DOMAIN starting \/ (state[c] = "RUNNING" /\ startedAt[c] = time)
      BY <1>1, <2>1, <2>3 DEF InStep
    <3> QED  BY <1>1, <1>3, <2>1, <2>3, <3>1 DEF InStep
  <2>4. CASE c # j /\ b # j
    BY <1>1, <1>3, <2>1, <2>4 DEF InStep
  <2> QED  BY <2>2, <2>3, <2>4
<1>6. /\ \A i \in Jobs : state'[i] = "NEW" => startedAt'[i] = -1
      /\ \A i, k \in Jobs :
            (Mates(i, k) /\ i < k /\ state'[k] # "NEW") => state'[i] # "NEW"
      /\ stage' # "preempt"
  BY <1>1, <1>2, <1>3 DEF GroupsInv, Pending
<1> QED  BY <1>4, <1>5, <1>6 DEF GroupsInv

LEMMA GroupsStep ==
  ASSUME GroupsWhole, GroupsInv, [Next]_vars
  PROVE  GroupsInv'
<1>1. IndInv /\ IndInv'
  BY NextInv DEF GroupsInv
<1>2. ASSUME NEW batch \in Batches, NEW when, Submit(batch, when) PROVE GroupsInv'
  BY <1>1, <1>2, SubmitGroups
<1>3. ASSUME NEW j \in Cancellable, Cancel(j) PROVE GroupsInv'
  <2>1. /\ j \in Jobs /\ Job[j].group = 0
        /\ state[j] # "NEW" /\ state' = [state EXCEPT ![j] = "CANCELLED"]
        /\ stage # "schedule" /\ UNCHANGED <<startedAt, starting, stage, todo>>
    BY <1>3, CallersAssumption DEF Cancel, passVars, GroupsWhole, Mates
  <2> QED  BY <1>1, <2>1, LeaveGroups
<1>4. ASSUME NEW j \in Jobs, Finish(j) PROVE GroupsInv'
  <2>1. /\ state[j] = "RUNNING" /\ state' = [state EXCEPT ![j] = Job[j].outcome]
        /\ stage # "schedule" /\ UNCHANGED <<startedAt, starting, stage, todo>>
    BY <1>1, <1>4 DEF Finish, Due, passVars, IndInv, RunningIffAllocated, Running
  <2>2. Job[j].outcome # "NEW" /\ Job[j].outcome # "PENDING"
    BY JobAssumption DEF SlurmJobSpec, Outcomes
  <2> QED  BY <1>1, <2>1, <2>2, LeaveGroups
<1>5. ASSUME NEW j \in Jobs, NEW victim \in Jobs, Preempt(j, victim)
      PROVE  GroupsInv'
  <2> DEFINE s == IF Job[j].preemptMode = "requeue" \/ Job[victim].requeue
                  THEN "PENDING" ELSE "PREEMPTED"
  <2>1. /\ state[victim] = "RUNNING" /\ state' = [state EXCEPT ![victim] = s]
        /\ stage = "preempt" /\ UNCHANGED <<startedAt, starting, stage>>
        /\ todo' \in SUBSET todo /\ todo # {} /\ Job[victim].preemptible
    BY <1>1, <1>5 DEF Preempt, NextToPreemptFor, Victims, IndInv, RunningIffAllocated,
                      Running
  <2>2. Job[victim].group = 0
    BY <2>1 DEF GroupsInv, GroupsWhole, Mates
  <2>3. s # "NEW"
    OBVIOUS
  <2> HIDE DEF s
  <2> QED  BY <1>1, <2>1, <2>2, <2>3, LeaveGroups
<1>6. ASSUME NEW j, NEW now,
             \/ Advance(now) \/ FinishDone \/ PreemptSkip(j) \/ PreemptDone
             \/ PassOver(j) \/ ScheduleDone \/ UNCHANGED vars
      PROVE  GroupsInv'
  BY <1>1, <1>6, ControlGroups
<1>7. ASSUME NEW j \in Jobs, Choose(j) \/ Start(j) PROVE GroupsInv'
  BY <1>1, <1>7, ChooseGroups, StartGroups
<1> QED  BY <1>2, <1>3, <1>4, <1>5, <1>6, <1>7 DEF Next, Continue

\* A heterogeneous job that is submitted whole, and of which no component is
\* cancelled or preempted, starts whole, at one instant.
THEOREM GroupsStartTogether ==
  ASSUME GroupsWhole PROVE Spec => []HeterogeneousTogether
<1>1. Init => GroupsInv
  BY InitInv DEF Init, GroupsInv, Known, InStep
<1>2. GroupsInv /\ [Next]_vars => GroupsInv'
  BY GroupsStep
<1>3. GroupsInv => HeterogeneousTogether
  <2>1. SUFFICES ASSUME GroupsInv, stage = "idle", NEW j \in Known, NEW k \in Known,
                        Job[j].group # 0, Job[j].group = Job[k].group
                 PROVE  startedAt[j] = startedAt[k]
    BY DEF HeterogeneousTogether
  <2>2. DOMAIN starting = {}
    BY <2>1 DEF GroupsInv, IndInv, LoopsVisitPending
  <2>3. InStep(j, k)
    BY <2>1 DEF GroupsInv, Mates, Known
  <2> QED  BY <2>2, <2>3 DEF InStep
<1> QED  BY <1>1, <1>2, <1>3, PTL DEF Spec

\* What one pass starts stays within every array and every limit, and heterogeneous
\* jobs start whole.
THEOREM PolicyAlwaysKept ==
  ASSUME GroupsWhole, ArraysUniform, ComponentsCountOnce
  PROVE  Spec => []PolicyKept
<1>1. Init => CountsInv
  <2>1. SUFFICES ASSUME Init PROVE CountsInv
    OBVIOUS
  <2>2. Running = {} /\ DOMAIN starting = {}
    BY <2>1, InitPools DEF Init, Empty
  <2>3. \A l \in Limits : Total(Tres, Running \cap l.members) = 0 /\ l.maxTres \in Nat
    BY <2>2, TotalEmpty, LimitsAssumption
  <2>4. TresWithinLimit
    BY <2>3 DEF TresWithinLimit
  <2> QED  BY <2>1, <2>2, <2>4, InitInv DEF CountsInv, ArrayConcurrency, StartingAllowed
<1>2. CountsInv /\ [Next]_vars => CountsInv'
  BY CountsStep
<1>3. CountsInv /\ HeterogeneousTogether => PolicyKept
  BY DEF CountsInv, PolicyKept
<1> QED  BY <1>1, <1>2, <1>3, GroupsStartTogether, PTL DEF Spec

-----------------------------------------------------------------------------
(* Strict order.  Without backfill and preemption, a job that waits for       *)
(* nothing but nodes or a pool is still in the queue of the pass, or about to *)
(* start, as long as the pass has anything left to visit.                     *)

\* What NoOvertaking says of the job that goes first.
Unheld(j) ==
    /\ Job[j].dependencies = {} /\ Job[j].array = 0
    /\ \A l \in Limits : j \notin l.members

Waits(j) == state[j] \notin {"NEW", "CANCELLED"} /\ startedAt[j] = -1

OrderInv ==
    /\ IndInv
    /\ stage = "preempt" => todo = {}
    /\ \A j \in Jobs :
          /\ startedAt[j] <= time
          /\ state[j] \in {"NEW", "PENDING"} => startedAt[j] = -1
          /\ state[j] \notin {"NEW", "PENDING", "CANCELLED"} => startedAt[j] >= 0
          /\ state[j] # "NEW" => submitted[j] < sequence
    /\ (stage = "schedule" /\ todo # {}) =>
          \A j \in Jobs : (Unheld(j) /\ Waits(j)) => j \in todo \cup DOMAIN starting
    /\ \A j, k \in Known :
          (/\ Urgency(j) > Urgency(k) /\ submitted[j] < submitted[k]
           /\ state[j] # "CANCELLED" /\ Unheld(j))
          => /\ startedAt[k] >= 0 => startedAt[j] >= 0 /\ startedAt[j] <= startedAt[k]
             /\ k \in DOMAIN starting => startedAt[j] >= 0

LEMMA UrgencyType == \A j \in Jobs : Urgency(j) \in Nat
<1>1. \A j \in Jobs : Job[j].priority \in Nat /\ Job[j].qosFactor \in Nat
  BY JobAssumption DEF SlurmJobSpec
<1>2. \A a, b \in Nat : a * b \in Nat
  OBVIOUS
<1> QED  BY <1>1, <1>2 DEF Urgency

\* The numbers a submission gives are the next ones.
LEMMA SubmitNumbers ==
  ASSUME TypeOK, NEW batch \in SUBSET Jobs, NEW when, Submit(batch, when)
  PROVE  /\ sequence' >= sequence
         /\ \A j \in Accepted(batch) :
               submitted'[j] >= sequence /\ submitted'[j] < sequence'
         /\ \A j \in Jobs \ Accepted(batch) : submitted'[j] = submitted[j]
<1> DEFINE accepted == Accepted(batch)
<1>1. accepted \in SUBSET Jobs
  BY AcceptedNew
<1>2. accepted \in SUBSET Int /\ IsFiniteSet(accepted)
  <2> HIDE DEF accepted
  <2>1. accepted \in SUBSET Int
    BY <1>1, JobsAssumption
  <2>2. IsFiniteSet(accepted)
    BY <1>1, JobsAssumption, FS_Subset
  <2> QED  BY <2>1, <2>2
<1>3. /\ submitted' = [j \in Jobs |-> IF j \in accepted
                THEN sequence + Cardinality({i \in accepted : i < j})
                ELSE submitted[j]]
      /\ sequence' = sequence + Cardinality(accepted)
  BY DEF Submit
<1> HIDE DEF accepted
<1>4. /\ Cardinality(accepted) \in Nat
      /\ \A j \in accepted :
            Cardinality({i \in accepted : i < j}) \in 0 .. (Cardinality(accepted) - 1)
  BY <1>2, Ranks DEF Below
<1>5. sequence \in Nat
  BY DEF TypeOK
<1>6. ASSUME NEW j \in accepted
      PROVE  submitted'[j] >= sequence /\ submitted'[j] < sequence'
  <2> DEFINE r == Cardinality({i \in accepted : i < j})
  <2>1. submitted'[j] = sequence + r /\ r \in 0 .. (Cardinality(accepted) - 1)
    BY <1>1, <1>3, <1>4
  <2> HIDE DEF r
  <2> QED  BY <1>3, <1>4, <1>5, <2>1
<1>7. sequence' >= sequence
  BY <1>3, <1>4, <1>5
<1>8. \A j \in Jobs \ accepted : submitted'[j] = submitted[j]
  BY <1>3
<1> QED  BY <1>6, <1>7, <1>8 DEF accepted

LEMMA SubmitOrder ==
  ASSUME OrderInv, IndInv', NEW batch \in SUBSET Jobs, NEW when \in Nat,
         when >= time, Submit(batch, when)
  PROVE  OrderInv'
<1> DEFINE accepted == Accepted(batch)
<1>1. /\ state' = [j \in Jobs |-> IF j \in accepted THEN "PENDING" ELSE state[j]]
      /\ UNCHANGED <<startedAt, starting, stage, todo>> /\ stage = "idle"
      /\ time' = when
  BY DEF Submit, passVars
<1>2. accepted \in SUBSET Jobs /\ \A j \in accepted : state[j] = "NEW"
  BY AcceptedNew
<1>3. /\ sequence' >= sequence
      /\ \A j \in accepted : submitted'[j] >= sequence /\ submitted'[j] < sequence'
      /\ \A j \in Jobs \ accepted : submitted'[j] = submitted[j]
  BY SubmitNumbers DEF OrderInv, IndInv
<1>4. /\ time \in Nat /\ startedAt \in [Jobs -> Nat \cup {-1}] /\ sequence \in Nat
      /\ submitted \in [Jobs -> Nat] /\ state \in [Jobs -> States]
      /\ sequence' \in Nat /\ submitted' \in [Jobs -> Nat]
      /\ DOMAIN starting = {}
  BY <1>1 DEF OrderInv, IndInv, TypeOK, LoopsVisitPending
<1> HIDE DEF accepted
<1>5. ASSUME NEW j \in Jobs
      PROVE  /\ startedAt'[j] <= time'
             /\ state'[j] \in {"NEW", "PENDING"} => startedAt'[j] = -1
             /\ state'[j] \notin {"NEW", "PENDING", "CANCELLED"} => startedAt'[j] >= 0
             /\ state'[j] # "NEW" => submitted'[j] < sequence'
  <2>1. /\ startedAt[j] <= time
        /\ state[j] \in {"NEW", "PENDING"} => startedAt[j] = -1
        /\ state[j] \notin {"NEW", "PENDING", "CANCELLED"} => startedAt[j] >= 0
        /\ state[j] # "NEW" => submitted[j] < sequence
    BY DEF OrderInv
  <2>2. startedAt'[j] <= time'
    BY <1>1, <1>4, <2>1
  <2>3. CASE j \in accepted
    BY <1>1, <1>2, <1>3, <2>1, <2>2, <2>3
  <2>4. CASE j \notin accepted
    BY <1>1, <1>3, <1>4, <2>1, <2>2, <2>4
  <2> QED  BY <2>3, <2>4
<1>6. ASSUME NEW j \in Known', NEW k \in Known',
             Urgency(j) > Urgency(k), submitted'[j] < submitted'[k],
             state'[j] # "CANCELLED", Unheld(j), startedAt[k] >= 0
      PROVE  startedAt[j] >= 0 /\ startedAt[j] <= startedAt[k]
  <2>1. j \in Jobs /\ k \in Jobs
    BY DEF Known
  <2>2. k \notin accepted
    BY <1>2, <1>6, <2>1 DEF OrderInv
  <2>3. k \in Known /\ submitted'[k] = submitted[k] /\ submitted[k] < sequence
    BY <1>1, <1>3, <2>1, <2>2 DEF OrderInv, Known
  <2>4. j \notin accepted
    BY <1>3, <1>4, <1>6, <2>1, <2>3
  <2>5. j \in Known /\ submitted'[j] = submitted[j] /\ state'[j] = state[j]
    BY <1>1, <1>3, <2>1, <2>4 DEF Known
  <2> QED  BY <1>6, <2>3, <2>5 DEF OrderInv
<1> QED  BY <1>1, <1>4, <1>5, <1>6 DEF OrderInv

\* A job that leaves the running or the pending ones keeps its start, its number
\* and its place behind those that started before it.
LEMMA LeaveOrder ==
  ASSUME OrderInv, IndInv', NEW x \in Jobs, NEW s,
         state' = [state EXCEPT ![x] = s],
         \/ s = "CANCELLED" /\ state[x] \in {"PENDING", "RUNNING"}
         \/ s \in Outcomes /\ state[x] = "RUNNING",
         stage \in {"idle", "finish"},
         UNCHANGED <<time, startedAt, starting, stage, todo, submitted, sequence>>
  PROVE  OrderInv'
<1>1. state \in [Jobs -> States]
  BY DEF OrderInv, IndInv, TypeOK
<1>2. \A j \in Jobs : state'[j] = IF j = x THEN s ELSE state[j]
  BY <1>1
<1>3. Known' = Known
  BY <1>1, <1>2 DEF Known, Outcomes
<1>4. ASSUME NEW j \in Jobs
      PROVE  /\ startedAt'[j] <= time'
             /\ state'[j] \in {"NEW", "PENDING"} => startedAt'[j] = -1
             /\ state'[j] \notin {"NEW", "PENDING", "CANCELLED"} => startedAt'[j] >= 0
             /\ state'[j] # "NEW" => submitted'[j] < sequence'
  BY <1>2 DEF OrderInv, Outcomes
<1>5. \A j \in Jobs : state'[j] # "CANCELLED" => state[j] # "CANCELLED"
  BY <1>2
<1>6. \A j, k \in Known :
          (/\ Urgency(j) > Urgency(k) /\ submitted'[j] < submitted'[k]
           /\ state'[j] # "CANCELLED" /\ Unheld(j))
          => /\ startedAt'[k] >= 0 => startedAt'[j] >= 0 /\ startedAt'[j] <= startedAt'[k]
             /\ k \in DOMAIN starting' => startedAt'[j] >= 0
  BY <1>5 DEF OrderInv, Known
<1> QED  BY <1>3, <1>4, <1>6 DEF OrderInv

\* The pass goes on past a job only if that job is held by more than its place.
LEMMA PassOrder ==
  ASSUME ~Backfill, GroupsAlike, OrderInv, NEW m, PassOver(m),
         NEW j \in Jobs, Unheld(j), Waits(j), todo' # {}
  PROVE  j \in todo'
<1> DEFINE C == Components(m)
<1>1. /\ stage = "schedule" /\ starting = Empty /\ m \in todo
      /\ todo' = IF /\ Eligible(C)
                    /\ Job[m].group = 0 => ~Held(m)
                 THEN {} ELSE todo \ C
  BY DEF PassOver, NextToSchedule
<1>2. j \in todo
  BY <1>1 DEF OrderInv, Empty
<1>3. ASSUME j \in C
      PROVE  Eligible(C) /\ (Job[m].group = 0 => ~Held(m))
  <2>1. \A c \in C : Job[c].dependencies = {}
    BY <1>1, <1>3 DEF OrderInv, IndInv, LoopsVisitPending, Components, Unheld,
                      GroupsAlike, Mates, Pending
  <2>2. Job[m].group = 0 => m = j
    BY <1>3 DEF Components
  <2>3. ~Held(j)
    BY DEF Held, ArrayAtCapacity, PolicyCapacityAvailable, Unheld
  <2> QED  BY <2>1, <2>2, <2>3 DEF Eligible, DependencyReady
<1> HIDE DEF C
<1> QED  BY <1>1, <1>2, <1>3

\* What is chosen ranks with the first of the queue.
LEMMA ChooseOrder ==
  ASSUME GroupsAlike, OrderInv, NEW m, Choose(m),
         NEW j \in Jobs, Unheld(j), Waits(j), NEW k \in Components(m)
  PROVE  ~(Urgency(j) > Urgency(k))
<1>1. stage = "schedule" /\ starting = Empty /\ m \in todo
      /\ \A i \in todo \ {m} : Precedes(m, i)
  BY DEF Choose, NextToSchedule
<1>2. j \in todo
  BY <1>1 DEF OrderInv, Empty
<1>3. k \in Jobs /\ Urgency(k) = Urgency(m)
  BY <1>1 DEF OrderInv, IndInv, LoopsVisitPending, Components, GroupsAlike, Mates, Pending
<1>4. j = m \/ Urgency(m) > Urgency(j) \/ Urgency(m) = Urgency(j)
  BY <1>1, <1>2 DEF Precedes
<1> QED  BY <1>3, <1>4, UrgencyType

\* The steps of a pass that start nothing.
LEMMA ControlOrder ==
  ASSUME ~Backfill, PreemptMode = "off", GroupsAlike, OrderInv, IndInv',
         NEW m, NEW now \in Nat,
         \/ Advance(now) /\ now >= time
         \/ FinishDone \/ PreemptSkip(m) \/ PreemptDone
         \/ Choose(m) \/ PassOver(m) \/ ScheduleDone \/ UNCHANGED vars
  PROVE  OrderInv'
<1>1. UNCHANGED <<state, startedAt, submitted, sequence>>
  BY DEF Advance, FinishDone, PreemptSkip, PreemptDone, Choose, PassOver,
         ScheduleDone, vars, jobVars
<1>2. Known' = Known /\ Pending' = Pending
  BY <1>1 DEF Known, Pending
<1>3. /\ time \in Nat /\ startedAt \in [Jobs -> Nat \cup {-1}] /\ time' \in Nat
      /\ state \in [Jobs -> States]
  BY DEF OrderInv, IndInv, TypeOK
<1>4. time' = time \/ (time' = now /\ now >= time)
  BY DEF Advance, FinishDone, PreemptSkip, PreemptDone, Choose, PassOver,
         ScheduleDone, vars
<1>5. stage' = "preempt" => todo' = {}
  BY DEF OrderInv, Advance, FinishDone, PreemptSkip, PreemptDone, Choose, PassOver,
         ScheduleDone, NextToPreemptFor, NextToSchedule, passVars, vars
<1>6. ASSUME NEW j \in Jobs
      PROVE  /\ startedAt'[j] <= time'
             /\ state'[j] \in {"NEW", "PENDING"} => startedAt'[j] = -1
             /\ state'[j] \notin {"NEW", "PENDING", "CANCELLED"} => startedAt'[j] >= 0
             /\ state'[j] # "NEW" => submitted'[j] < sequence'
  <2>1. startedAt[j] <= time
    BY DEF OrderInv
  <2> QED  BY <1>1, <1>3, <1>4, <2>1 DEF OrderInv
<1>7. ASSUME stage' = "schedule", todo' # {}, NEW j \in Jobs, Unheld(j), Waits(j)
      PROVE  j \in todo' \cup DOMAIN starting'
  <2>1. CASE PreemptDone
    <3>1. j \in Pending
      BY <1>3, <1>7 DEF OrderInv, Waits, Pending
    <3> QED  BY <2>1, <3>1 DEF PreemptDone
  <2>2. CASE PassOver(m)
    BY <1>7, <2>2, PassOrder
  <2>3. CASE Choose(m)
    <3>1. j \in todo /\ todo' = todo \ Components(m) /\ DOMAIN starting' = Components(m)
      BY <1>7, <2>3 DEF OrderInv, Choose, NextToSchedule, Empty
    <3> QED  BY <3>1
  <2>4. CASE UNCHANGED vars
    BY <1>7, <2>4 DEF OrderInv, vars
  <2>5. ~(Advance(now) \/ FinishDone \/ PreemptSkip(m) \/ ScheduleDone)
    BY <1>7 DEF Advance, FinishDone, PreemptSkip, NextToPreemptFor, ScheduleDone
  <2> QED  BY <2>1, <2>2, <2>3, <2>4, <2>5
<1>8. ASSUME NEW j \in Known, NEW k \in Known,
             Urgency(j) > Urgency(k), submitted[j] < submitted[k],
             state[j] # "CANCELLED", Unheld(j)
      PROVE  /\ startedAt[k] >= 0 => startedAt[j] >= 0 /\ startedAt[j] <= startedAt[k]
             /\ k \in DOMAIN starting' => startedAt[j] >= 0
  <2>1. /\ startedAt[k] >= 0 => startedAt[j] >= 0 /\ startedAt[j] <= startedAt[k]
        /\ k \in DOMAIN starting => startedAt[j] >= 0
    BY <1>8 DEF OrderInv
  <2>2. CASE Choose(m)
    <3>1. j \in Jobs /\ (Waits(j) \/ startedAt[j] >= 0)
      BY <1>3, <1>8 DEF Known, Waits
    <3>2. k \in DOMAIN starting' => k \in Components(m)
      BY <2>2 DEF Choose
    <3> QED  BY <1>8, <2>1, <2>2, <3>1, <3>2, ChooseOrder
  <2>3. CASE ~Choose(m)
    <3>1. starting' = starting
      BY <2>3 DEF Advance, FinishDone, PreemptSkip, PreemptDone, PassOver,
                  ScheduleDone, passVars, vars
    <3> QED  BY <2>1, <3>1
  <2> QED  BY <2>2, <2>3
<1> QED  BY <1>1, <1>2, <1>5, <1>6, <1>7, <1>8 DEF OrderInv, Waits

\* A job that starts is behind those that should have started before it.
LEMMA StartOrder ==
  ASSUME OrderInv, IndInv', NEW x \in Jobs, Start(x)
  PROVE  OrderInv'
<1>1. /\ x \in DOMAIN starting /\ stage = "schedule"
      /\ DOMAIN starting' = DOMAIN starting \ {x}
      /\ state' = [state EXCEPT ![x] = "RUNNING"]
      /\ startedAt' = [startedAt EXCEPT ![x] = time]
      /\ UNCHANGED <<time, stage, todo, submitted, sequence>>
  BY DEF Start, jobVars
<1>2. /\ time \in Nat /\ startedAt \in [Jobs -> Nat \cup {-1}]
      /\ state \in [Jobs -> States] /\ x \in Pending
  BY <1>1 DEF OrderInv, IndInv, TypeOK, LoopsVisitPending
<1>3. /\ state'[x] = "RUNNING" /\ startedAt'[x] = time /\ startedAt[x] = -1
      /\ \A k \in Jobs \ {x} : state'[k] = state[k] /\ startedAt'[k] = startedAt[k]
      /\ Known' = Known /\ state[x] = "PENDING"
  BY <1>1, <1>2 DEF OrderInv, Pending, Known
<1>4. ASSUME NEW j \in Jobs
      PROVE  /\ startedAt'[j] <= time'
             /\ state'[j] \in {"NEW", "PENDING"} => startedAt'[j] = -1
             /\ state'[j] \notin {"NEW", "PENDING", "CANCELLED"} => startedAt'[j] >= 0
             /\ state'[j] # "NEW" => submitted'[j] < sequence'
  BY <1>1, <1>2, <1>3 DEF OrderInv
<1>5. ASSUME todo' # {}, NEW j \in Jobs, Unheld(j), Waits(j)'
      PROVE  j \in todo' \cup DOMAIN starting'
  <2>1. j # x
    BY <1>2, <1>3, <1>5 DEF Waits
  <2>2. Waits(j)
    BY <1>3, <1>5, <2>1 DEF Waits
  <2> QED  BY <1>1, <1>5, <2>1, <2>2 DEF OrderInv
<1>6. ASSUME NEW j \in Known, NEW k \in Known,
             Urgency(j) > Urgency(k), submitted[j] < submitted[k],
             state'[j] # "CANCELLED", Unheld(j)
      PROVE  /\ startedAt'[k] >= 0 => startedAt'[j] >= 0 /\ startedAt'[j] <= startedAt'[k]
             /\ k \in DOMAIN starting' => startedAt'[j] >= 0
  <2>1. j \in Jobs /\ k \in Jobs /\ state[j] # "CANCELLED" /\ startedAt[j] <= time
    BY <1>3, <1>6 DEF Known, OrderInv
  <2>2. /\ startedAt[k] >= 0 => startedAt[j] >= 0 /\ startedAt[j] <= startedAt[k]
        /\ k \in DOMAIN starting => startedAt[j] >= 0
    BY <1>6, <2>1 DEF OrderInv
  <2>3. j # k
    BY <1>6, <2>1, UrgencyType
  <2>4. CASE k = x
    BY <1>1, <1>2, <1>3, <2>1, <2>2, <2>3, <2>4
  <2>5. CASE j = x
    BY <1>1, <1>2, <1>3, <2>1, <2>2, <2>3, <2>5
  <2>6. CASE j # x /\ k # x
    BY <1>1, <1>3, <2>1, <2>2, <2>6
  <2> QED  BY <2>4, <2>5, <2>6
<1> QED  BY <1>1, <1>3, <1>4, <1>5, <1>6 DEF OrderInv

LEMMA OrderStep ==
  ASSUME ~Backfill, PreemptMode = "off", GroupsAlike, OrderInv, [Next]_vars
  PROVE  OrderInv'
<1>1. IndInv /\ IndInv' /\ time \in Nat
  BY NextInv DEF OrderInv, IndInv, TypeOK
<1>2. \A d \in Steps : time + d \in Nat /\ time + d >= time
  BY <1>1, CallersAssumption
<1>3. ASSUME NEW batch \in Batches, NEW d \in Steps, Submit(batch, time + d)
      PROVE  OrderInv'
  BY <1>1, <1>2, <1>3, SubmitOrder, CallersAssumption
<1>4. ASSUME NEW j \in Cancellable, Cancel(j) PROVE OrderInv'
  <2>1. /\ j \in Jobs /\ state[j] \in {"PENDING", "RUNNING"} /\ stage = "idle"
        /\ state' = [state EXCEPT ![j] = "CANCELLED"]
        /\ UNCHANGED <<time, startedAt, starting, stage, todo, submitted, sequence>>
    BY <1>4, CallersAssumption DEF Cancel, passVars, jobVars
  <2> QED  BY <1>1, <2>1, LeaveOrder
<1>5. ASSUME NEW j \in Jobs, Finish(j) PROVE OrderInv'
  <2>1. /\ state[j] = "RUNNING" /\ stage = "finish"
        /\ state' = [state EXCEPT ![j] = Job[j].outcome]
        /\ UNCHANGED <<time, startedAt, starting, stage, todo, submitted, sequence>>
    BY <1>1, <1>5 DEF Finish, Due, passVars, jobVars, IndInv, RunningIffAllocated,
                      Running
  <2>2. Job[j].outcome \in Outcomes
    BY JobAssumption DEF SlurmJobSpec
  <2> QED  BY <1>1, <2>1, <2>2, LeaveOrder
<1>6. ASSUME NEW j \in Jobs, NEW victim \in Jobs, Preempt(j, victim) PROVE FALSE
  BY <1>6 DEF Preempt, NextToPreemptFor, OrderInv
<1>7. ASSUME NEW d \in Steps, Advance(time + d) PROVE OrderInv'
  BY <1>1, <1>2, <1>7, ControlOrder
<1>8. ASSUME NEW j, 
             \/ FinishDone \/ PreemptSkip(j) \/ PreemptDone
             \/ Choose(j) \/ PassOver(j) \/ ScheduleDone \/ UNCHANGED vars
      PROVE  OrderInv'
  BY <1>1, <1>8, ControlOrder
<1>9. ASSUME NEW j \in Jobs, Start(j) PROVE OrderInv'
  BY <1>1, <1>9, StartOrder
<1> QED  BY <1>3, <1>4, <1>5, <1>6, <1>7, <1>8, <1>9 DEF Next, Continue

\* "later jobs wait rather than using its resources": without backfill, nothing that
\* was submitted later starts before a more urgent job that waits only for its place.
THEOREM NothingOvertakes ==
  ASSUME ~Backfill, PreemptMode = "off", GroupsAlike
  PROVE  Spec => []NoOvertaking
<1>1. Init => OrderInv
  BY InitInv DEF Init, OrderInv, Known, Waits
<1>2. OrderInv /\ [Next]_vars => OrderInv'
  BY OrderStep
<1>3. OrderInv => NoOvertaking
  BY DEF OrderInv, NoOvertaking, Unheld
<1> QED  BY <1>1, <1>2, <1>3, PTL DEF Spec
=============================================================================
