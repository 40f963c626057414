--------------------------- MODULE ClusterProofs ----------------------------
(***************************************************************************)
(* The proofs about the cluster managers beside Slurm.  The pod scheduler  *)
(* and the two that drive it, the replay of a trace (KubeReplay) and the   *)
(* admission agents (KubeDemand), for any pods, nodes, traces, agents and  *)
(* jobs; then the Ray clusters and what is placed on them (RayExecution),  *)
(* for any clusters, workloads, groups and delays.                         *)
(***************************************************************************)
EXTENDS KubeReplay, KubeDemand, RayExecution, SetLemmas

-----------------------------------------------------------------------------
(* Sets and totals.                                                          *)

LEMMA LeastNat ==
  ASSUME NEW S \in SUBSET Nat, S # {}
  PROVE  Min(S) \in S /\ \A s \in S : Min(S) <= s
  <1>1. PICK x \in S : TRUE
    OBVIOUS
  <1> DEFINE T == {s \in S : s <= x}
  <1>2. T \in SUBSET Nat /\ x \in T /\ \A s \in T : s <= x
    <2>1. x \in Nat /\ x <= x
      OBVIOUS
    <2>. QED  BY <2>1
  <1>3. IsFiniteSet(T)
    <2> HIDE DEF T
    <2>. QED  BY <1>1, <1>2, FS_BoundedSetOfNaturals
  <1>4. PICK m \in T : \A s \in T : m <= s
    <2>1. T \in SUBSET Int /\ T # {}
      BY <1>2
    <2> HIDE DEF T
    <2>. QED  BY <1>3, <2>1, LeastOf
  <1>5. m \in S /\ \A s \in S : m <= s
    BY <1>1, <1>2, <1>4
  <1>. QED  BY <1>5 DEF Min

\* In a finite set some member has the least value.
LEMMA ArgMin ==
  ASSUME NEW S, IsFiniteSet(S), S # {}, NEW f \in [S -> Int]
  PROVE  \E m \in S : \A s \in S : f[m] <= f[s]
  <1> DEFINE T == {f[s] : s \in S}
  <1>1. f \in Surjection(S, T)
    BY DEF Surjection
  <1>2. IsFiniteSet(T) /\ T \in SUBSET Int /\ T # {}
    <2>1. T \in SUBSET Int /\ T # {}
      OBVIOUS
    <2> HIDE DEF T
    <2>. QED  BY <1>1, <2>1, FS_Surjection
  <1>3. PICK t \in T : \A s \in T : t <= s
    <2> HIDE DEF T
    <2>. QED  BY <1>2, LeastOf
  <1>. QED  BY <1>3

LEMMA TotalUnion ==
  ASSUME NEW w, NEW S, Weighs(w, S), NEW T, Weighs(w, T), S \cap T = {}
  PROVE  Weighs(w, S \cup T) /\ Total(w, S \cup T) = Total(w, S) + Total(w, T)
  <1> DEFINE G == {U \in SUBSET T : /\ Weighs(w, S \cup U)
                                    /\ Total(w, S \cup U) = Total(w, S) + Total(w, U)}
  <1>1. \A U \in SUBSET T : Weighs(w, U) /\ Total(w, U) \in Nat
    <2>1. \A U \in SUBSET T : Weighs(w, U)
      BY FS_Subset DEF Weighs
    <2>. QED  BY <2>1, TotalNat
  <1>2. Total(w, S) \in Nat
    BY TotalNat
  <1>3. {} \in G
    <2>1. S \cup {} = S
      OBVIOUS
    <2>. QED  BY <1>2, <2>1, TotalEmpty
  <1>4. ASSUME NEW U \in SUBSET T, NEW x \in T \ U, U \in G
        PROVE  U \cup {x} \in G
    <2>1. /\ S \cup (U \cup {x}) = (S \cup U) \cup {x} /\ x \notin S \cup U
          /\ U \cup {x} \in SUBSET T /\ w[x] \in Nat
      BY <1>4 DEF Weighs
    <2>2. Weighs(w, S \cup U) /\ Total(w, S \cup U) = Total(w, S) + Total(w, U)
      BY <1>4
    <2>3. /\ Weighs(w, (S \cup U) \cup {x})
          /\ Total(w, (S \cup U) \cup {x}) = w[x] + Total(w, S \cup U)
      BY <2>1, <2>2, TotalAdd
    <2>4. Total(w, U \cup {x}) = w[x] + Total(w, U)
      BY <1>1, <1>4, <2>1, TotalAdd
    <2>5. Total(w, U) \in Nat
      BY <1>1
    <2>6. Total(w, (S \cup U) \cup {x}) = Total(w, S) + Total(w, U \cup {x})
      <3>1. w[x] \in Nat
        BY <2>1
      <3>. QED  BY <1>2, <2>2, <2>3, <2>4, <2>5, <3>1
    <2>. QED  BY <2>1, <2>3, <2>6
  <1>5. T \in G
    <2> HIDE DEF G
    <2>1. IsFiniteSet(T)
      BY DEF Weighs
    <2>. QED  BY <1>3, <1>4, <2>1, SetGrows
  <1>. QED  BY <1>5

-----------------------------------------------------------------------------
(* What pods need.                                                           *)

LEMMA PodFacts ==
  /\ IsFiniteSet(Pods) /\ IsFiniteSet(KubeNodes) /\ KubeNodes \in SUBSET Nat
  /\ \A p \in Pods : /\ Pod[p].priority \in Nat /\ Pod[p].duration \in Nat
                     /\ Pod[p].completion \in Nat \cup {NoTime}
                     /\ \A r \in Range(Resources) : Pod[p].needs[r] \in Nat
  /\ \A n \in KubeNodes : \A r \in Range(Resources) : NodeCapacity[n][r] \in Nat
  /\ MaxRetries \in Nat /\ StartDelay \in Nat /\ Backoffs \subseteq Nat /\ NoTime \notin Nat
  <1>1. KubeNodes \in SUBSET Nat
    BY NodesAssumption, FS_CardinalityType
  <1>2. \A p \in Pods : Pod[p].needs \in [Range(Resources) -> Nat]
    BY PodsAssumption
  <1>3. \A n \in KubeNodes : NodeCapacity[n] \in [Range(Resources) -> Nat]
    BY NodesAssumption
  <1>. QED  BY <1>1, <1>2, <1>3, PodsAssumption, NodesAssumption, DelaysAssumption

LEMMA Needs ==
  ASSUME NEW r \in Range(Resources), NEW S \in SUBSET Pods
  PROVE  /\ Weighs([p \in Pods |-> Pod[p].needs[r]], S)
         /\ NeedsOf(S, r) \in Nat /\ NeedsOf({}, r) = 0
  <1> DEFINE w == [p \in Pods |-> Pod[p].needs[r]]
  <1>1. IsFiniteSet(S)
    BY PodFacts, FS_Subset
  <1>2. \A p \in S : w[p] \in Nat
    BY PodFacts
  <1>3. Weighs(w, S)
    BY <1>1, <1>2 DEF Weighs
  <1> HIDE DEF w
  <1>4. Total(w, S) \in Nat /\ Total(w, {}) = 0
    BY <1>3, TotalNat, TotalEmpty
  <1>. QED  BY <1>3, <1>4 DEF NeedsOf, w

LEMMA NeedsAdd ==
  ASSUME NEW r \in Range(Resources), NEW S \in SUBSET Pods, NEW p \in Pods \ S
  PROVE  NeedsOf(S \cup {p}, r) = NeedsOf(S, r) + Pod[p].needs[r]
  <1> DEFINE w == [q \in Pods |-> Pod[q].needs[r]]
  <1>1. w[p] = Pod[p].needs[r] /\ Pod[p].needs[r] \in Nat
    BY PodFacts
  <1>2. Weighs(w, S) /\ Total(w, S) \in Nat
    BY Needs DEF NeedsOf
  <1> HIDE DEF w
  <1>3. Total(w, S \cup {p}) = w[p] + Total(w, S)
    BY <1>1, <1>2, TotalAdd
  <1>4. Total(w, S \cup {p}) = Total(w, S) + Pod[p].needs[r]
    BY <1>1, <1>2, <1>3
  <1>. QED  BY <1>4 DEF NeedsOf, w

LEMMA NeedsSplit ==
  ASSUME NEW r \in Range(Resources), NEW S \in SUBSET Pods, NEW T \in SUBSET Pods, S \cap T = {}
  PROVE  NeedsOf(S \cup T, r) = NeedsOf(S, r) + NeedsOf(T, r)
  <1> DEFINE w == [q \in Pods |-> Pod[q].needs[r]]
  <1>1. Weighs(w, S) /\ Weighs(w, T)
    BY Needs
  <1> HIDE DEF w
  <1>2. Total(w, S \cup T) = Total(w, S) + Total(w, T)
    BY <1>1, TotalUnion
  <1>. QED  BY <1>2 DEF NeedsOf, w

\* Among the nodes a pod fits on there is a tightest one (_best_fit_node).
LEMMA BestFits ==
  ASSUME NEW p \in Pods, Candidates(p) # {},
         allocated \in [KubeNodes -> [Range(Resources) -> Nat]]
  PROVE  BestFit(p) \in Candidates(p)
  <1> DEFINE C == Candidates(p)
             L(i) == [n \in C |-> Leftover(p, n, i)]
             Least(S, i) == {m \in S : \A n \in S : Leftover(p, m, i) <= Leftover(p, n, i)}
  <1>1. IsFiniteSet(C) /\ C \in SUBSET KubeNodes
    <2>1. C \in SUBSET KubeNodes
      BY DEF Candidates
    <2>. QED  BY <2>1, PodFacts, FS_Subset
  <1>2. \A n \in C, i \in 1 .. 4 : Leftover(p, n, i) \in Int
    <2>1. SUFFICES ASSUME NEW n \in C, NEW i \in 1 .. 4 PROVE Leftover(p, n, i) \in Int
      OBVIOUS
    <2>2. n \in KubeNodes /\ n \in Int
      <3>1. n \in KubeNodes
        BY <1>1
      <3>. QED  BY <3>1, PodFacts
    <2>3. CASE i \in DOMAIN Resources
      <3>1. Resources[i] \in Range(Resources)
        BY <2>3 DEF Range
      <3>2. /\ NodeCapacity[n][Resources[i]] \in Nat /\ Pod[p].needs[Resources[i]] \in Nat
            /\ allocated[n][Resources[i]] \in Nat
        BY <2>2, <3>1, PodFacts
      <3>. QED  BY <2>3, <3>2 DEF Leftover
    <2>4. CASE i \notin DOMAIN Resources
      BY <2>2, <2>4 DEF Leftover
    <2>. QED  BY <2>3, <2>4
  <1>3. ASSUME NEW S \in SUBSET C, S # {}, NEW i \in 1 .. 4
        PROVE  Least(S, i) # {} /\ Least(S, i) \in SUBSET S
    <2> DEFINE f == [n \in S |-> Leftover(p, n, i)]
    <2>1. f \in [S -> Int] /\ IsFiniteSet(S)
      BY <1>1, <1>2, <1>3, FS_Subset
    <2>2. \E m \in S : \A s \in S : f[m] <= f[s]
      <3> HIDE DEF f
      <3>. QED  BY <1>3, <2>1, ArgMin
    <2>. QED  BY <2>2
  <1> DEFINE S1 == Least(C, 1)
             S2 == Least(S1, 2)
             S3 == Least(S2, 3)
             S4 == Least(S3, 4)
  <1>4. /\ S4 # {} /\ S4 \in SUBSET S3 /\ S3 \in SUBSET S2 /\ S2 \in SUBSET S1 /\ S1 \in SUBSET C
    <2> HIDE DEF Least, C
    <2>1. S1 # {} /\ S1 \in SUBSET C
      BY <1>3 DEF C
    <2>2. S2 # {} /\ S2 \in SUBSET S1
      <3> HIDE DEF S1
      <3>. QED BY <1>3, <2>1
    <2>3. S3 # {} /\ S3 \in SUBSET S2
      <3> HIDE DEF S1, S2
      <3>. QED BY <1>3, <2>1, <2>2
    <2>4. S4 # {} /\ S4 \in SUBSET S3
      <3> HIDE DEF S1, S2, S3
      <3>. QED BY <1>3, <2>1, <2>2, <2>3
    <2>. QED  BY <2>1, <2>2, <2>3, <2>4
  <1>5. PICK m \in S4 : TRUE
    BY <1>4
  <1>6. ASSUME NEW n \in C, n # m PROVE Tighter(p, m, n)
    <2> DEFINE A(i) == Leftover(p, m, i)
               B(i) == Leftover(p, n, i)
    <2>1. m \in C /\ \A i \in 1 .. 4 : A(i) \in Int /\ B(i) \in Int
      BY <1>2, <1>4, <1>5
    <2>2. A(1) <= B(1)
      BY <1>4, <1>5
    <2>3. A(1) = B(1) => n \in S1 /\ A(2) <= B(2)
      BY <1>2, <1>4, <1>5, <2>1
    <2>4. A(1) = B(1) /\ A(2) = B(2) => n \in S2 /\ A(3) <= B(3)
      BY <1>2, <1>4, <1>5, <2>1, <2>3
    <2>5. A(1) = B(1) /\ A(2) = B(2) /\ A(3) = B(3) => n \in S3 /\ A(4) <= B(4)
      BY <1>2, <1>4, <1>5, <2>1, <2>4
    <2>6. A(4) # B(4)
      <3>1. 4 \notin DOMAIN Resources
        BY DEF Resources
      <3>. QED  BY <1>6, <3>1 DEF Leftover
    <2> HIDE DEF A, B, S1, S2, S3
    <2>7. \E i \in 1 .. 4 : A(i) < B(i) /\ \A k \in 1 .. i - 1 : A(k) = B(k)
      <3>1. CASE A(1) < B(1)
        BY <3>1
      <3>2. CASE A(1) = B(1) /\ A(2) < B(2)
        BY <3>2
      <3>3. CASE A(1) = B(1) /\ A(2) = B(2) /\ A(3) < B(3)
        <4>1. \A k \in 1 .. 3 - 1 : k = 1 \/ k = 2
          OBVIOUS
        <4>. QED  BY <3>3, <4>1
      <3>4. CASE A(1) = B(1) /\ A(2) = B(2) /\ A(3) = B(3)
        <4>1. A(4) < B(4)
          BY <2>1, <2>5, <2>6, <3>4
        <4>2. \A k \in 1 .. 4 - 1 : k = 1 \/ k = 2 \/ k = 3
          OBVIOUS
        <4>. QED  BY <3>4, <4>1, <4>2
      <3>. QED  BY <2>1, <2>2, <2>3, <2>4, <3>1, <3>2, <3>3, <3>4
    <2>. QED  BY <2>7 DEF Tighter, A, B
  <1>7. m \in C
    BY <1>4, <1>5
  <1>. QED  BY <1>6, <1>7 DEF BestFit

-----------------------------------------------------------------------------
(* The pod scheduler.                                                        *)

Running(n) == {p \in In("running") : onNode[p] = n}

NoneFits == \A p \in In("unschedulable") : Candidates(p) = {}

\* A tick leaves nothing behind that is due, and looks at the pods in turn.
Timely ==
  phase \in {"try", "done"} =>
     /\ \A p \in In("running") : endsAt[p] >= now
     /\ \A p \in In("backoff") : readyAt[p] >= now

InTurn ==
  /\ phase = "try" => \A q \in passed \cup placed, p \in In("active") : Ahead(q, p)
  /\ phase = "done" => In("active") = {}

PodsInv == PodsTypeOK /\ NodesAccounted /\ NoneFits /\ Timely /\ InTurn

LEMMA PodTypes ==
  ASSUME PodsTypeOK
  PROVE  /\ order \in [Pods -> Nat] /\ attempts \in [Pods -> Nat] /\ readyAt \in [Pods -> Nat]
         /\ endsAt \in [Pods -> Nat] /\ backoff \in Nat /\ now \in Nat /\ submitted \in Nat
         /\ onNode \in [Pods -> KubeNodes \cup {0}]
         /\ allocated \in [KubeNodes -> [Range(Resources) -> Nat]]
  BY PodFacts DEF PodsTypeOK

\* Only one pod can be the next one.
LEMMA AheadOneWay ==
  ASSUME PodsTypeOK, NEW p \in Pods, NEW q \in Pods, Ahead(p, q)
  PROVE  ~Ahead(q, p)
  <1>1. order[p] \in Nat /\ order[q] \in Nat /\ Pod[p].priority \in Nat /\ Pod[q].priority \in Nat
    BY PodTypes, PodFacts
  <1>. QED  BY <1>1 DEF Ahead

\* What is taken away from a node where nothing ends is nothing.
LEMMA BeginTickKeeps ==
  ASSUME PodsInv, BeginTick
  PROVE  PodsInv'
  <1> DEFINE due(n) == {p \in DueToEnd : onNode[p] = n}
  <1>1. /\ phase' = "try" /\ now' = now /\ onNode' = onNode /\ endsAt' = endsAt /\ readyAt' = readyAt
        /\ passed' = {} /\ placed' = {}
        /\ UNCHANGED <<now, order, attempts, readyAt, backoff, onNode, endsAt, submitted>>
    BY DEF BeginTick
  <1>2. ASSUME NEW p \in Pods
        PROVE  where'[p] = IF p \in DueToEnd THEN "completed"
                           ELSE IF p \in BackoffOver \cup Woken
                                THEN (IF Expired(p) THEN "expired" ELSE "active") ELSE where[p]
    <2>1. where'[p] = CASE p \in DueToEnd -> "completed"
                        [] p \in BackoffOver \cup Woken -> IF Expired(p) THEN "expired" ELSE "active"
                        [] OTHER -> where[p]
      BY DEF BeginTick
    <2>2. p \in DueToEnd => p \notin BackoffOver \cup Woken
      BY DEF DueToEnd, BackoffOver, Woken, In
    <2>3. CASE p \in DueToEnd
      BY <2>1, <2>2, <2>3
    <2>4. CASE p \in BackoffOver \cup Woken
      BY <2>1, <2>2, <2>4
    <2>5. CASE p \notin DueToEnd /\ p \notin BackoffOver \cup Woken
      BY <2>1, <2>5
    <2>. QED  BY <2>3, <2>4, <2>5
  <1>3. where' \in [Pods -> {"new", "active", "backoff", "unschedulable", "running", "completed", "expired"}]
    <2>1. where' = [p \in Pods |-> where'[p]]
      BY DEF BeginTick
    <2>2. ASSUME NEW p \in Pods
          PROVE  where'[p] \in {"new", "active", "backoff", "unschedulable", "running", "completed", "expired"}
      BY <1>2 DEF PodsInv, PodsTypeOK
    <2>. QED  BY <2>1, <2>2
  <1>4. In("running")' = In("running") \ DueToEnd
    <2>1. \A p \in Pods : p \in BackoffOver \cup Woken => where[p] # "running"
      BY DEF BackoffOver, Woken, In
    <2>. QED  BY <1>2, <2>1 DEF In, DueToEnd
  <1>5. ASSUME NEW n \in KubeNodes, NEW r \in Range(Resources)
        PROVE  /\ allocated'[n][r] = NeedsOf(Running(n)', r)
               /\ allocated'[n][r] \in Nat /\ allocated'[n][r] <= allocated[n][r]
               /\ DueToEnd = {} => allocated'[n][r] = allocated[n][r]
    <2>1. allocated'[n][r] = Floor(allocated[n][r] - NeedsOf(due(n), r))
      BY DEF BeginTick
    <2>2. /\ due(n) \in SUBSET Pods /\ Running(n)' \in SUBSET Pods /\ due(n) \cap Running(n)' = {}
          /\ Running(n) = due(n) \cup Running(n)'
      BY <1>1, <1>4 DEF Running, DueToEnd, In
    <2>3. NeedsOf(Running(n), r) = NeedsOf(due(n), r) + NeedsOf(Running(n)', r)
      <3> HIDE DEF due
      <3>. QED  BY <2>2, NeedsSplit
    <2>4. NeedsOf(due(n), r) \in Nat /\ NeedsOf(Running(n)', r) \in Nat
      <3> HIDE DEF due
      <3>. QED  BY <2>2, Needs
    <2>5. allocated[n][r] = NeedsOf(Running(n), r)
      BY DEF PodsInv, NodesAccounted, Running
    <2>6. allocated'[n][r] = NeedsOf(Running(n)', r) /\ allocated'[n][r] <= allocated[n][r]
      BY <2>1, <2>3, <2>4, <2>5 DEF Floor
    <2>7. ASSUME DueToEnd = {} PROVE allocated'[n][r] = allocated[n][r]
      <3>1. due(n) = {}
        BY <2>7
      <3>2. NeedsOf(due(n), r) = 0
        BY <2>2, <3>1, Needs
      <3>. QED  BY <2>3, <2>4, <2>5, <2>6, <3>2
    <2>. QED  BY <2>4, <2>6, <2>7
  <1>6. allocated' \in [KubeNodes -> [Range(Resources) -> Nat]]
    <2>1. allocated' = [n \in KubeNodes |-> [r \in Range(Resources) |-> allocated'[n][r]]]
      BY DEF BeginTick
    <2>. QED  BY <1>5, <2>1
  <1>7. PodsTypeOK'
    BY <1>1, <1>3, <1>6 DEF PodsInv, PodsTypeOK
  <1>8. NodesAccounted'
    <2>1. ASSUME NEW n \in KubeNodes, NEW r \in Range(Resources)
          PROVE  allocated'[n][r] <= NodeCapacity[n][r]
      <3>1. allocated[n][r] <= NodeCapacity[n][r] /\ allocated[n][r] \in Nat
        BY PodTypes DEF PodsInv, NodesAccounted
      <3>2. allocated'[n][r] \in Nat /\ allocated'[n][r] <= allocated[n][r] /\ NodeCapacity[n][r] \in Nat
        BY <1>5, PodFacts
      <3>. QED  BY <3>1, <3>2
    <2>. QED  BY <1>5, <2>1 DEF NodesAccounted, Running
  <1>9. NoneFits'
    <2>1. SUFFICES ASSUME NEW p \in Pods, where'[p] = "unschedulable" PROVE Candidates(p)' = {}
      BY DEF NoneFits, In
    <2>2. where[p] = "unschedulable" /\ p \notin Woken
      BY <1>2, <2>1
    <2>3. DueToEnd = {}
      BY <2>2 DEF Woken, In
    <2>4. allocated' = allocated
      BY <1>5, <1>6, <2>3, PodTypes DEF PodsInv
    <2>5. Candidates(p) = {}
      BY <2>2 DEF PodsInv, NoneFits, In
    <2>. QED  BY <2>4, <2>5 DEF Candidates, Fits
  <1>10. Timely'
    <2>1. ASSUME NEW p \in Pods, where'[p] = "running" PROVE endsAt[p] >= now
      <3>1. p \in In("running") /\ p \notin DueToEnd /\ endsAt[p] \in Nat /\ now \in Nat
        BY <1>4, <2>1, PodTypes DEF In, PodsInv
      <3>. QED  BY <3>1 DEF DueToEnd
    <2>2. ASSUME NEW p \in Pods, where'[p] = "backoff" PROVE readyAt[p] >= now
      <3>1. p \in In("backoff") /\ p \notin BackoffOver /\ readyAt[p] \in Nat /\ now \in Nat
        BY <1>2, <2>2, PodTypes DEF In, PodsInv
      <3>. QED  BY <3>1 DEF BackoffOver
    <2>. QED  BY <1>1, <2>1, <2>2 DEF Timely, In
  <1>11. InTurn'
    BY <1>1 DEF InTurn
  <1>. QED  BY <1>7, <1>8, <1>9, <1>10, <1>11 DEF PodsInv

\* A pod that leaves activeQ without being placed changes nothing on the nodes.
LEMMA LeaveKeeps ==
  ASSUME PodsInv, NEW p \in Pods, Expire(p) \/ BackOff(p) \/ GiveUp(p)
  PROVE  PodsInv'
  <1>1. /\ phase = "try" /\ where[p] = "active" /\ \A q \in In("active") \ {p} : Ahead(p, q)
        /\ UNCHANGED <<now, phase, order, backoff, onNode, endsAt, allocated, submitted, placed>>
        /\ where' = [where EXCEPT ![p] = where'[p]]
        /\ where'[p] \in {"expired", "backoff", "unschedulable"}
        /\ where'[p] = "unschedulable" => Candidates(p) = {}
        /\ passed' \subseteq passed \cup {p}
    BY DEF Expire, BackOff, GiveUp, NextPod, In, PodsInv, PodsTypeOK
  <1>2. PodsTypeOK'
    <2>1. where' \in [Pods -> {"new", "active", "backoff", "unschedulable", "running", "completed", "expired"}]
      BY <1>1 DEF PodsInv, PodsTypeOK
    <2>2. attempts' \in [Pods -> Nat] /\ readyAt' \in [Pods -> Nat]
      BY PodTypes DEF PodsInv, Expire, BackOff, GiveUp
    <2>. QED  BY <1>1, <2>1, <2>2 DEF PodsInv, PodsTypeOK
  <1>3. \A q \in Pods : q # p => where'[q] = where[q]
    BY <1>1 DEF PodsInv, PodsTypeOK
  <1>4. In("running")' = In("running")
    BY <1>1, <1>3 DEF In
  <1>5. NodesAccounted'
    BY <1>1, <1>4 DEF PodsInv, NodesAccounted
  <1>6. NoneFits'
    <2>1. \A q : Candidates(q)' = Candidates(q)
      BY <1>1 DEF Candidates, Fits
    <2>. QED  BY <1>1, <1>3, <2>1 DEF PodsInv, NoneFits, In
  <1>7. Timely'
    <2>1. ASSUME NEW q \in In("backoff")' PROVE readyAt'[q] >= now
      <3>1. CASE q = p
        <4>1. BackOff(p)
          BY <2>1, <3>1 DEF Expire, GiveUp, BackOff, In, PodsInv, PodsTypeOK
        <4>2. readyAt'[p] = now + backoff /\ now \in Nat /\ backoff \in Nat
          BY <4>1, PodTypes DEF BackOff, PodsInv
        <4>. QED  BY <3>1, <4>2
      <3>2. CASE q # p
        <4>1. readyAt'[q] = readyAt[q]
          <5>1. q \in Pods
            BY DEF In
          <5>. QED  BY <3>2, <5>1, PodTypes DEF BackOff, Expire, GiveUp, PodsInv
        <4>2. q \in In("backoff")
          BY <1>3, <2>1, <3>2 DEF In
        <4>. QED  BY <1>1, <4>1, <4>2 DEF PodsInv, Timely
      <3>. QED  BY <3>1, <3>2
    <2>. QED  BY <1>1, <1>4, <2>1 DEF PodsInv, Timely
  <1>8. InTurn'
    <2>1. \A q \in passed \cup placed \cup {p}, u \in In("active") : u # p => Ahead(q, u)
      BY <1>1 DEF PodsInv, InTurn
    <2>2. In("active")' \subseteq In("active") \ {p}
      BY <1>1, <1>3 DEF In
    <2>. QED  BY <1>1, <2>1, <2>2 DEF InTurn, Ahead
  <1>. QED  BY <1>2, <1>5, <1>6, <1>7, <1>8 DEF PodsInv

LEMMA PlaceKeeps ==
  ASSUME PodsInv, NEW p \in Pods, Place(p)
  PROVE  /\ PodsInv' /\ BestFit(p) \in Candidates(p)
         /\ allocated' = [allocated EXCEPT ![BestFit(p)] =
                             [r \in Range(Resources) |-> allocated[BestFit(p)][r] + Pod[p].needs[r]]]
  <1> DEFINE b == BestFit(p)
  <1>1. /\ phase = "try" /\ where[p] = "active" /\ \A q \in In("active") \ {p} : Ahead(p, q)
        /\ UNCHANGED <<now, phase, order, readyAt, backoff, submitted, passed>>
        /\ where' = [where EXCEPT ![p] = "running"] /\ onNode' = [onNode EXCEPT ![p] = b]
        /\ placed' = placed \cup {p} /\ Candidates(p) # {} /\ ~Expired(p)
        /\ attempts' = [attempts EXCEPT ![p] = @ + 1]
    BY DEF Place, NextPod, In
  <1>2. b \in Candidates(p) /\ b \in KubeNodes
    <2>1. b \in Candidates(p)
      BY <1>1, BestFits, PodTypes DEF PodsInv
    <2>. QED  BY <2>1 DEF Candidates
  <1>3. allocated' = [allocated EXCEPT ![b] = [r \in Range(Resources) |-> allocated[b][r] + Pod[p].needs[r]]]
    BY DEF Place
  <1> HIDE DEF b
  <1>4. ASSUME NEW n \in KubeNodes, NEW r \in Range(Resources)
        PROVE  /\ allocated'[n][r] = allocated[n][r] + (IF n = b THEN Pod[p].needs[r] ELSE 0)
               /\ allocated[n][r] \in Nat /\ Pod[p].needs[r] \in Nat
    <2>1. allocated[n][r] \in Nat /\ Pod[p].needs[r] \in Nat
      BY PodTypes, PodFacts DEF PodsInv
    <2>2. CASE n = b
      BY <1>2, <1>3, <2>1, <2>2, PodTypes DEF PodsInv
    <2>3. CASE n # b
      BY <1>3, <2>1, <2>3, PodTypes DEF PodsInv
    <2>. QED  BY <2>1, <2>2, <2>3
  <1>5. endsAt' \in [Pods -> Nat] /\ endsAt'[p] >= now /\ \A q \in Pods : q # p => endsAt'[q] = endsAt[q]
    <2> DEFINE e == IF Pod[p].completion # NoTime THEN Pod[p].completion
                    ELSE now + StartDelay + Pod[p].duration
    <2>1. endsAt' = [endsAt EXCEPT ![p] = e]
      BY DEF Place
    <2>2. /\ now \in Nat /\ StartDelay \in Nat /\ Pod[p].duration \in Nat /\ endsAt \in [Pods -> Nat]
          /\ Pod[p].completion \in Nat \cup {NoTime}
      BY PodTypes, PodFacts DEF PodsInv
    <2>3. e \in Nat /\ e >= now
      <3>1. CASE Pod[p].completion # NoTime
        BY <1>1, <2>2, <3>1 DEF Expired
      <3>2. CASE Pod[p].completion = NoTime
        BY <2>2, <3>2
      <3>. QED  BY <3>1, <3>2
    <2> HIDE DEF e
    <2>. QED  BY <2>1, <2>2, <2>3
  <1>6. PodsTypeOK'
    <2>1. where' \in [Pods -> {"new", "active", "backoff", "unschedulable", "running", "completed", "expired"}]
      BY <1>1 DEF PodsInv, PodsTypeOK
    <2>2. attempts' \in [Pods -> Nat] /\ onNode' \in [Pods -> KubeNodes \cup {0}]
      BY <1>1, <1>2, PodTypes DEF PodsInv
    <2>3. allocated' \in [KubeNodes -> [Range(Resources) -> Nat]]
      <3>1. [r \in Range(Resources) |-> allocated[b][r] + Pod[p].needs[r]] \in [Range(Resources) -> Nat]
        <4>1. \A r \in Range(Resources) : allocated[b][r] \in Nat /\ Pod[p].needs[r] \in Nat
          BY <1>2, <1>4
        <4>. QED  BY <4>1
      <3>. QED  BY <1>3, <3>1, PodTypes DEF PodsInv
    <2>. QED  BY <1>1, <1>5, <2>1, <2>2, <2>3 DEF PodsInv, PodsTypeOK
  <1>7. \A q \in Pods : q # p => where'[q] = where[q] /\ onNode'[q] = onNode[q]
    BY <1>1 DEF PodsInv, PodsTypeOK
  <1>8. In("running")' = In("running") \cup {p} /\ p \notin In("running") /\ onNode'[p] = b
    BY <1>1, <1>7, PodTypes DEF In, PodsInv, PodsTypeOK
  <1>9. NodesAccounted'
    <2>1. ASSUME NEW n \in KubeNodes, NEW r \in Range(Resources)
          PROVE  allocated'[n][r] = NeedsOf(Running(n)', r) /\ allocated'[n][r] <= NodeCapacity[n][r]
      <3>1. /\ allocated[n][r] = NeedsOf(Running(n), r) /\ allocated[n][r] <= NodeCapacity[n][r]
            /\ Running(n) \in SUBSET Pods /\ p \notin Running(n)
        BY <1>8 DEF PodsInv, NodesAccounted, Running, In
      <3>2. CASE n = b
        <4>1. Running(n)' = Running(n) \cup {p}
          BY <1>7, <1>8, <3>2 DEF Running, In
        <4>2. NeedsOf(Running(n) \cup {p}, r) = NeedsOf(Running(n), r) + Pod[p].needs[r]
          BY <3>1, NeedsAdd
        <4>3. allocated[n][r] + Pod[p].needs[r] <= NodeCapacity[n][r]
          BY <1>2, <3>2 DEF Candidates, Fits
        <4>. QED  BY <1>4, <3>1, <3>2, <4>1, <4>2, <4>3
      <3>3. CASE n # b
        <4>1. Running(n)' = Running(n)
          BY <1>7, <1>8, <3>3 DEF Running, In
        <4>. QED  BY <1>4, <3>1, <3>3, <4>1
      <3>. QED  BY <3>2, <3>3
    <2>. QED  BY <2>1 DEF NodesAccounted, Running
  <1>10. NoneFits'
    <2>1. SUFFICES ASSUME NEW q \in Pods, where'[q] = "unschedulable" PROVE Candidates(q)' = {}
      BY DEF NoneFits, In
    <2>2. q # p /\ where[q] = "unschedulable"
      BY <1>1, <1>7, <2>1 DEF PodsInv, PodsTypeOK
    <2>3. ASSUME NEW n \in KubeNodes, Fits(q, n, allocated'[n]) PROVE Fits(q, n, allocated[n])
      <3>1. ASSUME NEW r \in Range(Resources)
            PROVE  allocated[n][r] + Pod[q].needs[r] <= NodeCapacity[n][r]
        <4>1. allocated'[n][r] + Pod[q].needs[r] <= NodeCapacity[n][r]
          BY <2>3 DEF Fits
        <4>2. Pod[q].needs[r] \in Nat /\ NodeCapacity[n][r] \in Nat
          BY PodFacts
        <4>. QED  BY <1>4, <4>1, <4>2
      <3>. QED  BY <2>3, <3>1 DEF Fits
    <2>4. Candidates(q) = {}
      BY <2>2 DEF PodsInv, NoneFits, In
    <2>5. Candidates(q)' = {n \in KubeNodes : Fits(q, n, allocated'[n])}
      BY DEF Candidates, Fits
    <2>. QED  BY <2>3, <2>4, <2>5 DEF Candidates
  <1>11. Timely'
    <2>1. In("backoff")' \subseteq In("backoff")
      BY <1>1, <1>7 DEF In, PodsInv, PodsTypeOK
    <2>. QED  BY <1>1, <1>5, <1>8, <2>1 DEF PodsInv, Timely, In
  <1>12. InTurn'
    <2>1. \A q \in passed \cup placed \cup {p}, u \in In("active") : u # p => Ahead(q, u)
      BY <1>1 DEF PodsInv, InTurn
    <2>2. In("active")' \subseteq In("active") \ {p}
      BY <1>1, <1>7 DEF In, PodsInv, PodsTypeOK
    <2>. QED  BY <1>1, <2>1, <2>2 DEF InTurn, Ahead
  <1>. QED  BY <1>2, <1>3, <1>6, <1>9, <1>10, <1>11, <1>12 DEF PodsInv, b

LEMMA TickKeeps ==
  ASSUME PodsInv, TickStep
  PROVE  PodsInv'
  <1>1. CASE EndTick
    <2>1. /\ phase = "try" /\ phase' = "done" /\ In("active") = {} /\ now' = now /\ UNCHANGED podVars
      BY <1>1 DEF EndTick
    <2>2. \A q : In(q)' = In(q) /\ Candidates(q)' = Candidates(q)
      BY <2>1 DEF podVars, In, Candidates, Fits
    <2>3. PodsTypeOK' /\ NodesAccounted' /\ NoneFits'
      BY <2>1, <2>2 DEF PodsInv, PodsTypeOK, NodesAccounted, NoneFits, podVars
    <2>4. Timely' /\ InTurn'
      BY <2>1, <2>2 DEF PodsInv, Timely, InTurn, podVars
    <2>. QED  BY <2>3, <2>4 DEF PodsInv
  <1>. QED  BY <1>1, BeginTickKeeps, LeaveKeeps, PlaceKeeps DEF TickStep

-----------------------------------------------------------------------------
(* Who waits for whom.                                                       *)

Weaker(q, n) ==
  {p \in placed : /\ onNode[p] = n
                  /\ \/ Pod[p].priority < Pod[q].priority
                     \/ Pod[p].priority = Pod[q].priority /\ order[p] > order[q]}
LeftWithout(q, n) == [r \in Range(Resources) |-> allocated[n][r] - NeedsOf(Weaker(q, n), r)]

\* No room for q on any node, had the weaker pods of this tick taken nothing.
NoRoom(q) == \A n \in KubeNodes : ~Fits(q, n, LeftWithout(q, n))

LEMMA Inversion == NoPriorityInversion <=> (phase # "due" => \A q \in passed : NoRoom(q))
  BY DEF NoPriorityInversion, NoRoom, LeftWithout, Weaker

LEMMA FitsSame ==
  ASSUME NEW q, NEW n, NEW u, NEW v, \A r \in Range(Resources) : u[r] = v[r]
  PROVE  Fits(q, n, u) <=> Fits(q, n, v)
  BY DEF Fits

LEMMA WeakerSame ==
  ASSUME UNCHANGED <<order, onNode, allocated, placed>>, NEW q
  PROVE  NoRoom(q)' <=> NoRoom(q)
  BY DEF NoRoom, LeftWithout, Weaker, Fits

LEMMA NoInversion ==
  ASSUME PodsInv, NoPriorityInversion, TickStep
  PROVE  NoPriorityInversion'
  <1>1. CASE BeginTick
    BY <1>1 DEF BeginTick, NoPriorityInversion
  <1>2. CASE EndTick
    <2>1. phase = "try" /\ passed' = passed /\ UNCHANGED <<order, onNode, allocated, placed>>
      BY <1>2 DEF EndTick, podVars
    <2>2. \A q \in passed : NoRoom(q)
      BY <2>1, Inversion
    <2>3. \A q \in passed' : NoRoom(q)'
      BY <2>1, <2>2, WeakerSame
    <2>. QED  BY <2>3 DEF NoPriorityInversion, NoRoom, LeftWithout, Weaker
  <1>3. ASSUME NEW p \in Pods, Expire(p) \/ BackOff(p) \/ GiveUp(p)
        PROVE  NoPriorityInversion'
    <2>1. /\ phase = "try" /\ p \in In("active")
          /\ UNCHANGED <<order, onNode, allocated, placed>>
          /\ passed' = passed \/ (passed' = passed \cup {p} /\ Candidates(p) = {})
      BY <1>3 DEF Expire, BackOff, GiveUp, NextPod
    <2>2. \A q \in passed : NoRoom(q)
      BY <2>1, Inversion
    <2>3. ASSUME Candidates(p) = {} PROVE NoRoom(p)
      <3>1. SUFFICES ASSUME NEW n \in KubeNodes PROVE ~Fits(p, n, LeftWithout(p, n))
        BY DEF NoRoom
      <3>2. Weaker(p, n) = {}
        <4>1. SUFFICES ASSUME NEW q \in Weaker(p, n) PROVE FALSE
          OBVIOUS
        <4>2. q \in Pods /\ Ahead(q, p)
          BY <2>1 DEF Weaker, PodsInv, PodsTypeOK, InTurn
        <4>3. Ahead(p, q)
          BY PodTypes DEF Weaker, Ahead, PodsInv
        <4>. QED  BY <4>2, <4>3, AheadOneWay DEF PodsInv
      <3>3. ASSUME NEW r \in Range(Resources) PROVE LeftWithout(p, n)[r] = allocated[n][r]
        <4>1. NeedsOf({}, r) = 0 /\ allocated[n][r] \in Nat
          BY Needs, PodTypes DEF PodsInv
        <4>. QED  BY <3>2, <4>1 DEF LeftWithout
      <3>4. ~Fits(p, n, allocated[n])
        BY <2>3 DEF Candidates
      <3>. QED  BY <3>3, <3>4, FitsSame
    <2>4. \A q \in passed' : NoRoom(q)
      BY <2>1, <2>2, <2>3
    <2>5. \A q \in passed' : NoRoom(q)'
      BY <2>1, <2>4, WeakerSame
    <2>. QED  BY <2>5 DEF NoPriorityInversion, NoRoom, LeftWithout, Weaker
  <1>4. ASSUME NEW p \in Pods, Place(p)
        PROVE  NoPriorityInversion'
    <2> DEFINE b == BestFit(p)
    <2>1. /\ phase = "try" /\ p \in In("active") /\ passed' = passed /\ order' = order
          /\ onNode' = [onNode EXCEPT ![p] = b] /\ placed' = placed \cup {p}
      BY <1>4 DEF Place, NextPod
    <2>2. b \in KubeNodes /\ allocated' = [allocated EXCEPT ![b] =
                                [r \in Range(Resources) |-> allocated[b][r] + Pod[p].needs[r]]]
      BY <1>4, PlaceKeeps DEF Candidates
    <2> HIDE DEF b
    <2>3. p \notin placed
      <3>1. SUFFICES ASSUME p \in placed PROVE FALSE
        OBVIOUS
      <3>2. Ahead(p, p)
        BY <2>1, <3>1 DEF PodsInv, InTurn
      <3>. QED  BY <3>2, AheadOneWay DEF PodsInv
    <2>4. ASSUME NEW q \in passed PROVE NoRoom(q)'
      <3>1. SUFFICES ASSUME NEW n \in KubeNodes PROVE ~Fits(q, n, LeftWithout(q, n)')
        BY DEF NoRoom, Fits
      <3>2. q \in Pods /\ Ahead(q, p) /\ placed \in SUBSET Pods
        BY <2>1 DEF PodsInv, InTurn, PodsTypeOK
      <3>3. Weaker(q, n)' = IF n = b THEN Weaker(q, n) \cup {p} ELSE Weaker(q, n)
        <4>1. onNode'[p] = b /\ \A s \in placed : onNode'[s] = onNode[s]
          BY <2>1, <2>3, <3>2, PodTypes DEF PodsInv, In
        <4>2. Pod[p].priority < Pod[q].priority
              \/ (Pod[p].priority = Pod[q].priority /\ order[p] > order[q])
          BY <3>2, PodTypes, PodFacts DEF Ahead, PodsInv
        <4>. QED  BY <2>1, <4>1, <4>2 DEF Weaker
      <3>4. ASSUME NEW r \in Range(Resources)
            PROVE  LeftWithout(q, n)'[r] = LeftWithout(q, n)[r]
        <4>1. Weaker(q, n) \in SUBSET Pods /\ p \notin Weaker(q, n)
          BY <2>3, <3>2 DEF Weaker
        <4>2. NeedsOf(Weaker(q, n), r) \in Nat /\ allocated[n][r] \in Nat /\ Pod[p].needs[r] \in Nat
          <5>1. NeedsOf(Weaker(q, n), r) \in Nat
            BY <4>1, Needs
          <5>2. allocated[n][r] \in Nat
            BY PodTypes DEF PodsInv
          <5>. QED  BY <5>1, <5>2, PodFacts
        <4>3. /\ LeftWithout(q, n)'[r] = allocated'[n][r] - NeedsOf(Weaker(q, n)', r)
              /\ LeftWithout(q, n)[r] = allocated[n][r] - NeedsOf(Weaker(q, n), r)
          BY DEF LeftWithout
        <4>4. CASE n = b
          <5>1. allocated'[n][r] = allocated[n][r] + Pod[p].needs[r]
            BY <2>2, <4>4, PodTypes DEF PodsInv
          <5>2. NeedsOf(Weaker(q, n)', r) = NeedsOf(Weaker(q, n), r) + Pod[p].needs[r]
            BY <3>3, <4>1, <4>4, NeedsAdd
          <5>. QED  BY <4>2, <4>3, <5>1, <5>2
        <4>5. CASE n # b
          <5>1. allocated'[n][r] = allocated[n][r]
            BY <2>2, <4>5, PodTypes DEF PodsInv
          <5>2. Weaker(q, n)' = Weaker(q, n)
            BY <3>3, <4>5
          <5>. QED  BY <4>3, <5>1, <5>2
        <4>. QED  BY <4>4, <4>5
      <3>5. ~Fits(q, n, LeftWithout(q, n))
        BY <2>1, Inversion DEF NoRoom
      <3>. QED  BY <3>4, <3>5, FitsSame
    <2>. QED  BY <2>1, <2>4 DEF NoPriorityInversion, NoRoom, LeftWithout, Weaker
  <1>. QED  BY <1>1, <1>2, <1>3, <1>4 DEF TickStep

\* A tick of the pod scheduler leaves the pods alone that are not handed over yet.
LEMMA TickMoves ==
  ASSUME PodsInv, TickStep
  PROVE  /\ PodsInv' /\ now' = now /\ phase \in {"due", "try"} /\ phase' \in {"try", "done"}
         /\ \A p \in Pods : where[p] = "new" => where'[p] = "new"
         /\ \A p \in Pods : where[p] # "new" => where'[p] # "new"
  <1>1. PodsInv'
    BY TickKeeps
  <1>2. now' = now /\ phase \in {"due", "try"} /\ phase' \in {"try", "done"}
    BY DEF TickStep, BeginTick, Expire, Place, BackOff, GiveUp, EndTick, NextPod
  <1>3. ASSUME NEW p \in Pods PROVE where[p] = "new" <=> where'[p] = "new"
    <2>1. CASE BeginTick
      <3>1. where'[p] = CASE p \in DueToEnd -> "completed"
                          [] p \in BackoffOver \cup Woken -> IF Expired(p) THEN "expired" ELSE "active"
                          [] OTHER -> where[p]
        BY <2>1 DEF BeginTick
      <3>2. p \in DueToEnd \cup BackoffOver \cup Woken => where[p] # "new"
        BY DEF DueToEnd, BackoffOver, Woken, In
      <3>3. p \in DueToEnd => p \notin BackoffOver \cup Woken
        BY DEF DueToEnd, BackoffOver, Woken, In
      <3>4. CASE p \in DueToEnd
        BY <3>1, <3>2, <3>3, <3>4
      <3>5. CASE p \in BackoffOver \cup Woken
        BY <3>1, <3>2, <3>3, <3>5
      <3>6. CASE p \notin DueToEnd /\ p \notin BackoffOver \cup Woken
        BY <3>1, <3>6
      <3>. QED  BY <3>4, <3>5, <3>6
    <2>2. CASE EndTick
      BY <2>2 DEF EndTick, podVars
    <2>3. CASE \E q \in Pods : Expire(q) \/ Place(q) \/ BackOff(q) \/ GiveUp(q)
      BY <2>3 DEF Expire, Place, BackOff, GiveUp, NextPod, In, PodsInv, PodsTypeOK
    <2>. QED  BY <2>1, <2>2, <2>3 DEF TickStep
  <1>. QED  BY <1>1, <1>2, <1>3

\* Nothing about the pods changes but the phase, which is outside a tick.
LEMMA PodsSame ==
  ASSUME PodsInv, UNCHANGED podVars, now' \in Nat, phase' \in {"idle", "due"}
  PROVE  PodsInv'
  <1>1. \A q : In(q)' = In(q)
    BY DEF podVars, In
  <1>2. PodsTypeOK'
    BY DEF podVars, PodsInv, PodsTypeOK
  <1>3. NodesAccounted' /\ NoneFits'
    BY <1>1 DEF podVars, PodsInv, NodesAccounted, NoneFits, Candidates, Fits
  <1>4. Timely' /\ InTurn'
    BY DEF Timely, InTurn
  <1>. QED  BY <1>2, <1>3, <1>4 DEF PodsInv

\* No pod is with the scheduler yet, on no node.
LEMMA PodsStart ==
  ASSUME PodsInit
  PROVE  PodsInv /\ \A q : q # "new" => In(q) = {}
  <1>1. now = 0 /\ phase = "idle"
    BY DEF PodsInit
  <1>2. \A q : q # "new" => In(q) = {}
    BY DEF PodsInit, In
  <1>3. PodsTypeOK
    BY <1>1, PodFacts DEF PodsInit, PodsTypeOK
  <1>4. NodesAccounted
    <2>1. ASSUME NEW n \in KubeNodes, NEW r \in Range(Resources)
          PROVE  allocated[n][r] = NeedsOf(Running(n), r) /\ allocated[n][r] <= NodeCapacity[n][r]
      <3>1. Running(n) = {} /\ allocated[n][r] = 0
        BY <1>1, <1>2 DEF Running, PodsInit
      <3>2. NeedsOf({}, r) = 0 /\ NodeCapacity[n][r] \in Nat
        BY Needs, PodFacts
      <3>. QED  BY <3>1, <3>2
    <2>. QED  BY <2>1 DEF NodesAccounted, Running
  <1>. QED  BY <1>1, <1>2, <1>3, <1>4 DEF PodsInv, NoneFits, Timely, InTurn

-----------------------------------------------------------------------------
(* The replay.                                                               *)

\* The pods the replay has not come to yet are new; it notes an instant no later than
\* the first the scheduler asks for.
ReplayInv ==
  /\ PodsInv /\ NoPriorityInversion /\ NothingOverdue
  /\ trace \in Traces /\ index \in 0 .. Len(trace) /\ times \in SUBSET Nat
  /\ \A i \in index + 1 .. Len(trace) : where[trace[i]] = "new"
  /\ phase = "idle" => \A w \in Wakeups : \E t \in times : t <= w

LEMMA TraceFacts ==
  ASSUME NEW t \in Traces
  PROVE  /\ t \in Seq(Pods) /\ Len(t) \in Nat /\ Range(t) \subseteq Pods
         /\ \A i, j \in 1 .. Len(t) : t[i] = t[j] => i = j
         /\ \A p \in Range(t) : Creation[p] \in Nat
  <1>1. t \in Seq(Pods) /\ IsInjective(t) /\ Creation \in [Pods -> Nat]
    BY TraceAssumption
  <1>2. Range(t) \subseteq Pods
    BY <1>1 DEF Range
  <1>3. \A i, j \in 1 .. Len(t) : t[i] = t[j] => i = j
    BY <1>1 DEF IsInjective
  <1>. QED  BY <1>1, <1>2, <1>3

LEMMA WakeupFacts ==
  ASSUME PodsTypeOK
  PROVE  Wakeups \in SUBSET Nat
  BY PodTypes DEF Wakeups, In

\* The pods handed over are queued, and no other pod moves.
LEMMA EnqueueKeeps ==
  ASSUME PodsInv, NEW ps \in Seq(Pods), \A p \in Range(ps) : where[p] = "new", Enqueue(ps),
         now' \in Nat, phase' \in {"idle", "due"},
         UNCHANGED <<attempts, readyAt, backoff, onNode, endsAt, allocated, passed, placed>>
  PROVE  /\ PodsInv'
         /\ \A p \in Pods : where'[p] = IF p \in Range(ps) THEN "active" ELSE where[p]
  <1>1. /\ submitted' = submitted + Len(ps)
        /\ where' = [p \in Pods |-> IF p \in Range(ps) THEN "active" ELSE where[p]]
        /\ order' = [p \in Pods |->
                        IF p \in Range(ps)
                        THEN submitted + (CHOOSE i \in DOMAIN ps : ps[i] = p) ELSE order[p]]
    BY DEF Enqueue
  <1>2. \A p \in Pods : where'[p] = IF p \in Range(ps) THEN "active" ELSE where[p]
    BY <1>1
  <1>3. order' \in [Pods -> Nat]
    <2>1. ASSUME NEW p \in Range(ps) PROVE (CHOOSE i \in DOMAIN ps : ps[i] = p) \in Nat
      <3>1. \E i \in DOMAIN ps : ps[i] = p
        BY <2>1 DEF Range
      <3>2. (CHOOSE i \in DOMAIN ps : ps[i] = p) \in DOMAIN ps
        BY <3>1
      <3>3. DOMAIN ps \subseteq Nat
        OBVIOUS
      <3>. QED  BY <3>2, <3>3
    <2>2. submitted \in Nat /\ order \in [Pods -> Nat]
      BY PodTypes DEF PodsInv
    <2>3. ASSUME NEW p \in Pods
          PROVE  (IF p \in Range(ps) THEN submitted + (CHOOSE i \in DOMAIN ps : ps[i] = p)
                  ELSE order[p]) \in Nat
      <3>1. CASE p \in Range(ps)
        <4> DEFINE i == CHOOSE i \in DOMAIN ps : ps[i] = p
        <4>1. i \in Nat
          BY <2>1, <3>1
        <4> HIDE DEF i
        <4>2. submitted + i \in Nat
          BY <2>2, <4>1
        <4>. QED  BY <3>1, <4>2 DEF i
      <3>2. CASE p \notin Range(ps)
        BY <2>2, <3>2
      <3>. QED  BY <3>1, <3>2
    <2>. QED  BY <1>1, <2>3
  <1>4. PodsTypeOK'
    <2>1. submitted' \in Nat
      <3>1. Len(ps) \in Nat /\ submitted \in Nat
        BY PodTypes DEF PodsInv
      <3>. QED  BY <1>1, <3>1
    <2>2. where' \in [Pods -> {"new", "active", "backoff", "unschedulable", "running", "completed", "expired"}]
      BY <1>1 DEF PodsInv, PodsTypeOK
    <2>. QED  BY <1>3, <2>1, <2>2 DEF PodsInv, PodsTypeOK
  <1>5. In("running")' = In("running") /\ In("unschedulable")' = In("unschedulable")
    BY <1>2 DEF In
  <1>6. NodesAccounted'
    BY <1>5 DEF PodsInv, NodesAccounted
  <1>7. NoneFits'
    <2>1. \A q : Candidates(q)' = Candidates(q)
      BY DEF Candidates, Fits
    <2>. QED  BY <1>5, <2>1 DEF PodsInv, NoneFits
  <1>8. Timely' /\ InTurn'
    BY DEF Timely, InTurn
  <1>. QED  BY <1>2, <1>4, <1>6, <1>7, <1>8 DEF PodsInv

\* Arithmetic of the positions of the trace that a visit has passed.
LEMMA PastPositions ==
  ASSUME NEW a \in Nat, NEW d \in Nat, NEW n \in Nat, NEW x \in 0 .. n, x >= a, x >= d
  PROVE  /\ \A i \in x + 1 .. n : i \in Nat /\ i \in a + 1 .. n /\ i \in 1 .. n /\ i > d
         /\ x \in Nat
  OBVIOUS

LEMMA VisitKeeps ==
  ASSUME ReplayInv, Visit
  PROVE  ReplayInv'
  <1> DEFINE due == Cardinality({i \in DOMAIN trace : Creation[trace[i]] <= Min(times)})
             created == SubSeq(trace, index + 1, due)
  <1>1. /\ phase = "idle" /\ times # {} /\ phase' = "due" /\ trace' = trace
        /\ UNCHANGED <<attempts, readyAt, backoff, onNode, endsAt, allocated, passed, placed>>
        /\ now' = Min(times) /\ times' = times \ {Min(times)} /\ index' = index + Len(created)
        /\ Enqueue(created)
    BY DEF Visit
  <1>2. /\ trace \in Seq(Pods) /\ Len(trace) \in Nat /\ index \in 0 .. Len(trace)
        /\ \A i, j \in 1 .. Len(trace) : trace[i] = trace[j] => i = j
    BY TraceFacts DEF ReplayInv
  <1>3. due \in 0 .. Len(trace)
    <2> DEFINE U == {i \in DOMAIN trace : Creation[trace[i]] <= Min(times)}
    <2>1. U \in SUBSET (1 .. Len(trace))
      BY <1>2
    <2> HIDE DEF U
    <2>2. IsFiniteSet(1 .. Len(trace)) /\ Cardinality(1 .. Len(trace)) = Len(trace)
      <3>1. \A n \in Nat : IsFiniteSet(1 .. n) /\ Cardinality(1 .. n) = n
        <4>1. SUFFICES ASSUME NEW n \in Nat PROVE IsFiniteSet(1 .. n) /\ Cardinality(1 .. n) = n
          OBVIOUS
        <4>2. 1 \in Int /\ n \in Int
          OBVIOUS
        <4>. QED  BY <4>2, FS_Interval
      <3>. QED  BY <1>2, <3>1
    <2>3. Cardinality(U) \in Nat /\ Cardinality(U) <= Len(trace)
      BY <2>1, <2>2, FS_Subset, FS_CardinalityType
    <2>. QED  BY <1>2, <2>3 DEF U
  <1> HIDE DEF due
  <1>4. /\ created \in Seq(Pods) /\ Len(created) = IF due <= index THEN 0 ELSE due - index
        /\ \A k \in 1 .. Len(created) : created[k] = trace[index + k] /\ index + k \in index + 1 .. due
    BY <1>2, <1>3
  <1>5. \A p \in Range(created) : \E i \in index + 1 .. due : i <= Len(trace) /\ p = trace[i]
    <2>1. SUFFICES ASSUME NEW p \in Range(created)
                   PROVE  \E i \in index + 1 .. due : i <= Len(trace) /\ p = trace[i]
      OBVIOUS
    <2>2. PICK k \in 1 .. Len(created) : p = created[k]
      BY <1>4 DEF Range
    <2>3. p = trace[index + k] /\ index + k \in index + 1 .. due
      BY <1>4, <2>2
    <2>. QED  BY <1>3, <2>3
  <1> HIDE DEF created
  <1>6. \A p \in Range(created) : where[p] = "new"
    BY <1>2, <1>3, <1>5 DEF ReplayInv
  <1>7. Min(times) \in times /\ \A t \in times : Min(times) <= t
    BY <1>1, LeastNat DEF ReplayInv
  <1>8. now' \in Nat /\ times' \in SUBSET Nat
    BY <1>1, <1>7 DEF ReplayInv
  <1>9. PodsInv' /\ \A p \in Pods : where'[p] = IF p \in Range(created) THEN "active" ELSE where[p]
    BY <1>1, <1>4, <1>6, <1>8, EnqueueKeeps DEF ReplayInv
  <1>10. index' \in 0 .. Len(trace) /\ index' >= index /\ index' >= due
    <2> DEFINE len == Len(created)
    <2>1. len = (IF due <= index THEN 0 ELSE due - index) /\ index' = index + len
      BY <1>1, <1>4
    <2> HIDE DEF len
    <2>. QED  BY <1>2, <1>3, <2>1
  <1>11. \A i \in index' + 1 .. Len(trace) : where'[trace[i]] = "new"
    <2>1. \A i \in index' + 1 .. Len(trace) : i \in Nat /\ i \in index + 1 .. Len(trace) /\ i \in 1 .. Len(trace) /\ i > due
      <3> DEFINE x == index'
                 n == Len(trace)
      <3>1. x \in 0 .. n /\ x >= index /\ x >= due /\ index \in Nat /\ due \in Nat /\ n \in Nat
        BY <1>2, <1>3, <1>10
      <3> HIDE DEF x, n
      <3>2. \A i \in x + 1 .. n : i \in Nat /\ i \in index + 1 .. n /\ i \in 1 .. n /\ i > due
        BY <3>1, PastPositions
      <3>. QED  BY <3>2 DEF x, n
    <2>2. SUFFICES ASSUME NEW i \in index' + 1 .. Len(trace) PROVE where'[trace[i]] = "new"
      OBVIOUS
    <2>3. i \in Nat /\ i \in index + 1 .. Len(trace) /\ i \in 1 .. Len(trace) /\ i > due
      BY <2>1, <2>2
    <2>4. trace[i] \notin Range(created)
      <3>1. SUFFICES ASSUME trace[i] \in Range(created) PROVE FALSE
        OBVIOUS
      <3>2. PICK k \in index + 1 .. due : k <= Len(trace) /\ trace[i] = trace[k]
        BY <1>5, <3>1
      <3>3. k \in 1 .. Len(trace)
        BY <1>2, <1>3, <3>2
      <3>. QED  BY <1>2, <1>3, <2>3, <3>2, <3>3
    <2>5. where[trace[i]] = "new" /\ trace[i] \in Pods
      BY <1>2, <2>3 DEF ReplayInv
    <2>. QED  BY <1>9, <2>4, <2>5
  <1>12. \A i \in index' + 1 .. Len(trace)' : where'[trace'[i]] = "new"
    BY <1>1, <1>11
  <1>13. NothingOverdue'
    <2>1. ASSUME NEW w \in Wakeups PROVE w >= Min(times)
      <3>1. PICK t \in times : t <= w
        BY <1>1 DEF ReplayInv
      <3>2. w \in Nat /\ t \in Nat /\ Min(times) \in Nat
        BY <1>7, WakeupFacts DEF ReplayInv, PodsInv
      <3>. QED  BY <1>7, <3>1, <3>2
    <2>2. In("running")' = In("running") /\ In("backoff")' = In("backoff")
      BY <1>6, <1>9 DEF In
    <2>. QED  BY <1>1, <2>1, <2>2 DEF NothingOverdue, Wakeups
  <1>. QED  BY <1>1, <1>8, <1>9, <1>10, <1>12, <1>13 DEF ReplayInv, NoPriorityInversion

LEMMA ReplayStays ==
  ASSUME ReplayInv, [ReplayNext]_replayVars
  PROVE  ReplayInv'
  <1>1. CASE Visit
    BY <1>1, VisitKeeps
  <1>2. ASSUME now' = now, UNCHANGED podVars
        PROVE  /\ \A q : In(q)' = In(q)
               /\ Wakeups' = Wakeups
               /\ NodesAccounted' <=> NodesAccounted
               /\ NoneFits' <=> NoneFits
    BY <1>2 DEF podVars, In, Wakeups, NodesAccounted, NoneFits, Candidates, Fits
  <1>3. ASSUME now' = now, UNCHANGED podVars, phase' \in {"idle", "due"} PROVE PodsInv'
    <2>1. PodsTypeOK'
      BY <1>3 DEF podVars, ReplayInv, PodsInv, PodsTypeOK
    <2>2. Timely' /\ InTurn'
      BY <1>3 DEF Timely, InTurn
    <2>. QED  BY <1>2, <1>3, <2>1, <2>2 DEF ReplayInv, PodsInv
  <1>4. ASSUME Again \/ Leave
        PROVE  /\ phase = "done" /\ now' = now /\ UNCHANGED podVars /\ trace' = trace /\ index' = index
               /\ phase' \in {"idle", "due"}
    BY <1>4 DEF Again, Leave
  <1>5. CASE Again
    <2>1. NothingOverdue'
      BY <1>4, <1>5 DEF ReplayInv, PodsInv, Timely, NothingOverdue, podVars, In
    <2>2. NoPriorityInversion' /\ phase' = "due" /\ times' = times
      BY <1>5 DEF Again, NoPriorityInversion
    <2>. QED  BY <1>3, <1>4, <1>5, <2>1, <2>2 DEF ReplayInv, podVars
  <1>6. CASE Leave
    <2>1. phase' = "idle" /\ times' = IF Wakeups = {} THEN times ELSE times \cup {Min(Wakeups)}
      BY <1>6 DEF Leave
    <2>2. NoPriorityInversion'
      BY <1>4, <1>6, <2>1 DEF ReplayInv, NoPriorityInversion, podVars, Fits
    <2>3. Wakeups \in SUBSET Nat
      BY WakeupFacts DEF ReplayInv, PodsInv
    <2>4. times' \in SUBSET Nat /\ \A w \in Wakeups : \E t \in times' : t <= w
      BY <2>1, <2>3, LeastNat DEF ReplayInv
    <2>5. NothingOverdue'
      BY <2>1 DEF NothingOverdue
    <2>. QED  BY <1>2, <1>3, <1>4, <1>6, <2>1, <2>2, <2>4, <2>5 DEF ReplayInv, podVars
  <1>7. CASE TickStep /\ UNCHANGED <<trace, times, index>>
    <2>1. PodsInv' /\ NoPriorityInversion' /\ phase' \notin {"idle", "due"}
      <3>1. phase' \notin {"idle", "due"}
        BY <1>7 DEF TickStep, BeginTick, Expire, Place, BackOff, GiveUp, EndTick, NextPod
      <3>. QED  BY <1>7, <3>1, TickKeeps, NoInversion DEF ReplayInv
    <2>2. ASSUME NEW p \in Pods, where[p] = "new" PROVE where'[p] = "new"
      <3>1. CASE BeginTick
        <4>1. p \notin DueToEnd /\ p \notin BackoffOver \cup Woken
          BY <2>2 DEF DueToEnd, BackoffOver, Woken, In
        <4>. QED  BY <2>2, <3>1, <4>1 DEF BeginTick
      <3>2. CASE EndTick
        BY <2>2, <3>2 DEF EndTick, podVars
      <3>3. CASE \E q \in Pods : Expire(q) \/ Place(q) \/ BackOff(q) \/ GiveUp(q)
        BY <2>2, <3>3 DEF Expire, Place, BackOff, GiveUp, NextPod, In, ReplayInv, PodsInv, PodsTypeOK
      <3>. QED  BY <1>7, <3>1, <3>2, <3>3 DEF TickStep
    <2>3. \A i \in index + 1 .. Len(trace) : trace[i] \in Pods
      BY TraceFacts DEF ReplayInv
    <2>. QED  BY <1>7, <2>1, <2>2, <2>3 DEF ReplayInv, NothingOverdue
  <1>8. CASE UNCHANGED replayVars
    <2>1. now' = now /\ phase' = phase /\ UNCHANGED podVars /\ UNCHANGED <<trace, times, index>>
      BY <1>8 DEF replayVars
    <2>2. PodsInv'
      BY <1>2, <2>1 DEF ReplayInv, PodsInv, PodsTypeOK, Timely, InTurn, podVars, Ahead
    <2>3. NoPriorityInversion' /\ NothingOverdue'
      BY <2>1 DEF ReplayInv, NoPriorityInversion, NothingOverdue, podVars, Fits, In
    <2>. QED  BY <1>2, <2>1, <2>2, <2>3 DEF ReplayInv, podVars
  <1>. QED  BY <1>1, <1>5, <1>6, <1>7, <1>8 DEF ReplayNext

LEMMA ReplayStarts == ReplayInit => ReplayInv
  <1> SUFFICES ASSUME ReplayInit PROVE ReplayInv
    OBVIOUS
  <1>1. PodsInit /\ trace \in Traces /\ index = 0 /\ phase = "idle"
        /\ times = {Creation[p] : p \in Range(trace)}
                     \cup ({Pod[p].completion : p \in Range(trace)} \ {NoTime})
    BY DEF ReplayInit, PodsInit
  <1>2. PodsInv /\ \A q \in {"running", "backoff", "unschedulable"} : In(q) = {}
    BY <1>1, PodsStart
  <1>3. times \in SUBSET Nat
    BY <1>1, TraceFacts, PodFacts
  <1>4. Wakeups = {}
    BY <1>2 DEF Wakeups
  <1>5. NoPriorityInversion /\ NothingOverdue
    BY <1>1 DEF NoPriorityInversion, NothingOverdue, PodsInit
  <1>6. \A i \in index + 1 .. Len(trace) : where[trace[i]] = "new"
    BY <1>1, TraceFacts DEF PodsInit
  <1>7. index \in 0 .. Len(trace)
    BY <1>1, TraceFacts
  <1>. QED  BY <1>1, <1>2, <1>3, <1>4, <1>5, <1>6, <1>7 DEF ReplayInv

LEMMA ReplayInvariance == ReplaySpec => []ReplayInv
  BY ReplayStarts, ReplayStays, PTL DEF ReplaySpec

\* Whatever is replayed on whatever nodes, a pod waits only for what stronger pods or
\* pods placed before hold, none is left in wait of a completion when it would fit, and
\* no instant at which a container ends or a backoff expires is stepped over
\* (replay_kube_trace, KubeSchedulerEngine.tick).
THEOREM ReplayServes == ReplaySpec => []ServedInTime
  <1>1. ReplayInv => ServedInTime
    BY DEF ReplayInv, PodsInv, NoneFits, ServedInTime, WaitingJustified, NoneStranded
  <1>. QED  BY <1>1, ReplayInvariance, PTL

\* What a node has allocated is what the pods running on it asked for, and never more
\* than it has (KubeNode).
THEOREM ReplayAccounts == ReplaySpec => []NodesAccounted
  <1>1. ReplayInv => NodesAccounted
    BY DEF ReplayInv, PodsInv
  <1>. QED  BY <1>1, ReplayInvariance, PTL

-----------------------------------------------------------------------------
(* The agents: the constants, and buffers in which no two events are of one  *)
(* job.                                                                      *)

LEMMA AgentFacts ==
  /\ Len(Agents) \in Nat /\ Len(Agents) >= 1 /\ DOMAIN Agents = 1 .. Len(Agents)
  /\ \A i, k \in 1 .. Len(Agents) : Agents[i] \in AllAgents /\ (Agents[i] = Agents[k] => i = k)
  /\ \A a \in AllAgents : /\ Jobs[a] \in Seq(DOMAIN Size) /\ ClusterOf[a] \in Range(ClusterOf)
                          /\ \E i \in 1 .. Len(Agents) : Agents[i] = a
  /\ \A a \in AllAgents : \A i, k \in 1 .. Len(Jobs[a]) : Jobs[a][i] = Jobs[a][k] => i = k
  /\ \A a, b \in AllAgents : a # b => Range(Jobs[a]) \cap Range(Jobs[b]) = {}
  /\ Window \in Nat /\ Hysteresis \in Nat /\ Threshold \in Int /\ MinNodes \in Nat /\ MaxNodes \in Nat
  /\ Jitters \subseteq Int /\ Burst \in Nat /\ (Ceiling # NoCeiling => Ceiling \in Nat)
  /\ \A h \in Headrooms : h \in Nat
  <1>1. /\ Agents \in Seq(DOMAIN ClusterOf) /\ Agents # <<>> /\ IsInjective(Agents)
        /\ Jobs \in [AllAgents -> Seq(DOMAIN Size)] /\ \A a \in AllAgents : IsInjective(Jobs[a])
        /\ \A a, b \in AllAgents : a # b => Range(Jobs[a]) \cap Range(Jobs[b]) = {}
    BY AgentsAssumption DEF AllAgents
  <1>2. Len(Agents) \in Nat /\ Len(Agents) >= 1 /\ DOMAIN Agents = 1 .. Len(Agents)
    BY <1>1
  <1>3. \A i, k \in 1 .. Len(Agents) : Agents[i] \in AllAgents /\ (Agents[i] = Agents[k] => i = k)
    BY <1>1, <1>2 DEF IsInjective, AllAgents, Range
  <1>4. \A a \in AllAgents : \E i \in 1 .. Len(Agents) : Agents[i] = a
    BY <1>2 DEF AllAgents, Range
  <1>5. \A a \in AllAgents : Jobs[a] \in Seq(DOMAIN Size) /\ ClusterOf[a] \in Range(ClusterOf)
    <2>1. \A a \in AllAgents : a \in DOMAIN ClusterOf
      BY <1>1, <1>4
    <2>. QED  BY <1>1, <2>1 DEF Range
  <1>6. \A a \in AllAgents : \A i, k \in 1 .. Len(Jobs[a]) : Jobs[a][i] = Jobs[a][k] => i = k
    <2>1. \A a \in AllAgents : DOMAIN Jobs[a] = 1 .. Len(Jobs[a])
      BY <1>5
    <2>. QED  BY <1>1, <2>1 DEF IsInjective
  <1>. QED  BY <1>1, <1>2, <1>3, <1>4, <1>5, <1>6, NumbersAssumption, GridAssumption

Events == [id : Ids, observed : Nat, stamp : Int, count : Nat]

OneEachJob(b) == \A i, k \in DOMAIN b : b[i].id.job = b[k].id.job => i = k

\* An event taken out of a buffer, and one put at its end.
LEMMA OneLess ==
  ASSUME NEW E, NEW b \in Seq(E), NEW i \in DOMAIN b, OneEachJob(b)
  PROVE  /\ RemoveAt(b, i) \in Seq(E) /\ OneEachJob(RemoveAt(b, i))
         /\ Range(RemoveAt(b, i)) = Range(b) \ {b[i]}
  <1> DEFINE s == RemoveAt(b, i)
             n == Len(b)
             at(k) == IF k < i THEN k ELSE k + 1
  <1>1. n \in Nat /\ i \in 1 .. n /\ DOMAIN b = 1 .. n
    OBVIOUS
  <1>2. s \in Seq(E) /\ Len(s) = n - 1 /\ \A k \in 1 .. n - 1 : s[k] = b[at(k)]
    <2> DEFINE l == SubSeq(b, 1, i - 1)
               r == SubSeq(b, i + 1, n)
    <2>1. /\ l \in Seq(E) /\ Len(l) = i - 1 /\ \A k \in 1 .. i - 1 : l[k] = b[k]
          /\ r \in Seq(E) /\ Len(r) = n - i /\ \A k \in 1 .. n - i : r[k] = b[i + k]
      <3>1. l \in Seq(E) /\ Len(l) = i - 1 /\ \A k \in 1 .. i - 1 : l[k] = b[k]
        BY <1>1
      <3>2. r \in Seq(E) /\ Len(r) = n - i
        BY <1>1
      <3>3. \A k \in 1 .. n - i : r[k] = b[i + k]
        BY <1>1
      <3>. QED  BY <3>1, <3>2, <3>3
    <2>2. s = l \o r
      BY DEF RemoveAt
    <2> HIDE DEF l, r, s, n
    <2>3. s \in Seq(E) /\ Len(s) = Len(l) + Len(r)
      BY <2>1, <2>2
    <2>4. ASSUME NEW k \in 1 .. Len(l) + Len(r)
          PROVE  s[k] = IF k <= Len(l) THEN l[k] ELSE r[k - Len(l)]
      <3>1. l \in Seq(E) /\ r \in Seq(E)
        BY <2>1
      <3>2. (l \o r)[k] = IF k <= Len(l) THEN l[k] ELSE r[k - Len(l)]
        BY <3>1, SMTT(30)
      <3>. QED  BY <2>2, <3>2
    <2>5. Len(s) = n - 1
      BY <1>1, <2>1, <2>3
    <2>6. ASSUME NEW k \in 1 .. n - 1 PROVE s[k] = b[at(k)]
      <3>1. CASE k < i
        <4>1. k \in 1 .. i - 1 /\ k \in 1 .. Len(l) + Len(r) /\ k <= Len(l)
          BY <1>1, <2>1, <3>1
        <4>2. s[k] = l[k]
          BY <2>4, <4>1
        <4>. QED  BY <2>1, <3>1, <4>1, <4>2
      <3>2. CASE k >= i
        <4>1. /\ k - (i - 1) \in 1 .. n - i /\ k \in 1 .. Len(l) + Len(r) /\ ~(k <= Len(l)) /\ ~(k < i)
              /\ i + (k - (i - 1)) = k + 1
          BY <1>1, <2>1, <3>2
        <4>2. s[k] = r[k - (i - 1)]
          BY <2>1, <2>4, <4>1
        <4>3. r[k - (i - 1)] = b[i + (k - (i - 1))]
          BY <2>1, <4>1
        <4>. QED  BY <4>1, <4>2, <4>3
      <3>. QED  BY <1>1, <3>1, <3>2
    <2>. QED  BY <2>3, <2>5, <2>6
  <1> HIDE DEF s
  <1>3. DOMAIN s = 1 .. n - 1
    BY <1>2
  <1>4. /\ \A k \in 1 .. n - 1 : at(k) \in 1 .. n /\ at(k) # i
        /\ \A k, l \in 1 .. n - 1 : at(k) = at(l) => k = l
        /\ \A m \in 1 .. n : m # i => \E k \in 1 .. n - 1 : at(k) = m
    <2>1. \A k \in 1 .. n - 1 : at(k) \in 1 .. n /\ at(k) # i
      BY <1>1
    <2>2. \A k, l \in 1 .. n - 1 : at(k) = at(l) => k = l
      BY <1>1
    <2>3. ASSUME NEW m \in 1 .. n, m # i PROVE \E k \in 1 .. n - 1 : at(k) = m
      <3>1. CASE m < i
        BY <1>1, <2>3, <3>1
      <3>2. CASE m > i
        <4>1. m - 1 \in 1 .. n - 1 /\ at(m - 1) = m
          BY <1>1, <2>3, <3>2
        <4>. QED  BY <4>1
      <3>. QED  BY <1>1, <2>3, <3>1, <3>2
    <2>. QED  BY <2>1, <2>2, <2>3
  <1> HIDE DEF at, n
  <1>5. OneEachJob(s)
    <2>1. SUFFICES ASSUME NEW k \in 1 .. n - 1, NEW l \in 1 .. n - 1, s[k].id.job = s[l].id.job PROVE k = l
      BY <1>3 DEF OneEachJob
    <2>2. s[k] = b[at(k)] /\ s[l] = b[at(l)]
      BY <1>2
    <2>3. at(k) = at(l)
      BY <1>1, <1>4, <2>1, <2>2 DEF OneEachJob
    <2>. QED  BY <1>4, <2>3
  <1>6. Range(s) = Range(b) \ {b[i]}
    <2>1. \A k \in 1 .. n - 1 : s[k] \in Range(b) /\ s[k] # b[i]
      <3>1. SUFFICES ASSUME NEW k \in 1 .. n - 1 PROVE s[k] \in Range(b) /\ s[k] # b[i]
        OBVIOUS
      <3>2. s[k] = b[at(k)] /\ at(k) \in 1 .. n /\ at(k) # i
        BY <1>2, <1>4
      <3>. QED  BY <1>1, <3>2 DEF OneEachJob, Range
    <2>2. ASSUME NEW m \in 1 .. n, b[m] # b[i] PROVE b[m] \in Range(s)
      <3>1. PICK k \in 1 .. n - 1 : at(k) = m
        BY <1>4, <2>2
      <3>2. s[k] = b[m] /\ k \in DOMAIN s
        BY <1>2, <1>3, <3>1
      <3>. QED  BY <3>2 DEF Range
    <2>. QED  BY <1>1, <1>3, <2>1, <2>2 DEF Range
  <1>. QED  BY <1>2, <1>5, <1>6 DEF s

LEMMA OneMore ==
  ASSUME NEW E, NEW b \in Seq(E), NEW x \in E, OneEachJob(b), \A y \in Range(b) : y.id.job # x.id.job
  PROVE  /\ Append(b, x) \in Seq(E) /\ OneEachJob(Append(b, x))
         /\ Range(Append(b, x)) = Range(b) \cup {x}
  <1> DEFINE s == Append(b, x)
             n == Len(b)
  <1>1. n \in Nat /\ DOMAIN b = 1 .. n /\ s \in Seq(E) /\ DOMAIN s = 1 .. n + 1
        /\ s[n + 1] = x /\ \A k \in 1 .. n : s[k] = b[k]
    OBVIOUS
  <1> HIDE DEF s, n
  <1>2. \A k \in 1 .. n + 1 : k \in 1 .. n \/ k = n + 1
    BY <1>1
  <1>3. \A k \in 1 .. n : k \in 1 .. n + 1 /\ b[k] \in Range(b) /\ b[k].id.job # x.id.job
    BY <1>1 DEF Range
  <1>4. n + 1 \in 1 .. n + 1
    BY <1>1
  <1>5. OneEachJob(s)
    <2>1. SUFFICES ASSUME NEW k \in 1 .. n + 1, NEW l \in 1 .. n + 1, s[k].id.job = s[l].id.job PROVE k = l
      BY <1>1 DEF OneEachJob
    <2>2. CASE k \in 1 .. n /\ l \in 1 .. n
      BY <1>1, <2>1, <2>2 DEF OneEachJob
    <2>. QED  BY <1>1, <1>2, <1>3, <2>1, <2>2
  <1>6. Range(s) = Range(b) \cup {x}
    <2>1. \A y \in Range(s) : y \in Range(b) \cup {x}
      BY <1>1, <1>2 DEF Range
    <2>2. \A k \in 1 .. n : b[k] \in Range(s)
      BY <1>1, <1>3 DEF Range
    <2>3. x \in Range(s)
      BY <1>1, <1>4 DEF Range
    <2>4. \A y \in Range(b) : \E k \in 1 .. n : y = b[k]
      BY <1>1 DEF Range
    <2>. QED  BY <2>1, <2>2, <2>3, <2>4
  <1>. QED  BY <1>1, <1>5, <1>6 DEF s

\* Of the events that are ready the earliest by its stamp is looked at next.
LEMMA NextIsReady ==
  ASSUME NEW b \in Seq(Events), ReadyAt(b) # {}
  PROVE  /\ NextReady(b) \in ReadyAt(b) /\ NextReady(b) \in DOMAIN b
         /\ \A k \in ReadyAt(b) : b[NextReady(b)].stamp <= b[k].stamp
  <1> DEFINE R == ReadyAt(b)
             f == [i \in R |-> b[i].stamp]
             T == {i \in R : \A k \in R : f[i] <= f[k]}
  <1>1. Len(b) \in Nat /\ DOMAIN b = 1 .. Len(b) /\ \A i \in DOMAIN b : b[i].stamp \in Int
    <2>1. \A i \in DOMAIN b : b[i] \in Events
      OBVIOUS
    <2>2. \A e \in Events : e.stamp \in Int
      BY DEF Events
    <2>3. Len(b) \in Nat /\ DOMAIN b = 1 .. Len(b)
      OBVIOUS
    <2>. QED  BY <2>1, <2>2, <2>3
  <1>2. R \in SUBSET (1 .. Len(b))
    BY <1>1 DEF ReadyAt
  <1>3. IsFiniteSet(1 .. Len(b))
    <2>1. 1 \in Int /\ Len(b) \in Int
      BY <1>1
    <2>. QED  BY <2>1, FS_Interval
  <1>4. IsFiniteSet(R) /\ f \in [R -> Int]
    <2> HIDE DEF R
    <2>1. f \in [R -> Int]
      BY <1>1, <1>2
    <2>2. IsFiniteSet(R)
      BY <1>2, <1>3, FS_Subset
    <2>. QED  BY <2>1, <2>2
  <1> HIDE DEF R
  <1>5. \E m \in R : \A s \in R : f[m] <= f[s]
    <2>1. R # {}
      BY DEF R
    <2> HIDE DEF f
    <2>. QED  BY <1>4, <2>1, ArgMin
  <1>6. T # {} /\ T \in SUBSET Int /\ IsFiniteSet(T)
    <2>1. T # {} /\ T \in SUBSET R
      BY <1>5
    <2> HIDE DEF T
    <2>2. T \in SUBSET Int
      <3>1. \A i \in 1 .. Len(b) : i \in Int
        OBVIOUS
      <3>. QED  BY <1>2, <2>1, <3>1
    <2>. QED  BY <1>4, <2>1, <2>2, FS_Subset
  <1>7. PICK m \in T : \A s \in T : m <= s
    <2> HIDE DEF T
    <2>. QED  BY <1>6, LeastOf
  <1>8. m \in R /\ \A k \in R : b[m].stamp < b[k].stamp \/ (b[m].stamp = b[k].stamp /\ m <= k)
    <2>1. SUFFICES ASSUME NEW k \in R PROVE b[m].stamp < b[k].stamp \/ (b[m].stamp = b[k].stamp /\ m <= k)
      BY <1>7
    <2>2. m \in R /\ f[m] = b[m].stamp /\ f[k] = b[k].stamp /\ f[m] \in Int /\ f[k] \in Int
      BY <1>4, <1>7
    <2>3. f[m] <= f[k]
      BY <1>7
    <2>4. f[m] = f[k] => k \in T
      BY <1>7, <2>2
    <2>5. f[m] = f[k] => m <= k
      BY <1>7, <2>4
    <2> HIDE DEF f
    <2>. QED  BY <2>2, <2>3, <2>5
  <1>9. /\ NextReady(b) \in R
        /\ \A k \in R : \/ b[NextReady(b)].stamp < b[k].stamp
                        \/ b[NextReady(b)].stamp = b[k].stamp /\ NextReady(b) <= k
    BY <1>8 DEF NextReady, R
  <1>10. NextReady(b) \in DOMAIN b
    BY <1>1, <1>2, <1>9
  <1>11. ASSUME NEW k \in R PROVE b[NextReady(b)].stamp <= b[k].stamp
    <2>1. k \in DOMAIN b
      BY <1>1, <1>2
    <2>2. b[NextReady(b)].stamp \in Int /\ b[k].stamp \in Int
      BY <1>1, <1>10, <2>1
    <2>. QED  BY <1>9, <2>2
  <1>. QED  BY <1>9, <1>10, <1>11 DEF R

-----------------------------------------------------------------------------
(* Where a job is.                                                           *)

CapTagged(id) == \E t \in Range(id.tags) : t[1] = "capdefer"

\* The identifier of a job that was held back n times and never deferred.
Plain(id, n) == id.tags = IF n = 0 THEN <<>> ELSE <<<<"retry", n>>>>

\* An identifier that the agent has not seen, unless the job was deferred before.
Fresh(a, e) ==
  \/ CapTagged(e.id)
  \/ /\ Plain(e.id, e.count)
     /\ \A id \in seen[a] : id.job = e.id.job => \E m \in Nat : m < e.count /\ Plain(id, m)

Waits(a) == {e.id.job : e \in Range(buffer[a])}

PlacesInv ==
  /\ \A a \in AllAgents :
       /\ OneEachJob(buffer[a])
       /\ Waits(a) \subseteq Observed(a) \ (admitted \cup refused)
       /\ \A id \in seen[a] : id.job \in Observed(a)
       /\ \A j \in Observed(a) : DeferredBefore(a, j) \/ j \in admitted \cup refused \cup Waits(a)
       /\ \A e \in Range(buffer[a]) : DeferredBefore(a, e.id.job) \/ Fresh(a, e)
  /\ \A j \in admitted \cup refused : \E a \in AllAgents : j \in Observed(a)
  /\ admitted \cap refused = {}

LEMMA PlainOnce ==
  ASSUME NEW id, NEW m \in Nat, NEW n \in Nat, Plain(id, m), Plain(id, n)
  PROVE  m = n
  <1>1. CASE m = 0 \/ n = 0
    BY <1>1 DEF Plain
  <1>2. CASE m # 0 /\ n # 0
    <2>1. <<<<"retry", m>>>>[1] = <<<<"retry", n>>>>[1]
      BY <1>2 DEF Plain
    <2>. QED  BY <2>1
  <1>. QED  BY <1>1, <1>2

LEMMA FreshUnseen ==
  ASSUME NEW a \in AllAgents, NEW e \in Events, Fresh(a, e), ~DeferredBefore(a, e.id.job)
  PROVE  e.id \notin seen[a]
  <1>1. SUFFICES ASSUME e.id \in seen[a] PROVE FALSE
    OBVIOUS
  <1>2. ~CapTagged(e.id)
    BY <1>1 DEF DeferredBefore, CapTagged
  <1>3. PICK m \in Nat : m < e.count /\ Plain(e.id, m)
    BY <1>1, <1>2 DEF Fresh
  <1>4. e.count \in Nat /\ Plain(e.id, e.count)
    BY <1>2 DEF Fresh, Events
  <1>. QED  BY <1>3, <1>4, PlainOnce

LEMMA Retags ==
  ASSUME NEW id \in Ids, NEW tag \in {"retry", "capdefer"}, NEW n \in Nat
  PROVE  /\ Retagged(id, tag, n) \in Ids /\ Retagged(id, tag, n).job = id.job
         /\ tag = "capdefer" => CapTagged(Retagged(id, tag, n))
         /\ \A m \in Nat : tag = "retry" /\ n # 0 /\ Plain(id, m) => Plain(Retagged(id, tag, n), n)
  <1> DEFINE Tags == {"retry", "capdefer"} \X Nat
             cuts == {i \in DOMAIN id.tags : id.tags[i][1] = tag}
             kept == IF cuts = {} THEN id.tags ELSE SubSeq(id.tags, 1, Min(cuts) - 1)
  <1>1. id.tags \in Seq(Tags) /\ id.job \in DOMAIN Size /\ id = [job |-> id.job, tags |-> id.tags]
    BY DEF Ids
  <1>2. Retagged(id, tag, n) = [job |-> id.job, tags |-> Append(kept, <<tag, n>>)]
    BY DEF Retagged, Id
  <1>3. cuts # {} => Min(cuts) \in 1 .. Len(id.tags)
    <2>1. cuts \in SUBSET (1 .. Len(id.tags)) /\ cuts \in SUBSET Nat
      BY <1>1
    <2> HIDE DEF cuts
    <2>. QED  BY <2>1, LeastNat
  <1>4. kept \in Seq(Tags)
    <2> HIDE DEF cuts, Tags
    <2>1. ASSUME NEW k \in 1 .. Len(id.tags) PROVE SubSeq(id.tags, 1, k - 1) \in Seq(Tags)
      BY <1>1
    <2>. QED  BY <1>1, <1>3, <2>1
  <1>5. <<tag, n>> \in Tags
    OBVIOUS
  <1> HIDE DEF kept, cuts
  <1>6. Append(kept, <<tag, n>>) \in Seq(Tags)
    <2> HIDE DEF Tags
    <2>. QED  BY <1>4, <1>5
  <1>7. Retagged(id, tag, n) \in Ids
    BY <1>1, <1>2, <1>6 DEF Ids
  <1>8. tag = "capdefer" => CapTagged(Retagged(id, tag, n))
    <2> DEFINE s == Append(kept, <<tag, n>>)
    <2>1. Len(kept) + 1 \in DOMAIN s /\ s[Len(kept) + 1] = <<tag, n>>
      BY <1>4
    <2>2. <<tag, n>> \in Range(s)
      BY <2>1 DEF Range
    <2>3. <<tag, n>>[1] = tag
      OBVIOUS
    <2>. QED  BY <1>2, <2>2, <2>3 DEF CapTagged
  <1>9. ASSUME NEW m \in Nat, tag = "retry", n # 0, Plain(id, m)
        PROVE  Plain(Retagged(id, tag, n), n)
    <2>1. kept = <<>>
      <3>1. CASE m = 0
        BY <1>9, <3>1 DEF Plain, kept, cuts
      <3>2. CASE m # 0
        <4>1. id.tags = <<<<"retry", m>>>>
          BY <1>9, <3>2 DEF Plain
        <4>2. cuts = {1}
          <5>1. DOMAIN <<<<"retry", m>>>> = {1} /\ <<<<"retry", m>>>>[1][1] = "retry"
            OBVIOUS
          <5>. QED  BY <1>9, <4>1, <5>1 DEF cuts
        <4>3. Min(cuts) = 1
          <5>1. Min({1}) \in {1}
            BY LeastNat
          <5>. QED  BY <4>2, <5>1
        <4>4. \A k : k = 0 => SubSeq(id.tags, 1, k) = <<>>
          BY <1>1
        <4>5. Min(cuts) - 1 = 0 /\ cuts # {}
          BY <4>2, <4>3
        <4>6. kept = SubSeq(id.tags, 1, Min(cuts) - 1)
          BY <4>5 DEF kept
        <4>. QED  BY <4>4, <4>5, <4>6
      <3>. QED  BY <3>1, <3>2
    <2>. QED  BY <1>2, <1>9, <2>1 DEF Plain
  <1>10. Retagged(id, tag, n).job = id.job
    BY <1>2
  <1> HIDE DEF Tags
  <1>11. \A m \in Nat : tag = "retry" /\ n # 0 /\ Plain(id, m) => Plain(Retagged(id, tag, n), n)
    BY <1>9
  <1>. QED  BY <1>7, <1>8, <1>10, <1>11

LEMMA BufferFacts ==
  ASSUME TypeOK, NEW a \in AllAgents
  PROVE  /\ buffer[a] \in Seq(Events) /\ seen[a] \in SUBSET Ids /\ arrived[a] \in 0 .. Len(Jobs[a])
         /\ now \in Nat /\ turn \in 0 .. Len(Agents) /\ turn \in Nat
         /\ active[a] \in SUBSET [id : Ids, endsAt : Nat] /\ IsFiniteSet(active[a])
         /\ \A r \in active[a] : r.id \in seen[a]
  <1>1. turn \in Nat
    BY AgentFacts DEF TypeOK
  <1>2. arrived[a] \in 0 .. Len(Jobs[a])
    <2>1. arrived[a] \in Nat /\ Len(Jobs[a]) \in Nat
      BY AgentFacts DEF TypeOK
    <2>. QED  BY <2>1 DEF TypeOK
  <1>. QED  BY <1>1, <1>2 DEF TypeOK, PodsTypeOK, Events

\* The event an agent looks at, and its buffer without it.
LEMMA LooksFacts ==
  ASSUME TypeOK, NEW a \in AllAgents, OneEachJob(buffer[a]), NEW e, Looks(a, e)
  PROVE  /\ turn > 0 /\ Agents[turn] = a /\ step = "drain"
         /\ e \in Events /\ e \in Range(buffer[a]) /\ e.observed + Window <= now
         /\ \A f \in Range(buffer[a]) : f.observed + Window <= now => e.stamp <= f.stamp
         /\ Kept(a) \in Seq(Events) /\ OneEachJob(Kept(a)) /\ Range(Kept(a)) = Range(buffer[a]) \ {e}
  <1> DEFINE b == buffer[a]
             m == NextReady(b)
  <1>1. b \in Seq(Events)
    BY BufferFacts
  <1>2. turn > 0 /\ Agents[turn] = a /\ step = "drain" /\ ReadyAt(b) # {} /\ e = b[m]
    BY DEF Looks, Is
  <1>3. /\ m \in ReadyAt(b) /\ m \in DOMAIN b
        /\ \A k \in ReadyAt(b) : b[m].stamp <= b[k].stamp
    <2> HIDE DEF b
    <2>. QED  BY <1>1, <1>2, NextIsReady
  <1>4. Kept(a) = RemoveAt(b, m)
    BY DEF Kept
  <1>5. OneEachJob(b)
    OBVIOUS
  <1> HIDE DEF b, m
  <1>6. Kept(a) \in Seq(Events) /\ OneEachJob(Kept(a)) /\ Range(Kept(a)) = Range(b) \ {b[m]}
    BY <1>1, <1>3, <1>4, <1>5, OneLess
  <1>7. e \in Events /\ e \in Range(b) /\ e.observed + Window <= now
    BY <1>1, <1>2, <1>3 DEF ReadyAt, Range
  <1>8. \A f \in Range(b) : f.observed + Window <= now => e.stamp <= f.stamp
    <2>1. SUFFICES ASSUME NEW f \in Range(b), f.observed + Window <= now PROVE e.stamp <= f.stamp
      OBVIOUS
    <2>2. PICK k \in DOMAIN b : f = b[k]
      BY DEF Range
    <2>3. k \in ReadyAt(b)
      BY <2>1, <2>2 DEF ReadyAt
    <2>. QED  BY <1>2, <1>3, <2>2, <2>3
  <1>. QED  BY <1>2, <1>6, <1>7, <1>8 DEF b

\* The retry of an event at the end of the buffer.
LEMMA RetryFacts ==
  ASSUME TypeOK, NEW a \in AllAgents, OneEachJob(buffer[a]), NEW e, Looks(a, e),
         NEW id \in Ids, id.job = e.id.job, NEW c \in Nat
  PROVE  LET b == WithRetry(a, e, id, c)
             x == Entry(id, now + 1, now + 1, c)
         IN  /\ x \in Events /\ b \in Seq(Events) /\ OneEachJob(b)
             /\ IF a \notin Kubernetes /\ id \in seen[a] THEN Range(b) = Range(buffer[a]) \ {e}
                ELSE Range(b) = (Range(buffer[a]) \ {e}) \cup {x}
  <1> DEFINE x == Entry(id, now + 1, now + 1, c)
  <1>1. x \in Events /\ x.id = id
    <2>1. now + 1 \in Nat /\ now + 1 \in Int
      BY BufferFacts
    <2>. QED  BY <2>1 DEF Entry, Events
  <1>2. /\ Kept(a) \in Seq(Events) /\ OneEachJob(Kept(a)) /\ Range(Kept(a)) = Range(buffer[a]) \ {e}
        /\ e \in Range(buffer[a])
    BY LooksFacts
  <1> HIDE DEF x
  <1>3. \A y \in Range(Kept(a)) : y.id.job # x.id.job
    <2>1. SUFFICES ASSUME NEW y \in Range(buffer[a]), y # e, y.id.job = e.id.job PROVE FALSE
      BY <1>1, <1>2
    <2>2. PICK i \in DOMAIN buffer[a], k \in DOMAIN buffer[a] : y = buffer[a][i] /\ e = buffer[a][k]
      BY <1>2 DEF Range
    <2>. QED  BY <2>1, <2>2 DEF OneEachJob
  <1>4. /\ Append(Kept(a), x) \in Seq(Events) /\ OneEachJob(Append(Kept(a), x))
        /\ Range(Append(Kept(a), x)) = Range(Kept(a)) \cup {x}
    BY <1>1, <1>2, <1>3, OneMore
  <1>5. WithRetry(a, e, id, c) = IF a \notin Kubernetes /\ id \in seen[a] THEN Kept(a) ELSE Append(Kept(a), x)
    BY DEF WithRetry, x
  <1>. QED  BY <1>1, <1>2, <1>4, <1>5 DEF x

-----------------------------------------------------------------------------
(* One look at an event.                                                     *)

Sifts(a, e) == DropDuplicate(a, e) \/ Refuse(a, e) \/ Defer(a, e) \/ HoldBack(a, e) \/ Admit(a, e)

\* What becomes of the event: nothing is left of it, or its retry is.
Settled(a, e) == Range(buffer'[a]) = Range(buffer[a]) \ {e}
Requeued(a, e, id, c) ==
  \/ a \notin Kubernetes /\ id \in seen[a] /\ Settled(a, e)
  \/ Range(buffer'[a]) = (Range(buffer[a]) \ {e}) \cup {Entry(id, now + 1, now + 1, c)}

LEMMA SiftFacts ==
  ASSUME TypeOK, NEW a \in AllAgents, OneEachJob(buffer[a]), NEW e, Sifts(a, e)
  PROVE  /\ Looks(a, e)
         /\ UNCHANGED <<now, phase, turn, step, headroom, arrived, prevShort, holdUntil, capped,
                        already, reported, recoveredAt>>
         /\ buffer' \in [AllAgents -> Seq(Events)] /\ OneEachJob(buffer'[a])
         /\ \A b \in AllAgents \ {a} : buffer'[b] = buffer[b]
         /\ seen' \in [AllAgents -> SUBSET Ids]
         /\ \A b \in AllAgents : seen'[b] = IF b = a THEN seen[b] \cup {e.id} ELSE seen[b]
         /\ \/ e.id \in seen[a] /\ Settled(a, e) /\ UNCHANGED <<admitted, refused>>
            \/ /\ Settled(a, e) /\ refused' = refused \cup {e.id.job} /\ admitted' = admitted
            \/ /\ Requeued(a, e, Retagged(e.id, "capdefer", e.count + 1), e.count)
               /\ UNCHANGED <<admitted, refused>>
            \/ /\ Requeued(a, e, Retagged(e.id, "retry", e.count + 1), e.count + 1)
               /\ UNCHANGED <<admitted, refused>>
            \/ /\ Admit(a, e) /\ Settled(a, e) /\ admitted' = admitted \cup {e.id.job}
               /\ refused' = refused
         /\ Admit(a, e) \/ UNCHANGED <<podVars, active, accepted, admitted>>
  <1>1. Looks(a, e)
    BY DEF Sifts, DropDuplicate, Refuse, Defer, HoldBack, Admit
  <1>2. /\ e \in Events /\ Kept(a) \in Seq(Events) /\ OneEachJob(Kept(a))
        /\ Range(Kept(a)) = Range(buffer[a]) \ {e}
    BY <1>1, LooksFacts
  <1>3. e.id \in Ids /\ e.count \in Nat /\ e.count + 1 \in Nat
    BY <1>2 DEF Events
  <1>4. \A tag \in {"retry", "capdefer"} :
           Retagged(e.id, tag, e.count + 1) \in Ids /\ Retagged(e.id, tag, e.count + 1).job = e.id.job
    BY <1>3, Retags
  <1>5. buffer \in [AllAgents -> Seq(Events)] /\ seen \in [AllAgents -> SUBSET Ids]
    BY DEF TypeOK, Events
  <1>6. ASSUME NEW b \in Seq(Events), Look(a, e, b)
        PROVE  /\ UNCHANGED <<now, phase, turn, step, headroom, arrived, prevShort, holdUntil, capped,
                              already, reported, recoveredAt>>
               /\ buffer' \in [AllAgents -> Seq(Events)] /\ buffer'[a] = b
               /\ \A c \in AllAgents \ {a} : buffer'[c] = buffer[c]
               /\ seen' \in [AllAgents -> SUBSET Ids]
               /\ \A c \in AllAgents : seen'[c] = IF c = a THEN seen[c] \cup {e.id} ELSE seen[c]
    <2>1. buffer' = [buffer EXCEPT ![a] = b] /\ seen' = [seen EXCEPT ![a] = @ \cup {e.id}]
      BY <1>6 DEF Look
    <2>2. UNCHANGED <<now, phase, turn, step, headroom, arrived, prevShort, holdUntil, capped,
                      already, reported, recoveredAt>>
      BY <1>6 DEF Look
    <2>. QED  BY <1>3, <1>5, <2>1, <2>2
  <1>7. CASE DropDuplicate(a, e)
    <2>1. e.id \in seen[a] /\ Look(a, e, Kept(a)) /\ UNCHANGED <<podVars, active, accepted, admitted, refused>>
      BY <1>7 DEF DropDuplicate, IsNew
    <2>. QED  BY <1>1, <1>2, <1>6, <2>1 DEF Settled
  <1>8. CASE Refuse(a, e)
    <2>1. /\ Look(a, e, Kept(a)) /\ UNCHANGED <<podVars, active, accepted, admitted>>
          /\ refused' = refused \cup {e.id.job}
      BY <1>8 DEF Refuse
    <2>. QED  BY <1>1, <1>2, <1>6, <2>1 DEF Settled
  <1>9. CASE Defer(a, e)
    <2> DEFINE id == Retagged(e.id, "capdefer", e.count + 1)
               b == WithRetry(a, e, id, e.count)
    <2>1. Look(a, e, b) /\ UNCHANGED <<podVars, active, accepted, admitted, refused>>
      BY <1>9 DEF Defer
    <2>2. id \in Ids /\ id.job = e.id.job
      BY <1>4
    <2> HIDE DEF id
    <2>3. /\ b \in Seq(Events) /\ OneEachJob(b)
          /\ IF a \notin Kubernetes /\ id \in seen[a] THEN Range(b) = Range(buffer[a]) \ {e}
             ELSE Range(b) = (Range(buffer[a]) \ {e}) \cup {Entry(id, now + 1, now + 1, e.count)}
      BY <1>1, <1>3, <2>2, RetryFacts
    <2> HIDE DEF b
    <2>4. buffer'[a] = b
      BY <1>6, <2>1, <2>3
    <2>5. Requeued(a, e, id, e.count)
      BY <2>3, <2>4 DEF Requeued, Settled
    <2>. QED  BY <1>1, <1>6, <2>1, <2>3, <2>4, <2>5 DEF id
  <1>10. CASE HoldBack(a, e)
    <2> DEFINE id == Retagged(e.id, "retry", e.count + 1)
               b == WithRetry(a, e, id, e.count + 1)
    <2>1. Look(a, e, b) /\ UNCHANGED <<podVars, active, accepted, admitted, refused>>
      BY <1>10 DEF HoldBack
    <2>2. id \in Ids /\ id.job = e.id.job
      BY <1>4
    <2> HIDE DEF id
    <2>3. /\ b \in Seq(Events) /\ OneEachJob(b)
          /\ IF a \notin Kubernetes /\ id \in seen[a] THEN Range(b) = Range(buffer[a]) \ {e}
             ELSE Range(b) = (Range(buffer[a]) \ {e}) \cup {Entry(id, now + 1, now + 1, e.count + 1)}
      BY <1>1, <1>3, <2>2, RetryFacts
    <2> HIDE DEF b
    <2>4. buffer'[a] = b
      BY <1>6, <2>1, <2>3
    <2>5. Requeued(a, e, id, e.count + 1)
      BY <2>3, <2>4 DEF Requeued, Settled
    <2>. QED  BY <1>1, <1>6, <2>1, <2>3, <2>4, <2>5 DEF id
  <1>11. CASE Admit(a, e)
    <2>1. /\ Look(a, e, Kept(a)) /\ admitted' = admitted \cup {e.id.job} /\ refused' = refused
      BY <1>11 DEF Admit
    <2>. QED  BY <1>1, <1>2, <1>6, <1>11, <2>1 DEF Settled
  <1>. QED  BY <1>7, <1>8, <1>9, <1>10, <1>11 DEF Sifts

LEMMA ObservedFacts ==
  ASSUME TypeOK, NEW a \in AllAgents
  PROVE  /\ Observed(a) \subseteq Range(Jobs[a])
         /\ \A b \in AllAgents : a # b => Observed(a) \cap Observed(b) = {}
         /\ \A i \in 1 .. Len(Jobs[a]) : Jobs[a][i] \in Observed(a) => i \in 1 .. arrived[a]
         /\ Observed(a) \subseteq DOMAIN Size
  <1>1. \A b \in AllAgents : Observed(b) \subseteq Range(Jobs[b])
    <2>1. SUFFICES ASSUME NEW b \in AllAgents, NEW i \in 1 .. arrived[b] PROVE Jobs[b][i] \in Range(Jobs[b])
      BY DEF Observed
    <2>2. arrived[b] \in 0 .. Len(Jobs[b]) /\ Jobs[b] \in Seq(DOMAIN Size)
      BY BufferFacts, AgentFacts
    <2>3. i \in DOMAIN Jobs[b]
      BY <2>2
    <2>. QED  BY <2>3 DEF Range
  <1>2. \A i \in 1 .. Len(Jobs[a]) : Jobs[a][i] \in Observed(a) => i \in 1 .. arrived[a]
    <2>1. SUFFICES ASSUME NEW i \in 1 .. Len(Jobs[a]), NEW k \in 1 .. arrived[a], Jobs[a][i] = Jobs[a][k]
                   PROVE  i \in 1 .. arrived[a]
      BY DEF Observed
    <2>2. arrived[a] \in 0 .. Len(Jobs[a]) /\ Len(Jobs[a]) \in Nat
      BY BufferFacts, AgentFacts
    <2>3. k \in 1 .. Len(Jobs[a])
      BY <2>2
    <2>. QED  BY <2>1, <2>3, AgentFacts
  <1>3. Range(Jobs[a]) \subseteq DOMAIN Size
    BY AgentFacts DEF Range
  <1>. QED  BY <1>1, <1>2, <1>3, AgentFacts

LEMMA SiftPlaces ==
  ASSUME TypeOK, PlacesInv, NEW a \in AllAgents, NEW e, Sifts(a, e)
  PROVE  PlacesInv' /\ e.id.job \in Observed(a) \ (admitted \cup refused)
  <1> DEFINE j == e.id.job
  <1>1. OneEachJob(buffer[a])
    BY DEF PlacesInv
  <1>2. /\ Looks(a, e) /\ arrived' = arrived
        /\ buffer' \in [AllAgents -> Seq(Events)] /\ OneEachJob(buffer'[a])
        /\ \A b \in AllAgents \ {a} : buffer'[b] = buffer[b]
        /\ \A b \in AllAgents : seen'[b] = IF b = a THEN seen[b] \cup {e.id} ELSE seen[b]
    BY <1>1, SiftFacts
  <1>3. e \in Events /\ e \in Range(buffer[a]) /\ e.id \in Ids /\ e.count \in Nat
    BY <1>1, <1>2, LooksFacts DEF Events
  <1>4. j \in Observed(a) /\ j \notin admitted \cup refused
    BY <1>3 DEF PlacesInv, Waits
  <1>5. \A b \in AllAgents : Observed(b)' = Observed(b)
    BY <1>2 DEF Observed
  <1>6. ASSUME NEW b \in AllAgents, NEW i \in DOMAIN Size, b # a \/ i # j
        PROVE  DeferredBefore(b, i)' <=> DeferredBefore(b, i)
    <2>1. seen'[b] = IF b = a THEN seen[b] \cup {e.id} ELSE seen[b]
      BY <1>2
    <2>. QED  BY <1>6, <2>1 DEF DeferredBefore
  <1>7. DeferredBefore(a, j) => DeferredBefore(a, j)'
    BY <1>2 DEF DeferredBefore
  <1>8. \A f \in Range(buffer[a]) \ {e} : f.id.job # j
    <2>1. SUFFICES ASSUME NEW f \in Range(buffer[a]), f # e, f.id.job = j PROVE FALSE
      OBVIOUS
    <2>2. PICK i \in DOMAIN buffer[a], k \in DOMAIN buffer[a] : f = buffer[a][i] /\ e = buffer[a][k]
      BY <1>3 DEF Range
    <2>. QED  BY <1>1, <2>1, <2>2 DEF OneEachJob
  \* What the step leaves in the buffer of the agent, beside the retry.
  <1>9. ASSUME NEW b \in AllAgents, NEW f \in Range(buffer[b]), b # a \/ f # e
        PROVE  /\ f.id.job \in Observed(b) \ (admitted \cup refused) /\ f.id.job # j
               /\ DeferredBefore(b, f.id.job)' \/ Fresh(b, f)'
    <2>1. f.id.job \in Observed(b) \ (admitted \cup refused)
      BY DEF PlacesInv, Waits
    <2>2. f.id.job # j
      BY <1>4, <1>8, <1>9, <2>1, ObservedFacts
    <2>3. f.id.job \in DOMAIN Size
      BY <2>1, ObservedFacts
    <2>4. DeferredBefore(b, f.id.job) \/ Fresh(b, f)
      BY DEF PlacesInv
    <2>5. Fresh(b, f) => Fresh(b, f)'
      BY <1>2, <2>2 DEF Fresh
    <2>. QED  BY <1>6, <2>1, <2>2, <2>3, <2>4, <2>5
  <1>10. \A b \in AllAgents : \A id \in seen'[b] : id.job \in Observed(b)
    BY <1>2, <1>4 DEF PlacesInv
  \* The other jobs stay where they are.
  <1>11. ASSUME NEW b \in AllAgents, NEW i \in Observed(b), b # a \/ i # j,
                \A f \in Range(buffer[b]) : b # a \/ f # e => f \in Range(buffer'[b]),
                admitted \subseteq admitted', refused \subseteq refused'
         PROVE  DeferredBefore(b, i)' \/ i \in admitted' \cup refused' \cup Waits(b)'
    <2>1. DeferredBefore(b, i) \/ i \in admitted \cup refused \cup Waits(b)
      BY DEF PlacesInv
    <2>2. i \in Waits(b) => i \in Waits(b)'
      BY <1>11 DEF Waits
    <2>3. i \in DOMAIN Size
      BY ObservedFacts
    <2>. QED  BY <1>6, <1>11, <2>1, <2>2, <2>3
  <1>12. ASSUME Range(buffer'[a]) = Range(buffer[a]) \ {e}, admitted \subseteq admitted', refused \subseteq refused',
                admitted' \cup refused' \subseteq admitted \cup refused \cup {j}, admitted' \cap refused' = {},
                DeferredBefore(a, j)' \/ j \in admitted' \cup refused'
         PROVE  PlacesInv'
    <2>1. ASSUME NEW b \in AllAgents
          PROVE  /\ OneEachJob(buffer'[b])
                 /\ Waits(b)' \subseteq Observed(b)' \ (admitted' \cup refused')
                 /\ \A id \in seen'[b] : id.job \in Observed(b)'
                 /\ \A i \in Observed(b)' : DeferredBefore(b, i)' \/ i \in admitted' \cup refused' \cup Waits(b)'
                 /\ \A f \in Range(buffer'[b]) : DeferredBefore(b, f.id.job)' \/ Fresh(b, f)'
      <3>1. \A f \in Range(buffer'[b]) : f \in Range(buffer[b]) /\ (b # a \/ f # e)
        BY <1>2, <1>12
      <3>2. OneEachJob(buffer'[b])
        BY <1>2 DEF PlacesInv
      <3>3. Waits(b)' \subseteq Observed(b) \ (admitted' \cup refused')
        BY <1>9, <1>12, <3>1 DEF Waits
      <3>4. \A i \in Observed(b) : DeferredBefore(b, i)' \/ i \in admitted' \cup refused' \cup Waits(b)'
        <4>1. \A f \in Range(buffer[b]) : b # a \/ f # e => f \in Range(buffer'[b])
          BY <1>2, <1>12
        <4>2. SUFFICES ASSUME NEW i \in Observed(b), b # a \/ i # j
                       PROVE  DeferredBefore(b, i)' \/ i \in admitted' \cup refused' \cup Waits(b)'
          BY <1>12
        <4>. QED  BY <1>11, <1>12, <4>1, <4>2
      <3>5. \A f \in Range(buffer'[b]) : DeferredBefore(b, f.id.job)' \/ Fresh(b, f)'
        BY <1>9, <3>1
      <3>. QED  BY <1>5, <1>10, <3>2, <3>3, <3>4, <3>5
    <2>2. \A i \in admitted' \cup refused' : \E b \in AllAgents : i \in Observed(b)'
      BY <1>4, <1>5, <1>12 DEF PlacesInv
    <2>. QED  BY <1>12, <2>1, <2>2 DEF PlacesInv
  <1>13. ASSUME NEW x \in Events, x.id.job = j, Range(buffer'[a]) = (Range(buffer[a]) \ {e}) \cup {x},
                UNCHANGED <<admitted, refused>>, DeferredBefore(a, j)' \/ Fresh(a, x)'
         PROVE  PlacesInv'
    <2>1. ASSUME NEW b \in AllAgents
          PROVE  /\ OneEachJob(buffer'[b])
                 /\ Waits(b)' \subseteq Observed(b)' \ (admitted' \cup refused')
                 /\ \A id \in seen'[b] : id.job \in Observed(b)'
                 /\ \A i \in Observed(b)' : DeferredBefore(b, i)' \/ i \in admitted' \cup refused' \cup Waits(b)'
                 /\ \A f \in Range(buffer'[b]) : DeferredBefore(b, f.id.job)' \/ Fresh(b, f)'
      <3>1. \A f \in Range(buffer'[b]) : (f \in Range(buffer[b]) /\ (b # a \/ f # e)) \/ (b = a /\ f = x)
        BY <1>2, <1>13
      <3>2. OneEachJob(buffer'[b])
        BY <1>2 DEF PlacesInv
      <3>3. Waits(b)' \subseteq Observed(b) \ (admitted' \cup refused')
        BY <1>4, <1>9, <1>13, <3>1 DEF Waits
      <3>4. \A i \in Observed(b) : DeferredBefore(b, i)' \/ i \in admitted' \cup refused' \cup Waits(b)'
        <4>1. \A f \in Range(buffer[b]) : b # a \/ f # e => f \in Range(buffer'[b])
          BY <1>2, <1>13
        <4>2. j \in Waits(a)'
          BY <1>13 DEF Waits
        <4>3. SUFFICES ASSUME NEW i \in Observed(b), b # a \/ i # j
                       PROVE  DeferredBefore(b, i)' \/ i \in admitted' \cup refused' \cup Waits(b)'
          BY <4>2
        <4>. QED  BY <1>11, <1>13, <4>1, <4>3
      <3>5. \A f \in Range(buffer'[b]) : DeferredBefore(b, f.id.job)' \/ Fresh(b, f)'
        BY <1>9, <1>13, <3>1
      <3>. QED  BY <1>5, <1>10, <3>2, <3>3, <3>4, <3>5
    <2>2. /\ \A i \in admitted' \cup refused' : \E b \in AllAgents : i \in Observed(b)'
          /\ admitted' \cap refused' = {}
      BY <1>5, <1>13 DEF PlacesInv
    <2>. QED  BY <2>1, <2>2 DEF PlacesInv
  <1>14. DeferredBefore(a, j) \/ Fresh(a, e)
    BY <1>3 DEF PlacesInv
  <1>15. e.id \in seen'[a]
    BY <1>2
  <1>16. CASE e.id \in seen[a] /\ Settled(a, e) /\ UNCHANGED <<admitted, refused>>
    <2>1. DeferredBefore(a, j)
      BY <1>3, <1>14, <1>16, FreshUnseen
    <2>2. admitted \cap refused = {}
      BY DEF PlacesInv
    <2>. QED  BY <1>4, <1>7, <1>12, <1>16, <2>1, <2>2 DEF Settled
  <1>17. CASE Settled(a, e) /\ refused' = refused \cup {j} /\ admitted' = admitted
    <2>1. admitted \cap refused = {}
      BY DEF PlacesInv
    <2>. QED  BY <1>4, <1>12, <1>17, <2>1 DEF Settled
  <1>18. CASE Settled(a, e) /\ admitted' = admitted \cup {j} /\ refused' = refused
    <2>1. admitted \cap refused = {}
      BY DEF PlacesInv
    <2>. QED  BY <1>4, <1>12, <1>18, <2>1 DEF Settled
  <1>19. \A id \in Ids, c \in Nat : /\ Entry(id, now + 1, now + 1, c) \in Events
                                    /\ Entry(id, now + 1, now + 1, c).id = id
                                    /\ Entry(id, now + 1, now + 1, c).count = c
    <2>1. now + 1 \in Nat /\ now + 1 \in Int
      BY BufferFacts
    <2>. QED  BY <2>1 DEF Entry, Events
  <1>20. CASE /\ Requeued(a, e, Retagged(e.id, "capdefer", e.count + 1), e.count)
              /\ UNCHANGED <<admitted, refused>>
    <2>0. PICK id, x : /\ id = Retagged(e.id, "capdefer", e.count + 1)
                       /\ x = Entry(id, now + 1, now + 1, e.count)
      OBVIOUS
    <2>1. id \in Ids /\ id.job = j /\ CapTagged(id)
      <3>1. e.count + 1 \in Nat
        BY <1>3
      <3>. QED  BY <1>3, <2>0, <3>1, Retags
    <2>2. x \in Events /\ x.id = id
      BY <1>3, <1>19, <2>0, <2>1
    <2>3. CASE id \in seen[a] /\ Settled(a, e)
      <3>1. DeferredBefore(a, j)
        BY <2>1, <2>3 DEF DeferredBefore, CapTagged
      <3>2. admitted \cap refused = {}
        BY DEF PlacesInv
      <3>. QED  BY <1>4, <1>7, <1>12, <1>20, <2>3, <3>1, <3>2 DEF Settled
    <2>4. CASE Range(buffer'[a]) = (Range(buffer[a]) \ {e}) \cup {x}
      <3>1. Fresh(a, x)'
        BY <2>1, <2>2 DEF Fresh
      <3>. QED  BY <1>4, <1>13, <1>20, <2>1, <2>2, <2>4, <3>1
    <2>. QED  BY <1>4, <1>20, <2>0, <2>3, <2>4 DEF Requeued
  <1>21. CASE /\ Requeued(a, e, Retagged(e.id, "retry", e.count + 1), e.count + 1)
              /\ UNCHANGED <<admitted, refused>>
    <2>0. PICK id, x : /\ id = Retagged(e.id, "retry", e.count + 1)
                       /\ x = Entry(id, now + 1, now + 1, e.count + 1)
      OBVIOUS
    <2>1. e.count + 1 \in Nat /\ e.count + 1 # 0 /\ e.count < e.count + 1
      BY <1>3
    <2>2. id \in Ids /\ id.job = j /\ (Plain(e.id, e.count) => Plain(id, e.count + 1))
      BY <1>3, <2>0, <2>1, Retags
    <2>3. x \in Events /\ x.id = id /\ x.count = e.count + 1
      BY <1>19, <2>0, <2>1, <2>2
    <2>4. DeferredBefore(a, j)' \/ (Plain(e.id, e.count) /\ Fresh(a, e) /\ ~CapTagged(e.id))
      <3>1. CapTagged(e.id) => DeferredBefore(a, j)'
        BY <1>15 DEF DeferredBefore, CapTagged
      <3>. QED  BY <1>7, <1>14, <3>1 DEF Fresh
    <2>5. ASSUME ~DeferredBefore(a, j)'
          PROVE  id \notin seen[a] /\ Fresh(a, x)'
      <3>1. Plain(id, e.count + 1)
        BY <2>2, <2>4, <2>5
      <3>2. \A i \in seen'[a] : i.job = j => \E m \in Nat : m < e.count + 1 /\ Plain(i, m)
        <4>1. SUFFICES ASSUME NEW i \in seen'[a], i.job = j PROVE \E m \in Nat : m < e.count + 1 /\ Plain(i, m)
          OBVIOUS
        <4>2. CASE i = e.id
          BY <1>3, <2>1, <2>4, <2>5, <4>2
        <4>3. CASE i \in seen[a]
          <5>1. PICK m \in Nat : m < e.count /\ Plain(i, m)
            BY <2>4, <2>5, <4>1, <4>3 DEF Fresh
          <5>2. m < e.count + 1
            BY <1>3, <5>1
          <5>. QED  BY <5>1, <5>2
        <4>. QED  BY <1>2, <4>1, <4>2, <4>3
      <3>3. Fresh(a, x)'
        BY <2>2, <2>3, <3>1, <3>2 DEF Fresh
      <3>4. id \notin seen[a]
        <4>1. SUFFICES ASSUME id \in seen[a] PROVE FALSE
          OBVIOUS
        <4>2. PICK m \in Nat : m < e.count + 1 /\ Plain(id, m)
          BY <1>2, <2>2, <3>2, <4>1
        <4>3. m = e.count + 1
          BY <2>1, <3>1, <4>2, PlainOnce
        <4>. QED  BY <2>1, <4>2, <4>3
      <3>. QED  BY <3>3, <3>4
    <2>6. CASE id \in seen[a] /\ Settled(a, e)
      <3>1. DeferredBefore(a, j)'
        BY <2>5, <2>6
      <3>2. admitted \cap refused = {}
        BY DEF PlacesInv
      <3>. QED  BY <1>4, <1>12, <1>21, <2>6, <3>1, <3>2 DEF Settled
    <2>7. CASE Range(buffer'[a]) = (Range(buffer[a]) \ {e}) \cup {x}
      BY <1>4, <1>13, <1>21, <2>2, <2>3, <2>5, <2>7
    <2>. QED  BY <1>4, <1>21, <2>0, <2>6, <2>7 DEF Requeued
  <1>. QED
    <2>1. \/ e.id \in seen[a] /\ Settled(a, e) /\ UNCHANGED <<admitted, refused>>
          \/ Settled(a, e) /\ refused' = refused \cup {j} /\ admitted' = admitted
          \/ /\ Requeued(a, e, Retagged(e.id, "capdefer", e.count + 1), e.count)
             /\ UNCHANGED <<admitted, refused>>
          \/ /\ Requeued(a, e, Retagged(e.id, "retry", e.count + 1), e.count + 1)
             /\ UNCHANGED <<admitted, refused>>
          \/ Settled(a, e) /\ admitted' = admitted \cup {j} /\ refused' = refused
      BY <1>1, SiftFacts
    <2>. QED  BY <1>4, <1>16, <1>17, <1>18, <1>20, <1>21, <2>1

LEMMA Listed ==
  ASSUME NEW E, NEW n \in Nat, NEW f \in [1 .. n -> E]
  PROVE  f \in Seq(E)
  OBVIOUS

\* Two runs of events, none of the first of a job of the second.
LEMMA Arrivals ==
  ASSUME NEW E, NEW b \in Seq(E), NEW s \in Seq(E), OneEachJob(b), OneEachJob(s),
         \A x \in Range(b), y \in Range(s) : x.id.job # y.id.job
  PROVE  b \o s \in Seq(E) /\ OneEachJob(b \o s) /\ Range(b \o s) = Range(b) \cup Range(s)
  <1> DEFINE t == b \o s
             m == Len(b)
             n == Len(s)
  <1>1. /\ m \in Nat /\ n \in Nat /\ DOMAIN b = 1 .. m /\ DOMAIN s = 1 .. n /\ t \in Seq(E)
        /\ DOMAIN t = 1 .. m + n
        /\ \A k \in 1 .. m + n : t[k] = IF k <= m THEN b[k] ELSE s[k - m]
    <2>1. t \in Seq(E) /\ Len(t) = m + n
      OBVIOUS
    <2>2. m \in Nat /\ n \in Nat /\ DOMAIN b = 1 .. m /\ DOMAIN s = 1 .. n
      OBVIOUS
    <2>3. \A k \in 1 .. m + n : t[k] = IF k <= m THEN b[k] ELSE s[k - m]
      OBVIOUS
    <2> HIDE DEF t, m, n
    <2>. QED  BY <2>1, <2>2, <2>3
  <1> HIDE DEF t, m, n
  <1>2. /\ \A k \in 1 .. m : k \in 1 .. m + n /\ t[k] = b[k] /\ b[k] \in Range(b)
        /\ \A k \in 1 .. n : m + k \in 1 .. m + n /\ t[m + k] = s[k] /\ s[k] \in Range(s)
        /\ \A k \in 1 .. m + n : k \in 1 .. m \/ \E l \in 1 .. n : k = m + l
    <2>1. \A k \in 1 .. m : k \in 1 .. m + n /\ t[k] = b[k]
      BY <1>1
    <2>2. ASSUME NEW k \in 1 .. n PROVE m + k \in 1 .. m + n /\ t[m + k] = s[k]
      <3>1. m + k \in 1 .. m + n /\ ~(m + k <= m) /\ (m + k) - m = k
        BY <1>1
      <3>. QED  BY <1>1, <3>1
    <2>3. ASSUME NEW k \in 1 .. m + n, k \notin 1 .. m PROVE \E l \in 1 .. n : k = m + l
      <3>1. k - m \in 1 .. n /\ k = m + (k - m)
        BY <1>1, <2>3
      <3>. QED  BY <3>1
    <2>4. \A k \in 1 .. m : b[k] \in Range(b)
      BY <1>1 DEF Range
    <2>5. \A k \in 1 .. n : s[k] \in Range(s)
      BY <1>1 DEF Range
    <2>. QED  BY <2>1, <2>2, <2>3, <2>4, <2>5
  <1> DEFINE I == 1 .. m
             J == 1 .. n
             K == 1 .. m + n
  <1>3. DOMAIN b = I /\ DOMAIN s = J /\ DOMAIN t = K
    BY <1>1
  <1>4. /\ \A k \in I : k \in K /\ t[k] = b[k] /\ b[k] \in Range(b)
        /\ \A k \in J : m + k \in K /\ t[m + k] = s[k] /\ s[k] \in Range(s)
        /\ \A k \in K : k \in I \/ \E l \in J : k = m + l
    BY <1>2
  <1> HIDE DEF I, J, K
  <1>5. OneEachJob(t)
    <2>1. SUFFICES ASSUME NEW k \in K, NEW l \in K, t[k].id.job = t[l].id.job PROVE k = l
      BY <1>3 DEF OneEachJob
    <2>2. CASE k \in I /\ l \in I
      <3>1. b[k].id.job = b[l].id.job
        BY <1>4, <2>1, <2>2
      <3>. QED  BY <1>3, <2>2, <3>1 DEF OneEachJob
    <2>3. CASE k \notin I /\ l \notin I
      <3>1. PICK i \in J, o \in J : k = m + i /\ l = m + o
        BY <1>4, <2>3
      <3>2. s[i].id.job = s[o].id.job
        BY <1>4, <2>1, <3>1
      <3>3. i = o
        BY <1>3, <3>2 DEF OneEachJob
      <3>. QED  BY <3>1, <3>3
    <2>4. CASE k \in I /\ l \notin I
      <3>1. PICK o \in J : l = m + o
        BY <1>4, <2>4
      <3>. QED  BY <1>4, <2>1, <2>4, <3>1
    <2>5. CASE k \notin I /\ l \in I
      <3>1. PICK o \in J : k = m + o
        BY <1>4, <2>5
      <3>. QED  BY <1>4, <2>1, <2>5, <3>1
    <2>. QED  BY <2>2, <2>3, <2>4, <2>5
  <1>6. Range(t) = Range(b) \cup Range(s)
    <2>1. \A y \in Range(t) : y \in Range(b) \cup Range(s)
      BY <1>3, <1>4 DEF Range
    <2>2. \A y \in Range(b) : y \in Range(t)
      BY <1>3, <1>4 DEF Range
    <2>3. \A y \in Range(s) : y \in Range(t)
      BY <1>3, <1>4 DEF Range
    <2>. QED  BY <2>1, <2>2, <2>3
  <1>. QED  BY <1>1, <1>5, <1>6 DEF t

\* The jobs that arrive are new to every agent.
LEMMA BeginPlaces ==
  ASSUME TypeOK, PlacesInv, NEW a \in AllAgents, BeginAgent(a)
  PROVE  /\ PlacesInv'
         /\ buffer' \in [AllAgents -> Seq(Events)] /\ arrived' \in [AllAgents -> Nat]
         /\ \A b \in AllAgents : arrived'[b] <= Len(Jobs[b])
  <1>0. PICK n \in 0 .. Burst : \E jitter \in [1 .. n -> Jitters] :
          /\ arrived[a] + n <= Len(Jobs[a]) /\ arrived' = [arrived EXCEPT ![a] = @ + n]
          /\ buffer' = [buffer EXCEPT ![a] = @ \o [i \in 1 .. n |->
                    Entry(Id(Jobs[a][arrived[a] + i], <<>>), now, now + jitter[i], 0)]]
    BY DEF BeginAgent
  <1>1. PICK jitter \in [1 .. n -> Jitters] :
          /\ arrived[a] + n <= Len(Jobs[a]) /\ arrived' = [arrived EXCEPT ![a] = @ + n]
          /\ buffer' = [buffer EXCEPT ![a] = @ \o [i \in 1 .. n |->
                    Entry(Id(Jobs[a][arrived[a] + i], <<>>), now, now + jitter[i], 0)]]
    BY <1>0
  <1> DEFINE job(i) == Jobs[a][arrived[a] + i]
             s == [i \in 1 .. n |-> Entry(Id(job(i), <<>>), now, now + jitter[i], 0)]
  <1>2. /\ n \in Nat /\ arrived \in [AllAgents -> Nat] /\ Len(Jobs[a]) \in Nat
        /\ \A b \in AllAgents : arrived[b] <= Len(Jobs[b])
        /\ Jobs[a] \in Seq(DOMAIN Size) /\ buffer \in [AllAgents -> Seq(Events)] /\ now \in Nat
        /\ \A i \in 1 .. n : jitter[i] \in Int
    <2>1. Burst \in Nat /\ Jitters \subseteq Int /\ Jobs[a] \in Seq(DOMAIN Size)
      BY AgentFacts
    <2>2. buffer \in [AllAgents -> Seq(Events)]
      BY DEF TypeOK, Events
    <2>3. arrived \in [AllAgents -> Nat] /\ \A b \in AllAgents : arrived[b] <= Len(Jobs[b])
      BY DEF TypeOK
    <2>4. now \in Nat /\ Len(Jobs[a]) \in Nat
      BY <2>1, BufferFacts
    <2>5. n \in Nat
      <3>1. n \in 0 .. Burst
        BY <1>0
      <3>. QED  BY <2>1, <3>1
    <2>6. \A i \in 1 .. n : jitter[i] \in Int
      <3>1. jitter \in [1 .. n -> Jitters]
        BY <1>1
      <3>. QED  BY <2>1, <3>1
    <2>. QED  BY <2>1, <2>2, <2>3, <2>4, <2>5, <2>6
  <1>3. ASSUME NEW i \in 1 .. n
        PROVE  /\ arrived[a] + i \in 1 .. Len(Jobs[a]) /\ arrived[a] + i \notin 1 .. arrived[a]
               /\ job(i) \in DOMAIN Size /\ job(i) \in Range(Jobs[a]) /\ job(i) \notin Observed(a)
    <2>1. arrived[a] + i \in 1 .. Len(Jobs[a]) /\ arrived[a] + i \notin 1 .. arrived[a]
      <3>1. arrived[a] \in Nat /\ arrived[a] + n <= Len(Jobs[a])
        BY <1>1, <1>2
      <3>. QED  BY <1>2, <3>1
    <2>2. job(i) \in DOMAIN Size /\ job(i) \in Range(Jobs[a])
      BY <1>2, <2>1 DEF Range
    <2>. QED  BY <2>1, <2>2, ObservedFacts
  <1>4. \A i, k \in 1 .. n : job(i) = job(k) => i = k
    <2>1. SUFFICES ASSUME NEW i \in 1 .. n, NEW k \in 1 .. n, job(i) = job(k) PROVE i = k
      OBVIOUS
    <2>2. arrived[a] + i = arrived[a] + k
      BY <1>3, <2>1, AgentFacts
    <2>. QED  BY <1>2, <2>2
  <1> HIDE DEF job
  <1>5. ASSUME NEW i \in 1 .. n
        PROVE  s[i] \in Events /\ s[i].id = Id(job(i), <<>>) /\ s[i].id.job = job(i)
               /\ s[i].id.tags = <<>> /\ s[i].count = 0
    <2>1. now + jitter[i] \in Int /\ now \in Nat
      BY <1>2
    <2>2. Id(job(i), <<>>) \in Ids
      BY <1>3 DEF Ids, Id
    <2>. QED  BY <2>1, <2>2 DEF Entry, Events, Id
  <1>6. s \in Seq(Events) /\ DOMAIN s = 1 .. n /\ OneEachJob(s) /\ Range(s) = {s[i] : i \in 1 .. n}
    <2>1. s \in Seq(Events)
      <3>1. \A i \in 1 .. n : s[i] \in Events
        BY <1>5
      <3>2. s = [i \in 1 .. n |-> s[i]]
        OBVIOUS
      <3> HIDE DEF s
      <3>3. s \in [1 .. n -> Events]
        BY <3>1, <3>2
      <3>4. n \in Nat
        BY <1>2
      <3>. QED  BY <3>3, <3>4, Listed
    <2>2. DOMAIN s = 1 .. n
      OBVIOUS
    <2> HIDE DEF s
    <2>. QED  BY <1>4, <1>5, <2>1, <2>2 DEF OneEachJob, Range
  <1>7. buffer'[a] = buffer[a] \o s /\ \A b \in AllAgents \ {a} : buffer'[b] = buffer[b]
    BY <1>1, <1>2 DEF job
  <1> HIDE DEF s
  <1>8. /\ buffer[a] \o s \in Seq(Events) /\ OneEachJob(buffer[a] \o s)
        /\ Range(buffer[a] \o s) = Range(buffer[a]) \cup Range(s)
    <2>1. ASSUME NEW x \in Range(buffer[a]), NEW y \in Range(s) PROVE x.id.job # y.id.job
      <3>1. x.id.job \in Observed(a)
        BY DEF PlacesInv, Waits
      <3>2. y.id.job \notin Observed(a)
        BY <1>3, <1>5, <1>6
      <3>. QED  BY <3>1, <3>2
    <2>2. OneEachJob(buffer[a]) /\ buffer[a] \in Seq(Events)
      BY <1>2 DEF PlacesInv
    <2>3. s \in Seq(Events) /\ OneEachJob(s)
      BY <1>6
    <2>. QED  BY <2>1, <2>2, <2>3, Arrivals
  <1>9. buffer' \in [AllAgents -> Seq(Events)]
    <2>1. buffer' = [b \in AllAgents |-> IF b = a THEN buffer[a] \o s ELSE buffer[b]]
      BY <1>1, <1>2 DEF s, job
    <2>. QED  BY <1>2, <1>8, <2>1
  <1>10. /\ arrived' \in [AllAgents -> Nat] /\ arrived'[a] = arrived[a] + n
         /\ \A b \in AllAgents \ {a} : arrived'[b] = arrived[b]
    BY <1>1, <1>2
  <1>11. \A b \in AllAgents : arrived'[b] <= Len(Jobs[b])
    BY <1>1, <1>2, <1>10
  <1>12. UNCHANGED <<seen, admitted, refused>>
    BY DEF BeginAgent
  <1>13. /\ Observed(a)' = Observed(a) \cup {job(i) : i \in 1 .. n}
         /\ \A b \in AllAgents \ {a} : Observed(b)' = Observed(b)
    <2>1. ASSUME NEW k \in 1 .. arrived[a] + n
          PROVE  k \in 1 .. arrived[a] \/ \E i \in 1 .. n : k = arrived[a] + i
      <3>1. k \notin 1 .. arrived[a] => k - arrived[a] \in 1 .. n /\ k = arrived[a] + (k - arrived[a])
        BY <1>2
      <3>. QED  BY <3>1
    <2>2. \A k \in 1 .. arrived[a] : k \in 1 .. arrived[a] + n
      BY <1>2
    <2>3. \A i \in 1 .. n : arrived[a] + i \in 1 .. arrived[a] + n
      BY <1>2
    <2>4. Observed(a)' = {Jobs[a][k] : k \in 1 .. arrived[a] + n}
      BY <1>10 DEF Observed
    <2>5. \A b \in AllAgents \ {a} : Observed(b)' = Observed(b)
      BY <1>10 DEF Observed
    <2>6. Observed(a)' = Observed(a) \cup {job(i) : i \in 1 .. n}
      BY <2>1, <2>2, <2>3, <2>4 DEF Observed, job
    <2>. QED  BY <2>5, <2>6
  <1>14. \A b \in AllAgents : \A j : DeferredBefore(b, j)' <=> DeferredBefore(b, j)
    BY <1>12 DEF DeferredBefore
  <1>15. \A b \in AllAgents : \A f : Fresh(b, f)' <=> Fresh(b, f)
    BY <1>12 DEF Fresh
  <1>16. ASSUME NEW i \in 1 .. n
         PROVE  job(i) \notin admitted \cup refused /\ Fresh(a, s[i])
    <2>1. \A b \in AllAgents : job(i) \notin Observed(b)
      BY <1>3, ObservedFacts, AgentFacts
    <2>2. job(i) \notin admitted \cup refused
      BY <2>1 DEF PlacesInv
    <2>3. Plain(s[i].id, s[i].count)
      BY <1>5 DEF Plain
    <2>4. \A id \in seen[a] : id.job # s[i].id.job
      BY <1>5, <2>1 DEF PlacesInv
    <2>. QED  BY <2>2, <2>3, <2>4 DEF Fresh
  <1>17. ASSUME NEW b \in AllAgents
         PROVE  /\ OneEachJob(buffer'[b])
                /\ Waits(b)' \subseteq Observed(b)' \ (admitted' \cup refused')
                /\ \A id \in seen'[b] : id.job \in Observed(b)'
                /\ \A j \in Observed(b)' : DeferredBefore(b, j)' \/ j \in admitted' \cup refused' \cup Waits(b)'
                /\ \A e \in Range(buffer'[b]) : DeferredBefore(b, e.id.job)' \/ Fresh(b, e)'
    <2>1. CASE b # a
      <3>1. Waits(b)' = Waits(b) /\ Observed(b)' = Observed(b) /\ buffer'[b] = buffer[b]
        BY <1>7, <1>13, <2>1 DEF Waits
      <3>. QED  BY <1>12, <1>14, <1>15, <3>1 DEF PlacesInv
    <2>2. CASE b = a
      <3>1. Range(buffer'[a]) = Range(buffer[a]) \cup {s[i] : i \in 1 .. n}
        BY <1>6, <1>7, <1>8
      <3>2. Waits(a)' = Waits(a) \cup {job(i) : i \in 1 .. n}
        BY <1>5, <3>1 DEF Waits
      <3>3. Waits(a) \subseteq Observed(a) \ (admitted \cup refused)
        BY DEF PlacesInv
      <3>4. \A e \in Range(buffer'[a]) : DeferredBefore(a, e.id.job)' \/ Fresh(a, e)'
        BY <1>14, <1>15, <1>16, <3>1 DEF PlacesInv
      <3>5. \A j \in Observed(a)' : DeferredBefore(a, j)' \/ j \in admitted' \cup refused' \cup Waits(a)'
        BY <1>12, <1>13, <1>14, <3>2 DEF PlacesInv
      <3>6. OneEachJob(buffer'[a])
        BY <1>7, <1>8
      <3>7. Waits(a)' \subseteq Observed(a)' \ (admitted' \cup refused')
        BY <1>12, <1>13, <1>16, <3>2, <3>3
      <3>8. \A id \in seen'[a] : id.job \in Observed(a)'
        BY <1>12, <1>13 DEF PlacesInv
      <3>. QED  BY <2>2, <3>4, <3>5, <3>6, <3>7, <3>8
    <2>. QED  BY <2>1, <2>2
  <1>18. \A j \in admitted' \cup refused' : \E b \in AllAgents : j \in Observed(b)'
    BY <1>12, <1>13 DEF PlacesInv
  <1>. QED  BY <1>9, <1>10, <1>11, <1>12, <1>17, <1>18 DEF PlacesInv

\* Any other step leaves the jobs where they are.
LEMMA PlacesSame ==
  ASSUME PlacesInv, UNCHANGED <<arrived, buffer, seen, admitted, refused>>
  PROVE  PlacesInv'
  <1>1. \A a : Observed(a)' = Observed(a) /\ Waits(a)' = Waits(a)
    BY DEF Observed, Waits
  <1>2. \A a, j : DeferredBefore(a, j)' <=> DeferredBefore(a, j)
    BY DEF DeferredBefore
  <1>3. \A a, e : Fresh(a, e)' <=> Fresh(a, e)
    BY DEF Fresh
  <1>. QED  BY <1>1, <1>2, <1>3 DEF PlacesInv

-----------------------------------------------------------------------------
(* The tick of the agents.                                                   *)

ShapeInv ==
  /\ turn = 0 => step = "begin"
  /\ step \in {"begin", "drain"} => phase = "idle"
  /\ step = "pods" => phase \in {"due", "try"} /\ Agents[turn] \in Kubernetes
  /\ step = "report" => phase = IF Agents[turn] \in Kubernetes THEN "done" ELSE "idle"

\* The pods of a job that no agent has admitted.
NewPods ==
  \A a \in Kubernetes : \A j \in Range(Jobs[a]) \ admitted : \A i \in 1 .. Size[j] :
     where[<<j, i>>] = "new"

\* The agents that have compared the headroom of this tick with that of the one before.
Ticked(a) ==
  turn = 0 \/ \E i \in 1 .. Len(Agents) : Agents[i] = a /\ (i < turn \/ (i = turn /\ step # "begin"))

\* The hold after the last shortage.
Holds(a) == holdUntil[a] >= recoveredAt + Hysteresis \/ recoveredAt + Hysteresis <= 0

HoldInv ==
  /\ recoveredAt <= now
  /\ \A a \in AllAgents :
       /\ Ticked(a) => (prevShort[a] <=> headroom < Threshold)
       /\ headroom >= Threshold => Holds(a) \/ (~Ticked(a) /\ prevShort[a])
  /\ step = "drain" => (capped <=> headroom < Threshold \/ now < holdUntil[Agents[turn]])

DemandInv == TypeOK /\ PodsInv /\ ShapeInv /\ PlacesInv /\ NewPods /\ HoldInv

LEMMA DemandTypes ==
  ASSUME TypeOK
  PROVE  /\ now \in Nat /\ turn \in Nat /\ turn <= Len(Agents) /\ headroom \in Nat /\ recoveredAt \in Int
         /\ capped \in BOOLEAN /\ accepted \in Nat
         /\ prevShort \in [AllAgents -> BOOLEAN] /\ holdUntil \in [AllAgents -> Int]
         /\ active \in [AllAgents -> SUBSET [id : Ids, endsAt : Nat]]
         /\ already \in [Range(ClusterOf) -> Nat] /\ reported \in [AllAgents -> Nat \cup {-1}]
         /\ (turn > 0 => turn \in 1 .. Len(Agents) /\ Agents[turn] \in AllAgents)
  <1>1. turn \in 0 .. Len(Agents) /\ Len(Agents) \in Nat
    BY AgentFacts DEF TypeOK
  <1>2. turn \in Nat /\ turn <= Len(Agents) /\ (turn > 0 => turn \in 1 .. Len(Agents))
    BY <1>1
  <1>. QED  BY <1>2, AgentFacts DEF TypeOK, PodsTypeOK

\* The nodes of an agent.
LEMMA GangFacts ==
  ASSUME TypeOK, PlacesInv, NEW a \in AllAgents
  PROVE  /\ \A j \in Observed(a) : /\ j \in DOMAIN Size /\ Size[j] \in Nat \ {0} /\ Size[j] <= MaxNodes
                                   /\ Length[j] \in Nat
         /\ \A r \in active[a] : r.id.job \in Observed(a)
         /\ Survivors(a) = active[a]
         /\ Weighs([r \in active[a] |-> Size[r.id.job]], active[a])
         /\ NodesOf(active[a]) \in Nat /\ IsFiniteSet(In("running")) /\ AdmittedNodes(a) \in Nat
  <1>1. \A j \in Observed(a) : /\ j \in DOMAIN Size /\ Size[j] \in Nat \ {0} /\ Size[j] <= MaxNodes
                               /\ Length[j] \in Nat
    <2>1. SUFFICES ASSUME NEW j \in Observed(a)
                   PROVE  /\ j \in DOMAIN Size /\ Size[j] \in Nat \ {0} /\ Size[j] <= MaxNodes
                          /\ Length[j] \in Nat
      OBVIOUS
    <2>2. j \in Range(Jobs[a]) /\ j \in DOMAIN Size
      BY ObservedFacts
    <2>3. Size[j] \in 1 .. MaxNodes /\ Length[j] \in Nat
      BY <2>2, AgentsAssumption DEF AllAgents
    <2>. QED  BY <2>2, <2>3, AgentFacts
  <1>2. \A r \in active[a] : r.id.job \in Observed(a)
    BY BufferFacts DEF PlacesInv
  <1>3. Survivors(a) = active[a]
    BY DemandTypes DEF Survivors
  <1>4. Weighs([r \in active[a] |-> Size[r.id.job]], active[a])
    BY <1>1, <1>2, BufferFacts DEF Weighs
  <1>5. NodesOf(active[a]) \in Nat
    BY <1>4, TotalNat DEF NodesOf
  <1>6. IsFiniteSet(In("running"))
    BY PodsAssumption, FS_Subset DEF In
  <1>7. AdmittedNodes(a) \in Nat
    BY <1>3, <1>5, <1>6, FS_CardinalityType DEF AdmittedNodes
  <1>. QED  BY <1>1, <1>2, <1>3, <1>4, <1>5, <1>6, <1>7

LEMMA MaxOfTwo ==
  ASSUME NEW m \in Nat, NEW n \in Nat
  PROVE  Max({m, n}) \in Nat /\ Max({m, n}) = IF m <= n THEN n ELSE m
  <1> DEFINE x == IF m <= n THEN n ELSE m
  <1>1. x \in {m, n} /\ \A y \in {m, n} : x >= y
    OBVIOUS
  <1>2. \A z \in {m, n} : (\A y \in {m, n} : z >= y) => z = x
    OBVIOUS
  <1>3. Max({m, n}) = x
    BY <1>1, <1>2 DEF Max
  <1>. QED  BY <1>3

\* The pods of a job, handed over in one sequence.
LEMMA PodsOfJob ==
  ASSUME NEW a \in Kubernetes, NEW j \in Range(Jobs[a])
  PROVE  LET ps == [i \in 1 .. Size[j] |-> <<j, i>>]
         IN  ps \in Seq(Pods) /\ Range(ps) = {<<j, i>> : i \in 1 .. Size[j]} /\ Len(ps) = Size[j]
  <1> DEFINE ps == [i \in 1 .. Size[j] |-> <<j, i>>]
  <1>1. a \in AllAgents /\ Size[j] \in 1 .. MaxNodes /\ {j} \X (1 .. Size[j]) \subseteq Pods /\ MaxNodes \in Nat
    BY AgentsAssumption, AgentFacts DEF AllAgents
  <1>2. Size[j] \in Nat
    BY <1>1
  <1>3. ps \in [1 .. Size[j] -> Pods] /\ Range(ps) = {<<j, i>> : i \in 1 .. Size[j]}
    BY <1>1 DEF Range
  <1>. QED  BY <1>2, <1>3, Listed

LEMMA StartKeeps ==
  ASSUME DemandInv, StartTick
  PROVE  DemandInv'
  <1>1. /\ turn = 0 /\ now' = now + 1 /\ turn' = 1 /\ step' = "begin" /\ headroom' \in Headrooms
        /\ recoveredAt' = IF headroom < Threshold /\ headroom' >= Threshold THEN now' ELSE recoveredAt
        /\ already' = [c \in DOMAIN already |-> 0]
        /\ UNCHANGED <<phase, podVars, arrived, buffer, seen, active, prevShort, holdUntil,
                       capped, accepted, reported, admitted, refused>>
    BY DEF StartTick
  <1>2. phase = "idle" /\ step = "begin"
    BY <1>1 DEF DemandInv, ShapeInv
  <1>3. now' \in Nat /\ recoveredAt' \in Int /\ recoveredAt' <= now'
    BY <1>1, DemandTypes DEF DemandInv, HoldInv
  <1>4. PodsInv'
    BY <1>1, <1>2, <1>3, PodsSame DEF DemandInv
  <1>5. TypeOK'
    <2>1. turn' \in 0 .. Len(Agents)
      BY <1>1, AgentFacts
    <2>2. already' \in [Range(ClusterOf) -> Nat]
      BY <1>1, DemandTypes DEF DemandInv
    <2>. QED  BY <1>1, <1>3, <1>4, <2>1, <2>2 DEF TypeOK, DemandInv, PodsInv
  <1>6. ShapeInv' /\ PlacesInv' /\ NewPods'
    <2>1. ShapeInv'
      BY <1>1, <1>2 DEF ShapeInv
    <2>2. NewPods'
      BY <1>1 DEF DemandInv, NewPods, podVars
    <2>. QED  BY <1>1, <2>1, <2>2, PlacesSame DEF DemandInv
  <1>7. HoldInv'
    <2>1. SUFFICES ASSUME NEW a \in AllAgents
                   PROVE  ~Ticked(a)' /\ (headroom' >= Threshold => Holds(a)' \/ prevShort'[a])
      BY <1>1, <1>3 DEF HoldInv
    <2>2. ~Ticked(a)'
      BY <1>1 DEF Ticked
    <2>3. ASSUME headroom' >= Threshold PROVE Holds(a)' \/ prevShort'[a]
      <3>1. Ticked(a) /\ headroom \in Nat /\ Threshold \in Int
        BY <1>1, DemandTypes, AgentFacts DEF Ticked, DemandInv
      <3>2. CASE headroom < Threshold
        BY <1>1, <3>1, <3>2 DEF DemandInv, HoldInv
      <3>3. CASE headroom >= Threshold
        <4>1. Holds(a) /\ recoveredAt' = recoveredAt /\ holdUntil' = holdUntil
          BY <1>1, <3>1, <3>3 DEF DemandInv, HoldInv
        <4>. QED  BY <4>1 DEF Holds
      <3>. QED  BY <3>1, <3>2, <3>3
    <2>. QED  BY <2>2, <2>3
  <1>. QED  BY <1>4, <1>5, <1>6, <1>7 DEF DemandInv

LEMMA BeginKeeps ==
  ASSUME DemandInv, NEW a \in AllAgents, BeginAgent(a)
  PROVE  DemandInv'
  <1>1. /\ turn > 0 /\ turn <= Len(Agents) /\ Agents[turn] = a /\ step = "begin" /\ step' = "drain"
        /\ holdUntil' = [holdUntil EXCEPT ![a] = Hold(a)]
        /\ prevShort' = [prevShort EXCEPT ![a] = headroom < Threshold]
        /\ capped' = (headroom < Threshold \/ now < Hold(a))
        /\ active' = [active EXCEPT ![a] = {r \in @ : r.endsAt > now}]
        /\ accepted' = Cardinality(In("running"))
        /\ UNCHANGED <<now, phase, podVars, turn, headroom, seen, already, reported,
                       admitted, refused, recoveredAt>>
    BY DEF BeginAgent, Is
  <1>2. phase = "idle" /\ now \in Nat
    BY <1>1, DemandTypes DEF DemandInv, ShapeInv
  <1>3. PodsInv'
    BY <1>1, <1>2, PodsSame DEF DemandInv
  <1>4. /\ PlacesInv' /\ buffer' \in [AllAgents -> Seq(Events)] /\ arrived' \in [AllAgents -> Nat]
        /\ \A b \in AllAgents : arrived'[b] <= Len(Jobs[b])
    BY BeginPlaces DEF DemandInv
  <1>5. /\ holdUntil \in [AllAgents -> Int] /\ prevShort \in [AllAgents -> BOOLEAN]
        /\ active \in [AllAgents -> SUBSET [id : Ids, endsAt : Nat]]
        /\ Hysteresis \in Nat /\ Threshold \in Int /\ headroom \in Nat /\ recoveredAt \in Int
    BY DemandTypes, AgentFacts DEF DemandInv
  <1>6. Hold(a) \in Int /\ (headroom >= Threshold /\ prevShort[a] => Hold(a) = now + Hysteresis)
        /\ (~(headroom >= Threshold /\ prevShort[a]) => Hold(a) = holdUntil[a])
    BY <1>2, <1>5 DEF Hold
  <1>7. /\ holdUntil' \in [AllAgents -> Int] /\ prevShort' \in [AllAgents -> BOOLEAN]
        /\ holdUntil'[a] = Hold(a) /\ \A b \in AllAgents \ {a} : holdUntil'[b] = holdUntil[b]
        /\ (prevShort'[a] <=> headroom < Threshold)
        /\ \A b \in AllAgents \ {a} : prevShort'[b] = prevShort[b]
    <2> DEFINE short == headroom < Threshold
    <2>1. holdUntil' \in [AllAgents -> Int] /\ holdUntil'[a] = Hold(a)
      BY <1>1, <1>5, <1>6
    <2>2. \A b \in AllAgents \ {a} : holdUntil'[b] = holdUntil[b]
      BY <1>1, <1>5
    <2>3. short \in BOOLEAN /\ prevShort' = [prevShort EXCEPT ![a] = short]
      BY <1>1
    <2> HIDE DEF short
    <2>4. /\ prevShort' \in [AllAgents -> BOOLEAN] /\ prevShort'[a] = short
          /\ \A b \in AllAgents \ {a} : prevShort'[b] = prevShort[b]
      BY <1>5, <2>3
    <2>. QED  BY <2>1, <2>2, <2>4 DEF short
  <1>8. TypeOK'
    <2>1. accepted' \in Nat
      BY <1>1, GangFacts, FS_CardinalityType DEF DemandInv
    <2>2. active' \in [AllAgents -> SUBSET [id : Ids, endsAt : Nat]]
      BY <1>1, <1>5
    <2>3. \A b \in AllAgents : IsFiniteSet(active'[b]) /\ \A r \in active'[b] : r.id \in seen'[b]
      <3>1. ASSUME NEW b \in AllAgents PROVE active'[b] \in SUBSET active[b]
        BY <1>1, <1>5
      <3>. QED  BY <1>1, <3>1, BufferFacts, FS_Subset DEF DemandInv
    <2>4. capped' \in BOOLEAN /\ step' \in {"begin", "drain", "pods", "report"} /\ PodsTypeOK'
      BY <1>1, <1>3 DEF PodsInv
    <2>. QED  BY <1>1, <1>4, <1>7, <2>1, <2>2, <2>3, <2>4 DEF TypeOK, DemandInv, Events
  <1>9. ShapeInv' /\ NewPods'
    <2>1. NewPods'
      BY <1>1 DEF DemandInv, NewPods, podVars
    <2>. QED  BY <1>1, <1>2, <2>1 DEF ShapeInv
  <1>10. HoldInv'
    <2>1. ~Ticked(a) /\ Ticked(a)' /\ turn \in 1 .. Len(Agents)
      <3>1. turn \in 1 .. Len(Agents) /\ turn \in Nat
        BY <1>1, DemandTypes DEF DemandInv
      <3>2. \A i \in 1 .. Len(Agents) : Agents[i] = a => i = turn
        BY <1>1, <3>1, AgentFacts
      <3>3. ~Ticked(a)
        BY <1>1, <3>1, <3>2 DEF Ticked
      <3>4. Ticked(a)'
        BY <1>1, <3>1 DEF Ticked
      <3>. QED  BY <3>1, <3>3, <3>4
    <2>2. ASSUME NEW b \in AllAgents, b # a PROVE Ticked(b)' <=> Ticked(b)
      BY <1>1, <2>2 DEF Ticked
    <2>3. headroom >= Threshold => Holds(a)'
      <3>1. headroom >= Threshold => Holds(a) \/ prevShort[a]
        BY DEF DemandInv, HoldInv
      <3>2. recoveredAt <= now
        BY DEF DemandInv, HoldInv
      <3>3. recoveredAt' = recoveredAt /\ holdUntil'[a] = Hold(a)
        BY <1>1, <1>7
      <3>4. CASE headroom >= Threshold /\ prevShort[a]
        <4>1. Hold(a) >= recoveredAt + Hysteresis
          BY <1>2, <1>5, <1>6, <3>2, <3>4
        <4>. QED  BY <3>3, <4>1 DEF Holds
      <3>5. CASE headroom >= Threshold /\ ~prevShort[a]
        <4>1. Holds(a) /\ Hold(a) = holdUntil[a]
          BY <1>6, <3>1, <3>5
        <4>. QED  BY <3>3, <4>1 DEF Holds
      <3>. QED  BY <3>4, <3>5
    <2>4. ASSUME NEW b \in AllAgents, b # a PROVE Holds(b)' <=> Holds(b)
      BY <1>1, <1>7, <2>4 DEF Holds
    <2>5. recoveredAt' <= now' /\ (capped' <=> headroom' < Threshold \/ now' < holdUntil'[Agents[turn']])
      BY <1>1, <1>7 DEF DemandInv, HoldInv
    <2>6. ASSUME NEW b \in AllAgents
          PROVE  /\ Ticked(b)' => (prevShort'[b] <=> headroom' < Threshold)
                 /\ headroom' >= Threshold => Holds(b)' \/ (~Ticked(b)' /\ prevShort'[b])
      <3>1. CASE b = a
        BY <1>1, <1>7, <2>3, <3>1
      <3>2. CASE b # a
        BY <1>1, <1>7, <2>2, <2>4, <3>2 DEF DemandInv, HoldInv
      <3>. QED  BY <3>1, <3>2
    <2>. QED  BY <2>5, <2>6 DEF HoldInv
  <1>. QED  BY <1>3, <1>4, <1>8, <1>9, <1>10 DEF DemandInv

LEMMA SiftKeeps ==
  ASSUME DemandInv, NEW a \in AllAgents, NEW e, Sifts(a, e)
  PROVE  DemandInv'
  <1>1. /\ Looks(a, e)
        /\ UNCHANGED <<now, phase, turn, step, headroom, arrived, prevShort, holdUntil, capped,
                       already, reported, recoveredAt>>
        /\ buffer' \in [AllAgents -> Seq(Events)] /\ seen' \in [AllAgents -> SUBSET Ids]
        /\ \A b \in AllAgents : seen'[b] = IF b = a THEN seen[b] \cup {e.id} ELSE seen[b]
        /\ Admit(a, e) \/ UNCHANGED <<podVars, active, accepted, admitted>>
    BY SiftFacts DEF DemandInv, PlacesInv
  <1>2. PlacesInv' /\ e.id.job \in Observed(a) \ (admitted \cup refused)
    BY SiftPlaces DEF DemandInv
  <1>3. phase = "idle" /\ now \in Nat /\ step = "drain"
    BY <1>1, DemandTypes DEF DemandInv, ShapeInv, Looks
  <1>4. e.id \in Ids
    BY <1>1, LooksFacts DEF Events, DemandInv, PlacesInv
  <1>5. /\ Size[e.id.job] \in Nat \ {0} /\ Length[e.id.job] \in Nat /\ e.id.job \in Range(Jobs[a])
    <2>1. Size[e.id.job] \in Nat \ {0} /\ Length[e.id.job] \in Nat
      BY <1>2, GangFacts DEF DemandInv
    <2>2. e.id.job \in Range(Jobs[a])
      BY <1>2, ObservedFacts DEF DemandInv
    <2>. QED  BY <2>1, <2>2
  <1>6. HoldInv'
    <2>1. \A b : Ticked(b)' <=> Ticked(b)
      BY <1>1 DEF Ticked
    <2>2. \A b : Holds(b)' <=> Holds(b)
      BY <1>1 DEF Holds
    <2>. QED  BY <1>1, <2>1, <2>2 DEF HoldInv, DemandInv
  <1>7. ShapeInv'
    BY <1>1 DEF ShapeInv, DemandInv
  <1>8. ASSUME PodsTypeOK', accepted' \in Nat,
               active' \in [AllAgents -> SUBSET [id : Ids, endsAt : Nat]],
               \A b \in AllAgents : IsFiniteSet(active'[b]) /\ \A r \in active'[b] : r.id \in seen'[b]
        PROVE  TypeOK'
    BY <1>1, <1>8 DEF TypeOK, DemandInv, Events
  <1>9. active \in [AllAgents -> SUBSET [id : Ids, endsAt : Nat]] /\ accepted \in Nat
    BY DemandTypes DEF DemandInv
  <1>10. \A b \in AllAgents : IsFiniteSet(active[b]) /\ \A r \in active[b] : r.id \in seen'[b]
    BY <1>1, BufferFacts DEF DemandInv
  <1>11. CASE UNCHANGED <<podVars, active, accepted, admitted>>
    <2>1. PodsInv'
      BY <1>1, <1>3, <1>11, PodsSame DEF DemandInv
    <2>2. TypeOK'
      BY <1>8, <1>9, <1>10, <1>11, <2>1 DEF PodsInv
    <2>3. NewPods'
      BY <1>11 DEF DemandInv, NewPods, podVars
    <2>. QED  BY <1>2, <1>6, <1>7, <2>1, <2>2, <2>3 DEF DemandInv
  <1>12. CASE Admit(a, e) /\ a \in Kubernetes
    <2> DEFINE ps == [i \in 1 .. Size[e.id.job] |-> <<e.id.job, i>>]
    <2>1. /\ Enqueue(ps) /\ accepted' = accepted + Size[e.id.job] /\ active' = active
          /\ UNCHANGED <<attempts, readyAt, backoff, onNode, endsAt, allocated, passed, placed>>
          /\ admitted' = admitted \cup {e.id.job}
      BY <1>12 DEF Admit
    <2>2. ps \in Seq(Pods) /\ Range(ps) = {<<e.id.job, i>> : i \in 1 .. Size[e.id.job]}
      BY <1>5, <1>12, PodsOfJob
    <2> HIDE DEF ps
    <2>3. \A p \in Range(ps) : where[p] = "new"
      BY <1>2, <1>5, <1>12, <2>2 DEF DemandInv, NewPods
    <2>4. PodsInv' /\ \A p \in Pods : where'[p] = IF p \in Range(ps) THEN "active" ELSE where[p]
      BY <1>1, <1>3, <2>1, <2>2, <2>3, EnqueueKeeps DEF DemandInv
    <2>5. TypeOK'
      BY <1>5, <1>8, <1>9, <1>10, <2>1, <2>4 DEF PodsInv
    <2>6. NewPods'
      <3>1. SUFFICES ASSUME NEW b \in Kubernetes, NEW j \in Range(Jobs[b]), j \notin admitted',
                            NEW i \in 1 .. Size[j]
                     PROVE  where'[<<j, i>>] = "new"
        BY DEF NewPods
      <3>2. <<j, i>> \in Pods /\ where[<<j, i>>] = "new" /\ j # e.id.job
        <4>1. {j} \X (1 .. Size[j]) \subseteq Pods
          BY AgentsAssumption
        <4>. QED  BY <2>1, <3>1, <4>1 DEF DemandInv, NewPods
      <3>3. <<j, i>> \notin Range(ps)
        BY <2>2, <3>2
      <3>. QED  BY <2>4, <3>2, <3>3
    <2>. QED  BY <1>2, <1>6, <1>7, <2>4, <2>5, <2>6 DEF DemandInv
  <1>13. CASE Admit(a, e) /\ a \notin Kubernetes
    <2> DEFINE r == [id |-> e.id, endsAt |-> now + Length[e.id.job]]
    <2>1. /\ active' = [active EXCEPT ![a] = @ \cup {r}]
          /\ UNCHANGED podVars /\ accepted' = accepted /\ admitted' = admitted \cup {e.id.job}
      BY <1>13 DEF Admit, podVars
    <2>2. r \in [id : Ids, endsAt : Nat] /\ r.id = e.id
      BY <1>3, <1>4, <1>5
    <2> HIDE DEF r
    <2>3. active' \in [AllAgents -> SUBSET [id : Ids, endsAt : Nat]]
      BY <1>9, <2>1, <2>2
    <2>4. ASSUME NEW b \in AllAgents
          PROVE  IsFiniteSet(active'[b]) /\ \A q \in active'[b] : q.id \in seen'[b]
      <3>1. CASE b # a
        BY <1>9, <1>10, <2>1, <3>1
      <3>2. CASE b = a
        <4>1. active'[a] = active[a] \cup {r}
          BY <1>9, <2>1
        <4>2. IsFiniteSet(active[a] \cup {r})
          BY <1>10, FS_AddElement
        <4>. QED  BY <1>1, <1>10, <2>2, <3>2, <4>1, <4>2
      <3>. QED  BY <3>1, <3>2
    <2>5. PodsInv'
      BY <1>1, <1>3, <2>1, PodsSame DEF DemandInv
    <2>6. TypeOK'
      BY <1>8, <1>9, <2>1, <2>3, <2>4, <2>5 DEF PodsInv
    <2>7. NewPods'
      BY <2>1 DEF DemandInv, NewPods, podVars
    <2>. QED  BY <1>2, <1>6, <1>7, <2>5, <2>6, <2>7 DEF DemandInv
  <1>. QED  BY <1>1, <1>11, <1>12, <1>13

LEMMA ReportKeeps ==
  ASSUME DemandInv, NEW a \in AllAgents, Report(a)
  PROVE  /\ DemandInv' /\ active' = active /\ AdmittedNodes(a) \in Nat
         /\ reported' = [reported EXCEPT ![a] = Max({MinNodes, AdmittedNodes(a)})]
  <1>1. /\ turn > 0 /\ turn <= Len(Agents) /\ Agents[turn] = a /\ step = "report" /\ step' = "begin"
        /\ turn' = (IF turn < Len(Agents) THEN turn + 1 ELSE 0) /\ phase' = "idle"
        /\ active' = [active EXCEPT ![a] = Survivors(a)]
        /\ reported' = [reported EXCEPT ![a] = Max({MinNodes, AdmittedNodes(a)})]
        /\ already' = [already EXCEPT ![ClusterOf[a]] = @ + AdmittedNodes(a)]
        /\ UNCHANGED <<now, podVars, headroom, arrived, buffer, seen, prevShort, holdUntil, capped,
                       accepted, admitted, refused, recoveredAt>>
    BY DEF Report, Is, Signalled
  <1>2. /\ now \in Nat /\ turn \in Nat /\ Len(Agents) \in Nat /\ MinNodes \in Nat
        /\ already \in [Range(ClusterOf) -> Nat] /\ reported \in [AllAgents -> Nat \cup {-1}]
        /\ active \in [AllAgents -> SUBSET [id : Ids, endsAt : Nat]] /\ ClusterOf[a] \in Range(ClusterOf)
    BY DemandTypes, AgentFacts DEF DemandInv
  <1>3. AdmittedNodes(a) \in Nat /\ Survivors(a) = active[a]
    BY GangFacts DEF DemandInv
  <1>4. active' = active
    BY <1>1, <1>2, <1>3
  <1>5. PodsInv'
    BY <1>1, <1>2, PodsSame DEF DemandInv
  <1>6. TypeOK'
    <2>1. turn' \in 0 .. Len(Agents)
      BY <1>1, <1>2
    <2>2. already' \in [Range(ClusterOf) -> Nat]
      BY <1>1, <1>2, <1>3
    <2>3. reported' \in [AllAgents -> Nat \cup {-1}]
      BY <1>1, <1>2, <1>3, MaxOfTwo
    <2>. QED  BY <1>1, <1>4, <1>5, <2>1, <2>2, <2>3 DEF TypeOK, DemandInv, PodsInv
  <1>7. ShapeInv' /\ PlacesInv' /\ NewPods'
    <2>1. NewPods'
      BY <1>1 DEF DemandInv, NewPods, podVars
    <2>. QED  BY <1>1, <2>1, PlacesSame DEF DemandInv, ShapeInv
  <1>8. HoldInv'
    <2>1. \A b \in AllAgents : Ticked(b)' <=> Ticked(b)
      <3>1. ASSUME NEW i \in 1 .. Len(Agents)
            PROVE  (turn' = 0 \/ i < turn' \/ (i = turn' /\ step' # "begin"))
                     <=> (turn = 0 \/ i < turn \/ (i = turn /\ step # "begin"))
        BY <1>1, <1>2
      <3>. QED  BY <3>1, AgentFacts DEF Ticked
    <2>2. \A b : Holds(b)' <=> Holds(b)
      BY <1>1 DEF Holds
    <2>. QED  BY <1>1, <2>1, <2>2 DEF HoldInv, DemandInv
  <1>. QED  BY <1>1, <1>3, <1>4, <1>5, <1>6, <1>7, <1>8 DEF DemandInv

LEMMA DrainedKeeps ==
  ASSUME DemandInv, NEW a \in AllAgents, EndDrain(a) \/ PodsTick(a)
  PROVE  DemandInv' /\ UNCHANGED agentVars
  <1>1. /\ turn > 0 /\ Agents[turn] = a /\ UNCHANGED <<turn, agentVars>> /\ now' = now
        /\ step \in {"drain", "pods"} /\ step' \in {"pods", "report"}
    BY TickMoves DEF EndDrain, PodsTick, Is, DemandInv
  <1>2. /\ \A b : Ticked(b)' <=> Ticked(b)
        /\ \A b : Holds(b)' <=> Holds(b)
    BY <1>1 DEF Ticked, Holds, agentVars
  <1>3. HoldInv' /\ PlacesInv'
    <2>1. HoldInv'
      BY <1>1, <1>2 DEF HoldInv, DemandInv, agentVars
    <2>. QED  BY <1>1, <2>1, PlacesSame DEF DemandInv, agentVars
  <1>4. PodsTypeOK' => TypeOK'
    BY <1>1 DEF TypeOK, DemandInv, agentVars
  <1>5. CASE EndDrain(a)
    <2>1. /\ UNCHANGED podVars /\ phase = "idle" /\ now \in Nat
          /\ IF a \in Kubernetes THEN step' = "pods" /\ phase' = "due"
                                 ELSE step' = "report" /\ phase' = phase
      BY <1>5, DemandTypes DEF EndDrain, DemandInv, ShapeInv
    <2>2. PodsInv'
      BY <1>1, <2>1, PodsSame DEF DemandInv
    <2>3. ShapeInv'
      BY <1>1, <2>1 DEF ShapeInv
    <2>4. NewPods'
      BY <1>1, <2>1 DEF DemandInv, NewPods, podVars, agentVars
    <2>. QED  BY <1>1, <1>3, <1>4, <2>2, <2>3, <2>4 DEF DemandInv, PodsInv
  <1>6. CASE PodsTick(a)
    <2>1. TickStep /\ step' = (IF phase' = "done" THEN "report" ELSE "pods") /\ a \in Kubernetes
      BY <1>1, <1>6 DEF PodsTick, DemandInv, ShapeInv
    <2>2. PodsInv' /\ phase' \in {"try", "done"} /\ \A p \in Pods : where[p] = "new" => where'[p] = "new"
      BY <2>1, TickMoves DEF DemandInv
    <2>3. ShapeInv'
      BY <1>1, <2>1, <2>2 DEF ShapeInv
    <2>4. NewPods'
      <3>1. SUFFICES ASSUME NEW b \in Kubernetes, NEW j \in Range(Jobs[b]) \ admitted, NEW i \in 1 .. Size[j]
                     PROVE  where'[<<j, i>>] = "new"
        BY <1>1 DEF NewPods, agentVars
      <3>2. <<j, i>> \in Pods
        BY AgentsAssumption
      <3>. QED  BY <2>2, <3>2 DEF DemandInv, NewPods
    <2>. QED  BY <1>1, <1>3, <1>4, <2>2, <2>3, <2>4 DEF DemandInv, PodsInv
  <1>. QED  BY <1>1, <1>5, <1>6

LEMMA DemandStays ==
  ASSUME DemandInv, [Next]_vars
  PROVE  DemandInv'
  <1>1. CASE StartTick
    BY <1>1, StartKeeps
  <1>2. ASSUME NEW a \in AllAgents, AgentStep(a) PROVE DemandInv'
    <2>1. CASE BeginAgent(a)
      BY <2>1, BeginKeeps
    <2>2. CASE \E e \in Range(buffer[a]) : Sifts(a, e)
      BY <2>2, SiftKeeps
    <2>3. CASE EndDrain(a) \/ PodsTick(a)
      BY <2>3, DrainedKeeps
    <2>4. CASE Report(a)
      BY <2>4, ReportKeeps
    <2>. QED  BY <1>2, <2>1, <2>2, <2>3, <2>4 DEF AgentStep, Sifts
  <1>3. CASE UNCHANGED vars
    <2>1. UNCHANGED <<now, phase, podVars, turn, step, agentVars>>
      BY <1>3 DEF vars
    <2>2. PodsInv'
      <3>1. \A q : In(q)' = In(q)
        BY <2>1 DEF podVars, In
      <3>2. NodesAccounted' /\ NoneFits'
        BY <2>1, <3>1 DEF podVars, DemandInv, PodsInv, NodesAccounted, NoneFits, Candidates, Fits
      <3>. QED  BY <2>1, <3>1, <3>2 DEF podVars, DemandInv, PodsInv, PodsTypeOK, Timely, InTurn, Ahead
    <2>3. TypeOK' /\ ShapeInv' /\ PlacesInv'
      BY <2>1, <2>2, PlacesSame DEF agentVars, DemandInv, TypeOK, PodsInv, ShapeInv
    <2>4. NewPods' /\ HoldInv'
      BY <2>1 DEF agentVars, podVars, DemandInv, NewPods, HoldInv, Ticked, Holds
    <2>. QED  BY <2>2, <2>3, <2>4 DEF DemandInv
  <1>. QED  BY <1>1, <1>2, <1>3 DEF Next

LEMMA DemandStarts == Init => DemandInv
  <1> SUFFICES ASSUME Init PROVE DemandInv
    OBVIOUS
  <1>1. /\ PodsInit /\ turn = 1 /\ step = "begin" /\ now = 0 /\ phase = "idle"
        /\ headroom = Max(Headrooms)
        /\ arrived = [a \in AllAgents |-> 0] /\ buffer = [a \in AllAgents |-> <<>>]
        /\ seen = [a \in AllAgents |-> {}] /\ active = [a \in AllAgents |-> {}]
        /\ prevShort = [a \in AllAgents |-> FALSE] /\ holdUntil = [a \in AllAgents |-> -1]
        /\ capped = FALSE /\ accepted = 0 /\ already = [c \in Range(ClusterOf) |-> 0]
        /\ reported = [a \in AllAgents |-> -1]
        /\ admitted = {} /\ refused = {} /\ recoveredAt = -Hysteresis
    BY DEF Init, PodsInit
  <1>2. headroom \in Headrooms /\ headroom >= Threshold
    <2>1. Headrooms \subseteq Nat /\ IsFiniteSet(Headrooms) /\ Threshold \in Int
          /\ \E h \in Headrooms : h >= Threshold
      BY GridAssumption
    <2>2. PICK m \in Headrooms : \A s \in Headrooms : m >= s
      <3> DEFINE f == [h \in Headrooms |-> -h]
      <3>1. f \in [Headrooms -> Int] /\ Headrooms # {}
        BY <2>1
      <3>2. \E m \in Headrooms : \A s \in Headrooms : f[m] <= f[s]
        <4> HIDE DEF f
        <4>. QED  BY <2>1, <3>1, ArgMin
      <3>3. \A m, s \in Headrooms : f[m] <= f[s] => m >= s
        BY <2>1
      <3>. QED  BY <3>2, <3>3
    <2>3. \A z \in Headrooms : (\A s \in Headrooms : z >= s) => z = m
      BY <2>1, <2>2
    <2>4. Max(Headrooms) = m
      BY <2>2, <2>3 DEF Max
    <2>. QED  BY <1>1, <2>1, <2>2, <2>4
  <1>3. PodsInv
    BY <1>1, PodsStart
  <1>4. TypeOK
    <2>1. \A a \in AllAgents : buffer[a] = <<>> /\ <<>> \in Seq([id : Ids, observed : Nat, stamp : Int, count : Nat])
      BY <1>1
    <2>2. buffer \in [AllAgents -> Seq([id : Ids, observed : Nat, stamp : Int, count : Nat])]
      BY <1>1, <2>1
    <2>3. \A a \in AllAgents : arrived[a] <= Len(Jobs[a])
      BY <1>1, AgentFacts
    <2>4. \A a \in AllAgents : IsFiniteSet(active[a]) /\ \A r \in active[a] : r.id \in seen[a]
      BY <1>1, FS_EmptySet
    <2>5. turn \in 0 .. Len(Agents) /\ recoveredAt \in Int
      BY <1>1, AgentFacts
    <2>6. /\ PodsTypeOK /\ step \in {"begin", "drain", "pods", "report"} /\ capped \in BOOLEAN
          /\ accepted \in Nat /\ arrived \in [AllAgents -> Nat] /\ seen \in [AllAgents -> SUBSET Ids]
      BY <1>1, <1>3 DEF PodsInv
    <2>7. active \in [AllAgents -> SUBSET [id : Ids, endsAt : Nat]] /\ prevShort \in [AllAgents -> BOOLEAN]
      BY <1>1
    <2>8. /\ holdUntil \in [AllAgents -> Int] /\ already \in [Range(ClusterOf) -> Nat]
          /\ reported \in [AllAgents -> Nat \cup {-1}]
      BY <1>1
    <2>. QED  BY <1>2, <2>2, <2>3, <2>4, <2>5, <2>6, <2>7, <2>8 DEF TypeOK
  <1>5. PlacesInv
    <2>1. \A a \in AllAgents : Observed(a) = {} /\ Waits(a) = {} /\ Range(buffer[a]) = {} /\ DOMAIN buffer[a] = {}
      <3>1. ASSUME NEW a \in AllAgents PROVE buffer[a] = <<>> /\ arrived[a] = 0
        BY <1>1
      <3>. QED  BY <3>1 DEF Observed, Waits, Range
    <2>. QED  BY <1>1, <2>1 DEF PlacesInv, OneEachJob
  <1>6. ShapeInv /\ NewPods
    <2>1. \A p \in Pods : where[p] = "new"
      BY <1>1 DEF PodsInit
    <2>2. \A a \in Kubernetes : \A j \in Range(Jobs[a]) : \A i \in 1 .. Size[j] : <<j, i>> \in Pods
      BY AgentsAssumption
    <2>. QED  BY <1>1, <2>1, <2>2 DEF ShapeInv, NewPods
  <1>7. HoldInv
    <2>1. \A a \in AllAgents : ~Ticked(a)
      BY <1>1 DEF Ticked
    <2>2. recoveredAt + Hysteresis <= 0 /\ recoveredAt <= now
      BY <1>1, AgentFacts
    <2>. QED  BY <1>1, <2>1, <2>2 DEF HoldInv, Holds
  <1>. QED  BY <1>3, <1>4, <1>5, <1>6, <1>7 DEF DemandInv

LEMMA DemandInvariance == Spec => []DemandInv
  BY DemandStarts, DemandStays, PTL DEF Spec

\* Whatever the agents, their jobs and the grid: the events of an agent that became ready
\* together are admitted by their timestamps, and nothing is admitted while headroom is
\* short nor for the hysteresis after it recovered (KubeDemandAgent.tick,
\* _drain_reorder_buffer).
THEOREM AdmitsInTurn == Spec => AdmissionsInTurn
  <1>1. ASSUME DemandInv, [Next]_vars, admitted' # admitted
        PROVE  /\ headroom >= Threshold /\ now >= recoveredAt + Hysteresis
               /\ \E b \in AllAgents : \E x \in Range(buffer[b]) : Looks(b, x) /\ admitted' = admitted \cup {x.id.job}
    <2>0. PICK b \in AllAgents : \E x \in Range(buffer[b]) : Admit(b, x)
      BY <1>1 DEF Next, AgentStep, StartTick, BeginAgent, DropDuplicate, Refuse, Defer, HoldBack, EndDrain,
                  PodsTick, Report, agentVars, vars
    <2>1. PICK x \in Range(buffer[b]) : Admit(b, x)
      BY <2>0
    <2>2. Looks(b, x) /\ ~capped /\ admitted' = admitted \cup {x.id.job}
      BY <2>1 DEF Admit
    <2>3. turn > 0 /\ Agents[turn] = b /\ step = "drain"
      BY <2>2 DEF Looks, Is
    <2>4. ~(headroom < Threshold) /\ ~(now < holdUntil[b])
      BY <1>1, <2>2, <2>3 DEF DemandInv, HoldInv
    <2>5. /\ headroom \in Nat /\ Threshold \in Int /\ now \in Nat /\ holdUntil[b] \in Int
          /\ recoveredAt \in Int /\ Hysteresis \in Nat /\ turn \in 1 .. Len(Agents)
      BY <1>1, <2>3, DemandTypes, AgentFacts DEF DemandInv
    <2>6. Ticked(b)
      BY <2>3, <2>5 DEF Ticked
    <2>7. Holds(b)
      BY <1>1, <2>4, <2>5, <2>6 DEF DemandInv, HoldInv
    <2>8. now >= recoveredAt + Hysteresis
      BY <2>4, <2>5, <2>7 DEF Holds
    <2>. QED  BY <2>2, <2>4, <2>5, <2>8
  <1>2. ASSUME DemandInv, [Next]_vars, NEW a \in AllAgents, NEW e \in Range(buffer[a]), NEW f \in Range(buffer[a]),
               e.id.job \in admitted' \ admitted, f.observed + Window <= now
        PROVE  e.stamp <= f.stamp
    <2>1. PICK b \in AllAgents : \E x \in Range(buffer[b]) : Looks(b, x) /\ admitted' = admitted \cup {x.id.job}
      BY <1>1, <1>2
    <2>2. PICK x \in Range(buffer[b]) : Looks(b, x) /\ admitted' = admitted \cup {x.id.job}
      BY <2>1
    <2>3. e.id.job = x.id.job
      BY <1>2, <2>2
    <2>4. e.id.job \in Observed(a) /\ x.id.job \in Observed(b)
      BY <1>2 DEF DemandInv, PlacesInv, Waits
    <2>5. a = b
      BY <1>2, <2>3, <2>4, ObservedFacts DEF DemandInv
    <2>6. PICK i \in DOMAIN buffer[a], k \in DOMAIN buffer[a] : e = buffer[a][i] /\ x = buffer[a][k]
      BY <2>5 DEF Range
    <2>7. e = x
      BY <1>2, <2>3, <2>6 DEF DemandInv, PlacesInv, OneEachJob
    <2>. QED  BY <1>2, <2>2, <2>5, <2>7, LooksFacts DEF DemandInv, PlacesInv
  <1>3. DemandInv /\ [Next]_vars =>
          [\A a \in AllAgents : \A e, f \in Range(buffer[a]) :
             (/\ e.id.job \in admitted' \ admitted
              /\ f.observed + Window <= now /\ f.id \notin seen[a]) => e.stamp <= f.stamp]_vars
    BY <1>2
  <1>4. DemandInv /\ [Next]_vars =>
          [admitted' # admitted => headroom >= Threshold /\ now >= recoveredAt + Hysteresis]_vars
    BY <1>1
  <1>5. Spec => OrderKept
    BY <1>3, DemandInvariance, PTL DEF Spec, OrderKept
  <1>6. Spec => HoldAfterRecovery
    BY <1>4, DemandInvariance, PTL DEF Spec, HoldAfterRecovery
  <1>. QED  BY <1>5, <1>6 DEF AdmissionsInTurn

-----------------------------------------------------------------------------
(* How many pods the nodes have room for.                                    *)

LEMMA TotalBounds ==
  ASSUME NEW w, NEW S, Weighs(w, S), NEW k \in Nat
  PROVE  /\ (\A x \in S : w[x] <= k) => Total(w, S) <= k * Cardinality(S)
         /\ (\A x \in S : w[x] >= k) => Total(w, S) >= k * Cardinality(S)
  <1> DEFINE G == {s \in SUBSET S :
                     /\ (\A x \in s : w[x] <= k) => Total(w, s) <= k * Cardinality(s)
                     /\ (\A x \in s : w[x] >= k) => Total(w, s) >= k * Cardinality(s)}
  <1>1. IsFiniteSet(S) /\ \A s \in SUBSET S : Weighs(w, s) /\ IsFiniteSet(s)
    BY FS_Subset DEF Weighs
  <1>2. {} \in G
    <2>1. Total(w, {}) = 0 /\ Cardinality({}) = 0 /\ k * 0 = 0
      BY TotalEmpty, FS_EmptySet
    <2>. QED  BY <2>1
  <1>3. ASSUME NEW s \in SUBSET S, NEW x \in S \ s, s \in G PROVE s \cup {x} \in G
    <2> DEFINE c == Cardinality(s)
               t == Total(w, s)
    <2>1. /\ w[x] \in Nat /\ t \in Nat /\ c \in Nat /\ Total(w, s \cup {x}) = w[x] + t
          /\ Cardinality(s \cup {x}) = c + 1
      <3>1. w[x] \in Nat
        BY DEF Weighs
      <3>2. t \in Nat /\ Total(w, s \cup {x}) = w[x] + t
        BY <1>1, <1>3, <3>1, TotalNat, TotalAdd
      <3>. QED  BY <1>1, <1>3, <3>1, <3>2, FS_AddElement, FS_CardinalityType
    <2>2. /\ (\A y \in s : w[y] <= k) => t <= k * c
          /\ (\A y \in s : w[y] >= k) => t >= k * c
      BY <1>3
    <2> HIDE DEF c, t
    <2>3. k * (c + 1) = k * c + k /\ k * c \in Nat
      BY <2>1
    <2>4. ASSUME \A y \in s \cup {x} : w[y] <= k PROVE w[x] + t <= k * (c + 1)
      <3>1. w[x] <= k /\ t <= k * c
        BY <2>2, <2>4
      <3> DEFINE m == k * c
      <3> HIDE DEF m
      <3>2. m \in Nat /\ t <= m /\ k * (c + 1) = m + k
        BY <2>3, <3>1 DEF m
      <3>. QED  BY <2>1, <3>1, <3>2
    <2>5. ASSUME \A y \in s \cup {x} : w[y] >= k PROVE w[x] + t >= k * (c + 1)
      <3>1. w[x] >= k /\ t >= k * c
        BY <2>2, <2>5
      <3> DEFINE m == k * c
      <3> HIDE DEF m
      <3>2. m \in Nat /\ t >= m /\ k * (c + 1) = m + k
        BY <2>3, <3>1 DEF m
      <3>. QED  BY <2>1, <3>1, <3>2
    <2>. QED  BY <1>3, <2>1, <2>4, <2>5
  <1> HIDE DEF G
  <1>4. S \in G
    BY <1>1, <1>2, <1>3, SetGrows
  <1>. QED  BY <1>4 DEF G

\* Pods of one shape: what k of them need on a node, and whether they may be there.
Allows(p, n) == Pod[p].needs["gpu"] = 0 \/ Pod[p].gpuTypes = {} \/ GpuType[n] \in Pod[p].gpuTypes
HasRoom(k) ==
  k = 0 \/ \A p \in Pods, n \in KubeNodes :
             Allows(p, n) /\ \A r \in Range(Resources) : k * Pod[p].needs[r] <= NodeCapacity[n][r]
Roomy == \E k \in Nat : HasRoom(k) /\ Ceiling <= k * Cardinality(KubeNodes)

RunningPlaced == \A p \in In("running") : onNode[p] \in KubeNodes /\ Allows(p, onNode[p])

LEMMA NeedsAlike ==
  ASSUME Alike, NEW S \in SUBSET Pods, NEW p \in Pods, NEW r \in Range(Resources)
  PROVE  NeedsOf(S, r) = Cardinality(S) * Pod[p].needs[r] /\ Cardinality(S) \in Nat /\ Pod[p].needs[r] \in Nat
  <1> DEFINE w == [q \in Pods |-> Pod[q].needs[r]]
             k == Pod[p].needs[r]
  <1>1. Weighs(w, S) /\ IsFiniteSet(S) /\ NeedsOf(S, r) = Total(w, S) /\ Total(w, S) \in Nat
    BY Needs, PodFacts, FS_Subset DEF NeedsOf
  <1>2. k \in Nat /\ \A x \in S : w[x] = k
    BY PodFacts DEF Alike
  <1>3. Cardinality(S) \in Nat
    BY <1>1, FS_CardinalityType
  <1> HIDE DEF w, k
  <1>4. (\A x \in S : w[x] <= k) /\ (\A x \in S : w[x] >= k)
    BY <1>2
  <1>5. Total(w, S) <= k * Cardinality(S) /\ Total(w, S) >= k * Cardinality(S)
    BY <1>1, <1>2, <1>4, TotalBounds
  <1> DEFINE c == Cardinality(S)
  <1> HIDE DEF c
  <1>6. k * c \in Nat /\ k * c = c * k /\ c \in Nat
    BY <1>2, <1>3 DEF c
  <1>7. Total(w, S) = k * c
    BY <1>1, <1>5, <1>6 DEF c
  <1>. QED  BY <1>1, <1>2, <1>3, <1>6, <1>7 DEF k, c

\* The running pods, node by node.
LEMMA RunningCounts ==
  ASSUME PodsInv, RunningPlaced
  PROVE  LET w == [n \in KubeNodes |-> Cardinality(Running(n))]
         IN  /\ Weighs(w, KubeNodes) /\ Total(w, KubeNodes) = Cardinality(In("running"))
             /\ IsFiniteSet(In("running")) /\ Cardinality(In("running")) \in Nat
             /\ \A n \in KubeNodes : w[n] \in Nat /\ IsFiniteSet(Running(n)) /\ Running(n) \in SUBSET Pods
  <1> DEFINE part == [n \in KubeNodes |-> Running(n)]
             w == [n \in KubeNodes |-> Cardinality(Running(n))]
  <1>1. IsFiniteSet(KubeNodes) /\ IsFiniteSet(In("running")) /\ In("running") \in SUBSET Pods
    BY NodesAssumption, PodsAssumption, FS_Subset DEF In
  <1>2. ASSUME NEW n \in KubeNodes
        PROVE  IsFiniteSet(Running(n)) /\ Running(n) \in SUBSET Pods /\ Cardinality(Running(n)) \in Nat
    <2>1. Running(n) \in SUBSET In("running")
      BY DEF Running
    <2>. QED  BY <1>1, <2>1, FS_Subset, FS_CardinalityType
  <1>3. /\ \A n \in KubeNodes : part[n] = Running(n) /\ IsFiniteSet(part[n])
        /\ \A m, n \in KubeNodes : m # n => part[m] \cap part[n] = {}
        /\ \A n \in KubeNodes : w[n] = Cardinality(part[n]) /\ w[n] \in Nat
    BY <1>2 DEF Running
  <1>4. UNION {part[n] : n \in KubeNodes} = In("running")
    <2>1. \A p \in In("running") : onNode[p] \in KubeNodes /\ p \in Running(onNode[p])
      BY DEF RunningPlaced, Running
    <2>2. \A n \in KubeNodes : Running(n) \subseteq In("running")
      BY DEF Running
    <2>. QED  BY <1>3, <2>1, <2>2
  <1> HIDE DEF part, w
  <1>5. Weighs(w, KubeNodes) /\ Cardinality(UNION {part[n] : n \in KubeNodes}) = Total(w, KubeNodes)
    BY <1>1, <1>3, TotalOfParts
  <1>. QED  BY <1>1, <1>2, <1>3, <1>4, <1>5, FS_CardinalityType DEF w

\* Where k pods have room on each node, one more has while fewer run than that makes.
LEMMA OneMoreFits ==
  ASSUME Alike, PodsInv, RunningPlaced, NEW k \in Nat, HasRoom(k), NEW p \in Pods,
         Cardinality(In("running")) < k * Cardinality(KubeNodes)
  PROVE  Candidates(p) # {}
  <1> DEFINE w == [n \in KubeNodes |-> Cardinality(Running(n))]
  <1>1. /\ Weighs(w, KubeNodes) /\ Total(w, KubeNodes) = Cardinality(In("running"))
        /\ Cardinality(In("running")) \in Nat
        /\ \A n \in KubeNodes : w[n] \in Nat /\ w[n] = Cardinality(Running(n)) /\ Running(n) \in SUBSET Pods
    BY RunningCounts
  <1>2. Cardinality(KubeNodes) \in Nat
    BY NodesAssumption, FS_CardinalityType
  <1> HIDE DEF w
  <1>3. PICK n \in KubeNodes : w[n] < k
    <2>1. SUFFICES ASSUME \A n \in KubeNodes : ~(w[n] < k) PROVE FALSE
      OBVIOUS
    <2>2. \A n \in KubeNodes : w[n] >= k
      BY <1>1, <2>1
    <2>3. Total(w, KubeNodes) >= k * Cardinality(KubeNodes)
      BY <1>1, <2>2, TotalBounds
    <2> DEFINE m == k * Cardinality(KubeNodes)
    <2>4. m \in Nat
      BY <1>2
    <2> HIDE DEF m
    <2>5. Cardinality(In("running")) < m /\ Total(w, KubeNodes) >= m
      BY <2>3 DEF m
    <2>. QED  BY <1>1, <2>4, <2>5
  <1>4. k # 0 /\ Allows(p, n) /\ \A r \in Range(Resources) : k * Pod[p].needs[r] <= NodeCapacity[n][r]
    BY <1>1, <1>3 DEF HasRoom
  <1>5. ASSUME NEW r \in Range(Resources)
        PROVE  allocated[n][r] + Pod[p].needs[r] <= NodeCapacity[n][r]
    <2> DEFINE need == Pod[p].needs[r]
               c == w[n]
    <2>1. /\ allocated[n][r] = NeedsOf(Running(n), r)
          /\ NeedsOf(Running(n), r) = c * need /\ c \in Nat /\ need \in Nat
      <3>1. allocated[n][r] = NeedsOf(Running(n), r)
        BY DEF PodsInv, NodesAccounted, Running
      <3>2. Running(n) \in SUBSET Pods /\ c = Cardinality(Running(n)) /\ c \in Nat
        BY <1>1
      <3>3. NeedsOf(Running(n), r) = Cardinality(Running(n)) * need /\ need \in Nat
        BY <3>2, NeedsAlike
      <3>. QED  BY <3>1, <3>2, <3>3
    <2>2. k * need <= NodeCapacity[n][r] /\ NodeCapacity[n][r] \in Nat /\ c < k
      BY <1>3, <1>4, PodFacts
    <2> HIDE DEF need, c
    <2>3. c * need + need <= k * need
      <3>1. PICK d \in Nat : k = c + 1 + d
        <4>1. k - c - 1 \in Nat /\ k = c + 1 + (k - c - 1)
          BY <2>1, <2>2
        <4>. QED  BY <4>1
      <3>2. (c + 1 + d) * need = c * need + need + d * need
        BY <2>1, <3>1
      <3>3. d * need \in Nat /\ c * need \in Nat
        BY <2>1
      <3>4. \A x \in Nat, y \in Nat : x + need <= x + need + y
        BY <2>1
      <3>. QED  BY <3>1, <3>2, <3>3, <3>4
    <2> DEFINE x == c * need
               y == k * need
    <2>4. x \in Nat /\ y \in Nat
      BY <2>1
    <2> HIDE DEF x, y
    <2>5. x + need <= y /\ y <= NodeCapacity[n][r] /\ allocated[n][r] = x
      BY <2>1, <2>2, <2>3 DEF x, y
    <2>6. x + need <= NodeCapacity[n][r]
      BY <2>1, <2>2, <2>4, <2>5
    <2>. QED  BY <2>5, <2>6 DEF need
  <1>6. Fits(p, n, allocated[n])
    BY <1>4, <1>5 DEF Fits, Allows
  <1>. QED  BY <1>6 DEF Candidates

\* Where the nodes have no room for the contracted capacity, less of it runs.
LEMMA FewerRun ==
  ASSUME Alike, PodsInv, RunningPlaced, Ceiling \in Nat, ~Roomy
  PROVE  Cardinality(In("running")) <= Ceiling
  <1> DEFINE w == [n \in KubeNodes |-> Cardinality(Running(n))]
             f == [n \in KubeNodes |-> -w[n]]
  <1>1. /\ Weighs(w, KubeNodes) /\ Total(w, KubeNodes) = Cardinality(In("running"))
        /\ Cardinality(In("running")) \in Nat /\ IsFiniteSet(KubeNodes)
        /\ \A n \in KubeNodes : w[n] \in Nat /\ w[n] = Cardinality(Running(n)) /\ Running(n) \in SUBSET Pods
                                /\ IsFiniteSet(Running(n))
    BY RunningCounts, NodesAssumption
  <1>2. Cardinality(KubeNodes) \in Nat
    BY <1>1, FS_CardinalityType
  <1> HIDE DEF w
  <1>3. CASE KubeNodes = {}
    BY <1>1, <1>3, TotalEmpty
  <1>4. CASE KubeNodes # {}
    <2>1. f \in [KubeNodes -> Int]
      BY <1>1
    <2>2. PICK n \in KubeNodes : \A m \in KubeNodes : f[n] <= f[m]
      <3> HIDE DEF f
      <3>. QED  BY <1>1, <1>4, <2>1, ArgMin
    <2>3. \A m \in KubeNodes : w[m] <= w[n]
      BY <1>1, <2>2
    <2> DEFINE k == w[n]
    <2>4. k \in Nat
      BY <1>1
    <2>5. HasRoom(k)
      <3>1. CASE k = 0
        BY <3>1 DEF HasRoom
      <3>2. CASE k # 0
        <4>1. PICK q \in Running(n) : TRUE
          BY <1>1, <3>2, FS_EmptySet
        <4>2. q \in Pods /\ q \in In("running") /\ onNode[q] = n /\ Allows(q, n)
          BY <4>1 DEF Running, RunningPlaced, In
        <4>3. ASSUME NEW r \in Range(Resources)
              PROVE  k * Pod[q].needs[r] <= NodeCapacity[n][r]
          <5>1. /\ allocated[n][r] = NeedsOf(Running(n), r)
                /\ allocated[n][r] <= NodeCapacity[n][r]
            BY DEF PodsInv, NodesAccounted, Running
          <5>2. NeedsOf(Running(n), r) = k * Pod[q].needs[r]
            BY <1>1, <4>2, NeedsAlike
          <5>. QED  BY <5>1, <5>2
        <4>4. ASSUME NEW p \in Pods, NEW m \in KubeNodes
              PROVE  Allows(p, m) /\ \A r \in Range(Resources) : k * Pod[p].needs[r] <= NodeCapacity[m][r]
          <5>1. Pod[p].needs = Pod[q].needs /\ Pod[p].gpuTypes = Pod[q].gpuTypes
            BY <4>2 DEF Alike
          <5>2. NodeCapacity[m] = NodeCapacity[n] /\ GpuType[m] = GpuType[n]
            BY DEF Alike
          <5> HIDE DEF k
          <5>. QED  BY <4>2, <4>3, <5>1, <5>2 DEF Allows
        <4>. QED  BY <4>4 DEF HasRoom
      <3>. QED  BY <3>1, <3>2
    <2>6. Total(w, KubeNodes) <= k * Cardinality(KubeNodes)
      BY <1>1, <2>3, <2>4, TotalBounds
    <2>7. ~(Ceiling <= k * Cardinality(KubeNodes))
      BY <2>4, <2>5 DEF Roomy
    <2> DEFINE m == k * Cardinality(KubeNodes)
    <2>8. m \in Nat
      BY <1>2, <2>4
    <2> HIDE DEF m
    <2>9. Total(w, KubeNodes) <= m /\ ~(Ceiling <= m)
      BY <2>6, <2>7 DEF m
    <2>. QED  BY <1>1, <2>8, <2>9
  <1>. QED  BY <1>3, <1>4

-----------------------------------------------------------------------------
(* What the agents run.                                                      *)

\* The agents that have reported in this tick.
Reports(a) == turn = 0 \/ \E i \in 1 .. Len(Agents) : Agents[i] = a /\ i < turn

LoadInv ==
  \A a \in AllAgents : Reports(a) => reported[a] = Max({MinNodes, AdmittedNodes(a)})

GangsInv ==
  Ceiling # NoCeiling => \A a \in AllAgents \ Kubernetes : NodesOf(active[a]) <= Ceiling

\* The pods that run or are about to be tried.
Queued == In("active") \cup In("running")

\* A Kubernetes agent drains its buffer, or its scheduler tries the pods.
PodsMove == step \in {"drain", "pods"} /\ Agents[turn] \in Kubernetes

\* Where there is room for the contracted capacity, no pod waits for a node, and the
\* agent counts every pod.
QueueInv ==
  /\ RunningPlaced
  /\ ~PodsMove => In("active") = {}
  /\ Ceiling # NoCeiling /\ Roomy =>
       /\ In("backoff") = {} /\ In("unschedulable") = {}
       /\ Cardinality(Queued) <= Ceiling
       /\ step = "drain" /\ PodsMove => accepted = Cardinality(Queued)

LEMMA AdmittedIs ==
  ASSUME TypeOK, PlacesInv, NEW a \in AllAgents
  PROVE  AdmittedNodes(a) = IF a \in Kubernetes THEN Cardinality(In("running")) ELSE NodesOf(active[a])
  BY GangFacts DEF AdmittedNodes

LEMMA QueuedFinite == IsFiniteSet(Queued) /\ Cardinality(Queued) \in Nat
  <1>1. Queued \in SUBSET Pods /\ IsFiniteSet(Pods)
    BY PodsAssumption DEF Queued, In
  <1>. QED  BY <1>1, FS_Subset, FS_CardinalityType

\* The scheduler's tick.
LEMMA TickQueue ==
  ASSUME Alike, DemandInv, QueueInv, TickStep, PodsMove, step = "pods"
  PROVE  /\ RunningPlaced'
         /\ phase' = "done" => In("active")' = {}
         /\ Ceiling # NoCeiling /\ Roomy => /\ In("backoff")' = {} /\ In("unschedulable")' = {}
                                         /\ Queued' \subseteq Queued
  <1>1. PodsInv /\ PodsInv' /\ where \in [Pods -> {"new", "active", "backoff", "unschedulable", "running", "completed", "expired"}]
    BY TickKeeps DEF DemandInv, PodsInv, PodsTypeOK
  <1>2. phase' = "done" => In("active")' = {}
    BY <1>1 DEF PodsInv, InTurn
  <1>3. CASE BeginTick
    <2>1. ASSUME NEW p \in Pods
          PROVE  /\ where'[p] = "running" => where[p] = "running"
                 /\ where'[p] = "active" => where[p] = "active" \/ p \in In("backoff") \cup In("unschedulable")
                 /\ where'[p] \in {"backoff", "unschedulable"} => where[p] = where'[p]
      <3>1. where'[p] = CASE p \in DueToEnd -> "completed"
                          [] p \in BackoffOver \cup Woken -> IF Expired(p) THEN "expired" ELSE "active"
                          [] OTHER -> where[p]
        BY <1>3 DEF BeginTick
      <3>2. /\ p \in DueToEnd => where[p] = "running"
            /\ p \in BackoffOver \cup Woken => p \in In("backoff") \cup In("unschedulable")
            /\ p \in DueToEnd => p \notin BackoffOver \cup Woken
        BY DEF DueToEnd, BackoffOver, Woken, In
      <3>3. CASE p \in DueToEnd
        BY <3>1, <3>2, <3>3
      <3>4. CASE p \in BackoffOver \cup Woken
        BY <3>1, <3>2, <3>4
      <3>5. CASE p \notin DueToEnd /\ p \notin BackoffOver \cup Woken
        BY <3>1, <3>5
      <3>. QED  BY <3>3, <3>4, <3>5
    <2>2. RunningPlaced'
      BY <1>3, <2>1 DEF BeginTick, RunningPlaced, QueueInv, In, Allows
    <2>3. Ceiling # NoCeiling /\ Roomy => /\ In("backoff")' = {} /\ In("unschedulable")' = {}
                                          /\ Queued' \subseteq Queued
      BY <2>1 DEF QueueInv, In, Queued
    <2>. QED  BY <1>2, <2>2, <2>3
  <1>4. CASE EndTick
    <2>1. \A q : In(q)' = In(q)
      BY <1>4 DEF EndTick, podVars, In
    <2>. QED  BY <1>2, <1>4, <2>1 DEF EndTick, podVars, RunningPlaced, QueueInv, Queued, Allows
  <1>5. ASSUME NEW p \in Pods, Expire(p) \/ BackOff(p) \/ GiveUp(p)
        PROVE  /\ RunningPlaced' /\ Queued' \subseteq Queued
               /\ Ceiling # NoCeiling /\ Roomy => In("backoff")' = {} /\ In("unschedulable")' = {}
    <2>1. /\ p \in In("active") /\ onNode' = onNode
          /\ Expire(p) => where'[p] = "expired"
          /\ ~Expire(p) => Candidates(p) = {}
          /\ \A q \in Pods \ {p} : where'[q] = where[q]
          /\ where'[p] \in {"expired", "backoff", "unschedulable"}
      BY <1>1, <1>5 DEF Expire, BackOff, GiveUp, NextPod, In
    <2>2. RunningPlaced' /\ Queued' \subseteq Queued
      BY <2>1 DEF RunningPlaced, QueueInv, In, Queued, Allows
    <2>3. ASSUME Ceiling # NoCeiling, Roomy PROVE Expire(p)
      <3>1. SUFFICES ASSUME Candidates(p) = {} PROVE FALSE
        BY <2>1
      <3>2. PICK k \in Nat : HasRoom(k) /\ Ceiling <= k * Cardinality(KubeNodes)
        BY <2>3 DEF Roomy
      <3> DEFINE m == k * Cardinality(KubeNodes)
                 c == Cardinality(In("running"))
      <3>3. m \in Nat /\ Ceiling \in Nat /\ c \in Nat
        <4>1. Cardinality(KubeNodes) \in Nat
          BY NodesAssumption, FS_CardinalityType
        <4>2. In("running") \in SUBSET Queued
          BY DEF Queued
        <4>. QED  BY <2>3, <4>1, <4>2, QueuedFinite, FS_Subset, FS_CardinalityType, AgentFacts
      <3>4. c + 1 <= Cardinality(Queued)
        <4>1. In("running") \cup {p} \in SUBSET Queued /\ p \notin In("running")
          BY <2>1 DEF Queued, In
        <4>2. IsFiniteSet(In("running"))
          BY <4>1, QueuedFinite, FS_Subset
        <4>3. Cardinality(In("running") \cup {p}) = c + 1
          BY <4>1, <4>2, FS_AddElement
        <4>4. Cardinality(In("running") \cup {p}) <= Cardinality(Queued)
          BY <4>1, QueuedFinite, FS_Subset
        <4>. QED  BY <4>3, <4>4
      <3>5. Cardinality(Queued) <= Ceiling
        BY <2>3 DEF QueueInv
      <3>6. ~(c < m)
        <4>1. p \in Pods /\ RunningPlaced
          BY DEF QueueInv
        <4>. QED  BY <1>1, <3>1, <3>2, <4>1, OneMoreFits
      <3>7. Ceiling <= m
        BY <3>2
      <3> HIDE DEF m, c
      <3>. QED  BY <3>3, <3>4, <3>5, <3>6, <3>7, QueuedFinite
    <2>4. Ceiling # NoCeiling /\ Roomy => In("backoff")' = {} /\ In("unschedulable")' = {}
      BY <2>1, <2>3 DEF QueueInv, In
    <2>. QED  BY <2>2, <2>4
  <1>6. ASSUME NEW p \in Pods, Place(p)
        PROVE  /\ RunningPlaced' /\ Queued' \subseteq Queued
               /\ Ceiling # NoCeiling /\ Roomy => In("backoff")' = {} /\ In("unschedulable")' = {}
    <2>1. BestFit(p) \in Candidates(p)
      BY <1>1, <1>6, PlaceKeeps
    <2>2. BestFit(p) \in KubeNodes /\ Allows(p, BestFit(p))
      BY <2>1 DEF Candidates, Fits, Allows
    <2> DEFINE b == BestFit(p)
    <2>3. /\ p \in In("active") /\ where' = [where EXCEPT ![p] = "running"]
          /\ onNode' = [onNode EXCEPT ![p] = b]
      BY <1>6 DEF Place, NextPod
    <2>4. b \in KubeNodes /\ Allows(p, b) /\ onNode \in [Pods -> KubeNodes \cup {0}]
      BY <1>1, <2>2, PodTypes DEF PodsInv
    <2> HIDE DEF b
    <2>5. /\ where'[p] = "running" /\ onNode'[p] = b
          /\ \A q \in Pods \ {p} : where'[q] = where[q] /\ onNode'[q] = onNode[q]
      BY <1>1, <2>3, <2>4
    <2>6. RunningPlaced'
      <3>1. SUFFICES ASSUME NEW q \in Pods, where'[q] = "running"
                     PROVE  onNode'[q] \in KubeNodes /\ Allows(q, onNode'[q])
        BY DEF RunningPlaced, In, Allows
      <3>. QED  BY <2>4, <2>5, <3>1 DEF QueueInv, RunningPlaced, In
    <2>7. Queued' \subseteq Queued
      BY <2>3, <2>5 DEF Queued, In
    <2>8. Ceiling # NoCeiling /\ Roomy => In("backoff")' = {} /\ In("unschedulable")' = {}
      BY <2>5 DEF QueueInv, In
    <2>. QED  BY <2>6, <2>7, <2>8
  <1>7. CASE \E p \in Pods : Expire(p) \/ BackOff(p) \/ GiveUp(p)
    BY <1>2, <1>5, <1>7
  <1>8. CASE \E p \in Pods : Place(p)
    BY <1>2, <1>6, <1>8
  <1>9. \/ BeginTick \/ EndTick \/ \E p \in Pods : Place(p)
        \/ \E p \in Pods : Expire(p) \/ BackOff(p) \/ GiveUp(p)
    BY DEF TickStep
  <1>. QED  BY <1>3, <1>4, <1>7, <1>8, <1>9

RunsInv == DemandInv /\ LoadInv /\ GangsInv /\ QueueInv

\* Only the agent whose turn it is changes what it runs.
LEMMA OthersRun ==
  ASSUME DemandInv, DemandInv', NEW a \in AllAgents, AgentStep(a), NEW b \in AllAgents, b # a
  PROVE  AdmittedNodes(b)' = AdmittedNodes(b) /\ active'[b] = active[b]
  <1>1. active'[b] = active[b]
    <2>1. active \in [AllAgents -> SUBSET [id : Ids, endsAt : Nat]]
      BY DemandTypes DEF DemandInv
    <2>2. CASE \E e \in Range(buffer[a]) : Admit(a, e)
      BY <2>1, <2>2 DEF Admit
    <2>3. CASE BeginAgent(a) \/ Report(a)
      BY <2>1, <2>3 DEF BeginAgent, Report
    <2>4. CASE UNCHANGED active
      BY <2>4
    <2>. QED  BY <2>2, <2>3, <2>4 DEF AgentStep, DropDuplicate, Refuse, Defer, HoldBack, EndDrain, PodsTick,
                                    agentVars
  <1>2. b \in Kubernetes => UNCHANGED where
    <2>1. SUFFICES ASSUME b \in Kubernetes PROVE UNCHANGED where
      OBVIOUS
    <2>2. a \notin Kubernetes
      BY <2>1, AgentsAssumption
    <2>3. ~PodsTick(a)
      BY <2>2 DEF PodsTick, Is, DemandInv, ShapeInv
    <2>4. \A e : Admit(a, e) => UNCHANGED where
      BY <2>2 DEF Admit
    <2>. QED  BY <2>3, <2>4 DEF AgentStep, BeginAgent, DropDuplicate, Refuse, Defer, HoldBack, EndDrain,
                                Report, podVars
  <1>3. AdmittedNodes(b) = IF b \in Kubernetes THEN Cardinality(In("running")) ELSE NodesOf(active[b])
    BY AdmittedIs DEF DemandInv
  <1>4. AdmittedNodes(b)' = IF b \in Kubernetes THEN Cardinality(In("running"))' ELSE NodesOf(active'[b])
    <2>1. headroom' \in Nat
      BY AgentFacts DEF DemandInv, TypeOK
    <2>2. Survivors(b)' = active'[b]
      BY <2>1 DEF Survivors
    <2>. QED  BY <2>2 DEF AdmittedNodes
  <1>5. b \in Kubernetes => In("running")' = In("running")
    BY <1>2 DEF In
  <1>. QED  BY <1>1, <1>3, <1>4, <1>5

LEMMA LoadKeeps ==
  ASSUME DemandInv, DemandInv', LoadInv, NEW a \in AllAgents, AgentStep(a)
  PROVE  LoadInv'
  <1>1. turn \in Nat /\ turn \in 1 .. Len(Agents) /\ Agents[turn] = a /\ Len(Agents) \in Nat
    <2>1. turn > 0 /\ Agents[turn] = a
      BY DEF AgentStep, BeginAgent, DropDuplicate, Refuse, Defer, HoldBack, Admit, EndDrain, PodsTick, Report,
             Looks, Is
    <2>. QED  BY <2>1, DemandTypes, AgentFacts DEF DemandInv
  <1>2. ASSUME NEW b \in AllAgents, b # a
        PROVE  (Reports(b)' => Reports(b)) /\ reported'[b] = reported[b]
    <2>1. CASE Report(a)
      <3>1. turn' = (IF turn < Len(Agents) THEN turn + 1 ELSE 0)
            /\ reported' = [reported EXCEPT ![a] = Signalled(a)]
        BY <2>1 DEF Report
      <3>2. reported'[b] = reported[b]
        BY <1>2, <3>1, DemandTypes DEF DemandInv
      <3>3. ASSUME Reports(b)' PROVE Reports(b)
        <4>1. PICK i \in 1 .. Len(Agents) : Agents[i] = b
          BY AgentFacts
        <4>2. i # turn
          BY <1>1, <1>2, <4>1
        <4>3. \A k \in 1 .. Len(Agents) : Agents[k] = b => k = i
          BY <4>1, AgentFacts
        <4>4. turn' = 0 \/ i < turn'
          BY <3>3, <4>3 DEF Reports
        <4>5. i < turn
          BY <1>1, <3>1, <4>1, <4>2, <4>4
        <4>. QED  BY <4>1, <4>5 DEF Reports
      <3>. QED  BY <3>2, <3>3
    <2>2. CASE UNCHANGED <<turn, reported>>
      BY <2>2 DEF Reports
    <2>. QED  BY <2>1, <2>2 DEF AgentStep, BeginAgent, DropDuplicate, Refuse, Defer, HoldBack, Admit, EndDrain,
                                PodsTick, Look, agentVars
  <1>3. Reports(a)' => reported'[a] = Max({MinNodes, AdmittedNodes(a)})'
    <2>1. ~Reports(a)
      <3>1. \A i \in 1 .. Len(Agents) : Agents[i] = a => i = turn
        BY <1>1, AgentFacts
      <3>. QED  BY <1>1, <3>1 DEF Reports
    <2>2. CASE Report(a)
      <3>1. active' = active /\ reported' = [reported EXCEPT ![a] = Max({MinNodes, AdmittedNodes(a)})]
        BY <2>2, ReportKeeps
      <3>2. reported'[a] = Max({MinNodes, AdmittedNodes(a)})
        BY <3>1, DemandTypes DEF DemandInv
      <3>3. AdmittedNodes(a)' = AdmittedNodes(a)
        <4>1. where' = where /\ headroom' = headroom
          BY <2>2 DEF Report, podVars
        <4>. QED  BY <3>1, <4>1 DEF AdmittedNodes, Survivors, In
      <3>. QED  BY <3>2, <3>3
    <2>3. CASE UNCHANGED turn
      BY <2>1, <2>3 DEF Reports
    <2>. QED  BY <2>2, <2>3 DEF AgentStep, BeginAgent, DropDuplicate, Refuse, Defer, HoldBack, Admit, EndDrain,
                                PodsTick, Look
  <1>4. ASSUME NEW b \in AllAgents, b # a, Reports(b)'
        PROVE  reported'[b] = Max({MinNodes, AdmittedNodes(b)})'
    <2>1. Reports(b) /\ reported'[b] = reported[b]
      BY <1>2, <1>4
    <2>2. AdmittedNodes(b)' = AdmittedNodes(b)
      BY <1>4, OthersRun
    <2>. QED  BY <2>1, <2>2 DEF LoadInv
  <1>. QED  BY <1>3, <1>4 DEF LoadInv

\* An agent of gangs counts what it runs before it admits one more.
LEMMA GangsKeep ==
  ASSUME DemandInv, DemandInv', GangsInv, NEW a \in AllAgents, AgentStep(a)
  PROVE  GangsInv'
  <1>1. SUFFICES ASSUME Ceiling # NoCeiling, a \notin Kubernetes PROVE NodesOf(active'[a]) <= Ceiling
    BY OthersRun DEF GangsInv
  <1> DEFINE w == [r \in active[a] |-> Size[r.id.job]]
  <1>2. /\ NodesOf(active[a]) <= Ceiling /\ Ceiling \in Nat /\ NodesOf(active[a]) \in Nat
        /\ Weighs(w, active[a]) /\ NodesOf(active[a]) = Total(w, active[a]) /\ IsFiniteSet(active[a])
        /\ active \in [AllAgents -> SUBSET [id : Ids, endsAt : Nat]]
    BY <1>1, GangFacts, BufferFacts, AgentFacts, DemandTypes DEF DemandInv, GangsInv, NodesOf
  <1>3. CASE BeginAgent(a)
    <2>1. active'[a] \in SUBSET active[a]
      BY <1>2, <1>3 DEF BeginAgent
    <2>2. NodesOf(active'[a]) <= NodesOf(active[a]) /\ NodesOf(active'[a]) \in Nat
      <3> DEFINE T == active'[a]
                 v == [r \in T |-> Size[r.id.job]]
      <3>1. T \in SUBSET active[a] /\ \A r \in T : v[r] = w[r]
        BY <2>1
      <3>2. NodesOf(T) = Total(v, T)
        BY DEF NodesOf
      <3> HIDE DEF w, v, T
      <3>3. Weighs(w, T) /\ Total(w, T) \in Nat
        BY <1>2, <3>1, FS_Subset, TotalNat DEF Weighs
      <3>4. Total(v, T) = Total(w, T)
        BY <3>1, <3>3, TotalSame
      <3>. QED  BY <1>2, <3>1, <3>2, <3>3, <3>4, TotalMonotone DEF T
    <2>. QED  BY <1>2, <2>2
  <1>4. ASSUME NEW e, Admit(a, e) PROVE NodesOf(active'[a]) <= Ceiling
    <2> DEFINE r == [id |-> e.id, endsAt |-> now + Length[e.id.job]]
               s == Size[e.id.job]
               n == NodesOf(active[a])
    <2>1. active'[a] = active[a] \cup {r} /\ ~OverCeiling(a, e) /\ Looks(a, e)
      BY <1>1, <1>2, <1>4 DEF Admit
    <2>2. s \in Nat
      <3>1. Sifts(a, e)
        BY <1>4 DEF Sifts
      <3>2. e.id.job \in Observed(a)
        BY <3>1, SiftPlaces DEF DemandInv
      <3>. QED  BY <3>2, GangFacts DEF DemandInv
    <2>3. n + s <= Ceiling
      <3>1. already[ClusterOf[a]] \in Nat
        BY DemandTypes, AgentFacts DEF DemandInv
      <3>2. ~(n + already[ClusterOf[a]] + s > Ceiling)
        BY <1>1, <2>1 DEF OverCeiling, Committed
      <3> HIDE DEF n, s
      <3>3. n \in Nat
        BY <1>2 DEF n
      <3>. QED  BY <1>2, <2>2, <3>1, <3>2, <3>3
    <2>4. CASE r \in active[a]
      <3>1. active'[a] = active[a]
        BY <2>1, <2>4
      <3>. QED  BY <1>2, <3>1
    <2>5. CASE r \notin active[a]
      <3> DEFINE T == active[a] \cup {r}
                 v == [q \in T |-> Size[q.id.job]]
      <3>1. v[r] = s /\ (\A q \in active[a] : v[q] = w[q]) /\ NodesOf(T) = Total(v, T)
        BY DEF NodesOf
      <3> HIDE DEF v, w, r, s
      <3>2. Total(v, active[a]) = Total(w, active[a]) /\ Weighs(v, active[a])
        BY <1>2, <3>1, TotalSame DEF Weighs
      <3>3. Total(v, active[a] \cup {r}) = v[r] + Total(v, active[a])
        BY <2>2, <2>5, <3>1, <3>2, TotalAdd
      <3>4. NodesOf(active'[a]) = s + n
        BY <1>2, <2>1, <3>1, <3>2, <3>3
      <3>. QED  BY <1>2, <2>2, <2>3, <3>4
    <2>. QED  BY <2>4, <2>5
  <1>5. CASE Report(a)
    BY <1>2, <1>5, ReportKeeps
  <1>6. CASE UNCHANGED active
    BY <1>2, <1>6
  <1>. QED  BY <1>3, <1>4, <1>5, <1>6 DEF AgentStep, DropDuplicate, Refuse, Defer, HoldBack, EndDrain, PodsTick,
                                        agentVars

LEMMA NodesOfJob ==
  ASSUME NEW j, NEW n \in Nat
  PROVE  LET R == {<<j, i>> : i \in 1 .. n} IN IsFiniteSet(R) /\ Cardinality(R) = n
  <1> DEFINE R == {<<j, i>> : i \in 1 .. n}
             f == [i \in 1 .. n |-> <<j, i>>]
  <1>1. f \in Surjection(1 .. n, R)
    BY DEF Surjection
  <1>2. f \in Injection(1 .. n, R)
    <2>1. f \in [1 .. n -> R]
      OBVIOUS
    <2>2. \A i, k \in 1 .. n : f[i] = f[k] => i = k
      OBVIOUS
    <2> HIDE DEF f, R
    <2>. QED  BY <2>1, <2>2 DEF Injection, IsInjective
  <1>3. IsFiniteSet(1 .. n) /\ Cardinality(1 .. n) = n
    <2>1. 1 \in Int /\ n \in Int
      OBVIOUS
    <2>2. IsFiniteSet(1 .. n) /\ Cardinality(1 .. n) = IF 1 > n THEN 0 ELSE n - 1 + 1
      BY <2>1, FS_Interval
    <2>. QED  BY <2>2
  <1> HIDE DEF f, R
  <1>4. IsFiniteSet(R) /\ Cardinality(R) = n
    BY <1>1, <1>2, <1>3, FS_Surjection
  <1>. QED  BY <1>4 DEF R

\* The pods of a job join those that the agent counts.
LEMMA AdmitQueue ==
  ASSUME DemandInv, QueueInv, NEW a \in Kubernetes, NEW e, Admit(a, e)
  PROVE  QueueInv'
  <1> DEFINE ps == [i \in 1 .. Size[e.id.job] |-> <<e.id.job, i>>]
             R == {<<e.id.job, i>> : i \in 1 .. Size[e.id.job]}
             n == Size[e.id.job]
  <1>1. /\ a \in AllAgents /\ Looks(a, e) /\ ~OverCeiling(a, e) /\ Enqueue(ps)
        /\ accepted' = accepted + n /\ UNCHANGED <<step, turn, onNode>>
    BY AgentsAssumption DEF Admit, Look, AllAgents
  <1>2. e.id.job \in Observed(a) \ (admitted \cup refused)
    <2>1. Sifts(a, e)
      BY DEF Sifts
    <2>. QED  BY <1>1, <2>1, SiftPlaces DEF DemandInv
  <1>3. e.id.job \in Range(Jobs[a]) \ admitted /\ n \in Nat /\ accepted \in Nat
    <2>1. Size[e.id.job] \in Nat
      BY <1>1, <1>2, GangFacts DEF DemandInv
    <2>2. e.id.job \in Range(Jobs[a])
      BY <1>1, <1>2, ObservedFacts DEF DemandInv
    <2>. QED  BY <1>2, <2>1, <2>2, DemandTypes DEF DemandInv
  <1>4. Range(ps) = R
    BY <1>3, PodsOfJob
  <1>5. R \in SUBSET Pods /\ \A p \in R : where[p] = "new"
    <2>1. {e.id.job} \X (1 .. Size[e.id.job]) \subseteq Pods
      BY <1>1, <1>3, AgentsAssumption DEF AllAgents
    <2>. QED  BY <1>3, <2>1 DEF DemandInv, NewPods
  <1>6. IsFiniteSet(R) /\ Cardinality(R) = n
    BY <1>3, NodesOfJob
  <1> HIDE DEF ps, R, n
  <1>7. \A p \in Pods : where'[p] = IF p \in R THEN "active" ELSE where[p]
    BY <1>1, <1>4 DEF Enqueue
  <1>8. /\ \A q : q \notin {"new", "active"} => In(q)' = In(q)
        /\ Queued' = Queued \cup R /\ Queued \cap R = {}
    BY <1>5, <1>7 DEF In, Queued
  <1>9. step = "drain" /\ Agents[turn] = a /\ PodsMove /\ PodsMove'
    BY <1>1 DEF Looks, Is, PodsMove
  <1>10. RunningPlaced'
    BY <1>1, <1>8 DEF RunningPlaced, QueueInv, Allows
  <1>11. Cardinality(Queued') = Cardinality(Queued) + n
    <2>1. Cardinality(Queued \cap R) = 0
      BY <1>8, FS_EmptySet
    <2>2. Cardinality(Queued \cup R) = Cardinality(Queued) + Cardinality(R) - Cardinality(Queued \cap R)
      BY <1>6, QueuedFinite, FS_Union
    <2>. QED  BY <1>3, <1>6, <1>8, <2>1, <2>2, QueuedFinite
  <1>12. ASSUME Ceiling # NoCeiling, Roomy
         PROVE  /\ In("backoff")' = {} /\ In("unschedulable")' = {}
                /\ Cardinality(Queued') <= Ceiling /\ accepted' = Cardinality(Queued')
    <2>1. accepted = Cardinality(Queued) /\ In("backoff") = {} /\ In("unschedulable") = {}
      BY <1>9, <1>12 DEF QueueInv
    <2>2. ~(accepted + n > Ceiling)
      BY <1>1, <1>12 DEF OverCeiling, Committed, n
    <2>3. In("backoff")' = {} /\ In("unschedulable")' = {}
      BY <1>8, <2>1
    <2>4. accepted' = Cardinality(Queued')
      BY <1>1, <1>11, <2>1
    <2>5. accepted' <= Ceiling
      BY <1>1, <1>3, <1>12, <2>2, AgentFacts
    <2>. QED  BY <2>3, <2>4, <2>5
  <1>. QED  BY <1>9, <1>10, <1>12 DEF QueueInv

LEMMA QueueKeeps ==
  ASSUME Alike, DemandInv, DemandInv', QueueInv, [Next]_vars
  PROVE  QueueInv'
  <1>1. ASSUME UNCHANGED podVars,
               ~PodsMove' => ~PodsMove,
               \/ UNCHANGED accepted /\ (step' = "drain" /\ PodsMove' => step = "drain" /\ PodsMove)
               \/ accepted' = Cardinality(In("running")) /\ ~PodsMove
        PROVE  QueueInv'
    <2>1. (\A q : In(q)' = In(q)) /\ Queued' = Queued /\ onNode' = onNode
      BY <1>1 DEF podVars, In, Queued
    <2>2. RunningPlaced'
      BY <2>1 DEF RunningPlaced, QueueInv, Allows
    <2>3. ~PodsMove => Queued = In("running")
      BY DEF QueueInv, Queued
    <2>4. ASSUME Ceiling # NoCeiling, Roomy, step' = "drain", PodsMove' PROVE accepted' = Cardinality(Queued')
      BY <1>1, <2>1, <2>3, <2>4 DEF QueueInv
    <2>5. ~PodsMove' => In("active")' = {}
      BY <1>1, <2>1 DEF QueueInv
    <2>6. Ceiling # NoCeiling /\ Roomy =>
             In("backoff")' = {} /\ In("unschedulable")' = {} /\ Cardinality(Queued') <= Ceiling
      BY <2>1 DEF QueueInv
    <2>. QED  BY <2>2, <2>4, <2>5, <2>6 DEF QueueInv
  <1>2. CASE StartTick
    BY <1>1, <1>2 DEF StartTick, PodsMove, DemandInv, ShapeInv
  <1>3. CASE UNCHANGED vars
    BY <1>1, <1>3 DEF vars, agentVars, PodsMove
  <1>4. ASSUME NEW a \in AllAgents, AgentStep(a) PROVE QueueInv'
    <2>1. CASE BeginAgent(a)
      BY <1>1, <2>1 DEF BeginAgent, PodsMove
    <2>2. ASSUME NEW e, Sifts(a, e), UNCHANGED <<podVars, accepted>> PROVE QueueInv'
      <3>1. UNCHANGED <<step, turn>>
        BY <2>2, SiftFacts DEF DemandInv, PlacesInv
      <3>. QED  BY <1>1, <2>2, <3>1 DEF PodsMove
    <2>3. ASSUME NEW e, Sifts(a, e) PROVE QueueInv'
      <3>1. CASE Admit(a, e) /\ a \in Kubernetes
        BY <3>1, AdmitQueue
      <3>2. CASE Admit(a, e) /\ a \notin Kubernetes
        BY <2>2, <2>3, <3>2 DEF Admit, podVars
      <3>3. CASE UNCHANGED <<podVars, active, accepted, admitted>>
        BY <2>2, <2>3, <3>3
      <3>. QED  BY <2>3, <3>1, <3>2, <3>3, SiftFacts DEF DemandInv, PlacesInv
    <2>4. CASE EndDrain(a)
      <3>1. /\ Agents[turn] = a /\ step = "drain" /\ turn' = turn /\ UNCHANGED podVars /\ accepted' = accepted
            /\ IF a \in Kubernetes THEN step' = "pods" ELSE step' = "report"
        BY <2>4 DEF EndDrain, Is, agentVars
      <3>. QED  BY <1>1, <3>1 DEF PodsMove
    <2>5. CASE PodsTick(a)
      <3>1. /\ TickStep /\ step = "pods" /\ step' = (IF phase' = "done" THEN "report" ELSE "pods")
            /\ turn' = turn /\ accepted' = accepted
        BY <2>5 DEF PodsTick, agentVars
      <3>2. PodsMove
        BY <3>1 DEF PodsMove, DemandInv, ShapeInv
      <3>3. /\ RunningPlaced'
            /\ phase' = "done" => In("active")' = {}
            /\ Ceiling # NoCeiling /\ Roomy => /\ In("backoff")' = {} /\ In("unschedulable")' = {}
                                            /\ Queued' \subseteq Queued
        BY <3>1, <3>2, TickQueue
      <3>4. Queued' \subseteq Queued => Cardinality(Queued') <= Cardinality(Queued) /\ Cardinality(Queued') \in Nat
        <4>1. IsFiniteSet(Queued) /\ \A T \in SUBSET Queued : Cardinality(T) <= Cardinality(Queued) /\ Cardinality(T) \in Nat
          BY QueuedFinite, FS_Subset, FS_CardinalityType
        <4>. QED  BY <4>1
      <3>5. Ceiling # NoCeiling /\ Roomy => Cardinality(Queued') <= Ceiling
        BY <3>3, <3>4, QueuedFinite, AgentFacts DEF QueueInv
      <3>6. RunningPlaced' /\ (~PodsMove' => In("active")' = {})
        <4>1. phase' # "done" => PodsMove'
          BY <3>1, <3>2 DEF PodsMove
        <4>. QED  BY <3>3, <4>1
      <3>7. step' # "drain"
        BY <3>1
      <3>. QED  BY <3>3, <3>5, <3>6, <3>7 DEF QueueInv
    <2>6. CASE Report(a)
      BY <1>1, <2>6 DEF Report, PodsMove
    <2>. QED  BY <1>4, <2>1, <2>3, <2>4, <2>5, <2>6 DEF AgentStep, Sifts
  <1>. QED  BY <1>2, <1>3, <1>4 DEF Next

LEMMA RunsStay ==
  ASSUME Alike, RunsInv, [Next]_vars
  PROVE  RunsInv'
  <1>1. DemandInv /\ DemandInv' /\ QueueInv'
    BY DemandStays, QueueKeeps DEF RunsInv
  <1>2. CASE StartTick
    <2>1. ~(\E a \in AllAgents : Reports(a)')
      BY <1>2 DEF StartTick, Reports
    <2>2. active' = active
      BY <1>2 DEF StartTick
    <2>. QED  BY <1>1, <2>1, <2>2 DEF RunsInv, LoadInv, GangsInv
  <1>3. CASE \E a \in AllAgents : AgentStep(a)
    BY <1>1, <1>3, LoadKeeps, GangsKeep DEF RunsInv
  <1>4. CASE UNCHANGED vars
    <2>1. UNCHANGED <<turn, reported, active, where, headroom>>
      BY <1>4 DEF vars, agentVars, podVars
    <2>2. \A a : Reports(a)' <=> Reports(a)
      BY <2>1 DEF Reports
    <2>3. \A a : AdmittedNodes(a)' = AdmittedNodes(a)
      BY <2>1 DEF AdmittedNodes, Survivors, In
    <2>. QED  BY <1>1, <2>1, <2>2, <2>3 DEF RunsInv, LoadInv, GangsInv
  <1>. QED  BY <1>2, <1>3, <1>4 DEF Next

LEMMA RunsStart == Init => RunsInv
  <1> SUFFICES ASSUME Init PROVE RunsInv
    OBVIOUS
  <1>1. PodsInit /\ turn = 1 /\ step = "begin" /\ active = [a \in AllAgents |-> {}]
    BY DEF Init
  <1>2. DemandInv
    BY DemandStarts
  <1>3. LoadInv
    BY <1>1 DEF LoadInv, Reports
  <1>4. GangsInv
    <2>1. \A a \in AllAgents : active[a] = {}
      BY <1>1
    <2>2. NodesOf({}) = 0
      BY TotalEmpty DEF NodesOf
    <2>3. \A a \in AllAgents : NodesOf(active[a]) = 0
      BY <2>1, <2>2
    <2>4. Ceiling # NoCeiling => 0 <= Ceiling
      BY AgentFacts
    <2>. QED  BY <2>3, <2>4 DEF GangsInv
  <1>5. QueueInv
    <2>1. In("running") = {} /\ In("active") = {} /\ In("backoff") = {} /\ In("unschedulable") = {}
      BY <1>1, PodsStart
    <2>2. Cardinality(Queued) = 0
      BY <2>1, FS_EmptySet DEF Queued
    <2>. QED  BY <1>1, <2>1, <2>2, AgentFacts DEF QueueInv, RunningPlaced, PodsMove
  <1>. QED  BY <1>2, <1>3, <1>4, <1>5 DEF RunsInv

LEMMA RunsInvariance == ASSUME Alike PROVE Spec => []RunsInv
  <1>1. RunsInv /\ [Next]_vars => RunsInv'
    BY RunsStay
  <1>. QED  BY <1>1, RunsStart, PTL DEF Spec

\* An observed job that was never deferred twice is in one place.
LEMMA InOnePlace ==
  ASSUME DemandInv
  PROVE  OnePlace
  <1>1. SUFFICES ASSUME NEW a \in AllAgents, NEW j \in Observed(a), ~DeferredBefore(a, j)
                 PROVE  Cardinality(Waiting(a, j)) + Cardinality({j} \cap admitted)
                          + Cardinality({j} \cap refused) = 1
    BY DEF OnePlace
  <1>2. Cardinality({}) = 0 /\ \A x : Cardinality({x}) = 1
    BY FS_EmptySet, FS_Singleton
  <1>3. \A S : {j} \cap S = IF j \in S THEN {j} ELSE {}
    OBVIOUS
  <1>4. Waiting(a, j) = {} \/ \E i : Waiting(a, j) = {i}
    <2>1. \A i, k \in Waiting(a, j) : i = k
      BY DEF Waiting, DemandInv, PlacesInv, OneEachJob
    <2>2. SUFFICES ASSUME Waiting(a, j) # {} PROVE \E i : Waiting(a, j) = {i}
      OBVIOUS
    <2>3. PICK i \in Waiting(a, j) : TRUE
      BY <2>2
    <2>4. Waiting(a, j) = {i}
      BY <2>1, <2>3
    <2>. QED  BY <2>4
  <1>5. Waiting(a, j) = {} <=> j \notin Waits(a)
    BY DEF Waiting, Waits, Range
  <1>6. /\ j \in admitted \cup refused \cup Waits(a) /\ admitted \cap refused = {}
        /\ j \in Waits(a) => j \notin admitted \cup refused
    BY <1>1 DEF DemandInv, PlacesInv
  <1>7. Cardinality(Waiting(a, j)) = IF j \in Waits(a) THEN 1 ELSE 0
    BY <1>2, <1>4, <1>5
  <1>8. /\ Cardinality({j} \cap admitted) = IF j \in admitted THEN 1 ELSE 0
        /\ Cardinality({j} \cap refused) = IF j \in refused THEN 1 ELSE 0
    BY <1>2, <1>3
  <1>. QED  BY <1>6, <1>7, <1>8

\* Where a tenant's pods are of one shape and its nodes too, whatever else: no job is lost
\* or doubled between its informer, the gates and the pod scheduler, what the pods take
\* is there, the GPU modules run what was admitted, and that stays within the contracted
\* capacity (KubeDemandAgent, KubeSchedulerEngine, step 0 of evaluate_tick).
THEOREM AccountsForJobs == ASSUME Alike PROVE Spec => []JobsAccounted
  <1>1. RunsInv => JobsAccounted
    <2>1. SUFFICES ASSUME RunsInv PROVE JobsAccounted
      OBVIOUS
    <2>2. TypeOK /\ OnePlace /\ NodesAccounted /\ NoneStranded
      BY <2>1, InOnePlace DEF RunsInv, DemandInv, PodsInv, NoneFits, NoneStranded
    <2>3. LoadFollowsAdmission
      BY <2>1 DEF RunsInv, LoadInv, Reports, LoadFollowsAdmission
    <2>4. ASSUME NEW a \in AllAgents, Ceiling # NoCeiling PROVE turn = 0 => AdmittedNodes(a) <= Ceiling
      <3>1. AdmittedNodes(a) = IF a \in Kubernetes THEN Cardinality(In("running")) ELSE NodesOf(active[a])
        BY <2>1, AdmittedIs DEF RunsInv, DemandInv
      <3>2. CASE a \notin Kubernetes
        BY <2>1, <2>4, <3>1, <3>2 DEF RunsInv, GangsInv
      <3>3. CASE a \in Kubernetes /\ ~Roomy
        BY <2>1, <2>4, <3>1, <3>3, FewerRun, AgentFacts DEF RunsInv, DemandInv, QueueInv
      <3>4. CASE a \in Kubernetes /\ Roomy
        <4>1. Cardinality(Queued) <= Ceiling
          BY <2>1, <2>4, <3>4 DEF RunsInv, QueueInv
        <4>2. In("running") \in SUBSET Queued
          BY DEF Queued
        <4>3. Cardinality(In("running")) <= Cardinality(Queued) /\ Cardinality(In("running")) \in Nat
          BY <4>2, QueuedFinite, FS_Subset, FS_CardinalityType
        <4>. QED  BY <2>4, <3>1, <3>4, <4>1, <4>3, QueuedFinite, AgentFacts
      <3>. QED  BY <3>2, <3>3, <3>4
    <2>. QED  BY <2>2, <2>3, <2>4 DEF JobsAccounted, PodsFit, AgentWithinCeiling
  <1>. QED  BY <1>1, RunsInvariance, PTL

-----------------------------------------------------------------------------
(* Ray clusters: what the records of the engine say.                         *)

Lives == {"UNKNOWN", "ADMISSION_QUEUED", "HEAD_STARTING", "WORKERS_STARTING",
          "READY", "DRAINING", "TERMINATED", "FAILED"}
ScaleRecords ==
  {s \in [state : {"queued", "starting", "READY"}, replacement : BOOLEAN,
          reuses : BOOLEAN, startIn : Nat] : s.reuses => s.replacement}
ClusterRecords ==
  [life : Lives, request : {"none", "queued", "held"}, allocation : BOOLEAN,
   headIn : Nat, startIn : Nat, registerIn : Nat, started : Nat, registered : Nat,
   allocated : Nat, reuse : Nat, scales : Seq(ScaleRecords)]
\* The scales on their way that will add an allocation, those that will not, and the
\* workers that a scale-down or a failure gives back.
Adding == {s \in ScaleRecords : s.state # "READY" /\ ~s.reuses}
Reusing == {s \in ScaleRecords : s.state # "READY" /\ s.reuses}
Removable == {s \in ScaleRecords : s.state = "READY" /\ ~s.replacement}
Count(s, K) == Cardinality({i \in DOMAIN s : s[i] \in K})

\* What the engine keeps true of the record of cluster c; excused says that a scale-down
\* forgot lost workers.
RecordInv(c, r, excused) ==
  /\ r \in ClusterRecords /\ r.started \in {0, InitialWorkers(c)}
  /\ r.life \in {"UNKNOWN", "ADMISSION_QUEUED", "HEAD_STARTING", "WORKERS_STARTING"} =>
       r.registered = 0 /\ r.reuse = 0 /\ r.scales = <<>>
  /\ r.life \in {"UNKNOWN", "ADMISSION_QUEUED"} => r.allocated = 0 /\ ~r.allocation
  /\ r.life \in {"HEAD_STARTING", "WORKERS_STARTING"} => r.allocated = InitialWorkers(c)
  /\ r.request = "queued" => ~r.allocation
  /\ r.life \in {"TERMINATED", "FAILED"} /\ r.allocation => r.request = "none"
  /\ Count(r.scales, Removable) <= r.allocated
  /\ r.allocated + Count(r.scales, Adding) <= MaxWorkers[c]
  /\ excused \/ r.registered + r.reuse + Count(r.scales, Reusing) <= r.allocated
ClustersInv ==
  /\ cl \in [Clusters -> ClusterRecords]
  /\ \A c \in Clusters : RecordInv(c, cl[c], IF c = Autoscaled THEN forgotten ELSE FALSE)

-----------------------------------------------------------------------------
(* Workloads, groups and slots.                                              *)

Places == Nat \ {0}
At(s, i) == IF i \in DOMAIN s THEN s[i] ELSE 0
\* What w takes of slot i of cluster c, what g keeps of it, and what w uses of bundle i.
PartOf(w, r, c, i) ==
  IF r.state = "RUNNING" /\ r.on = c /\ r.via = "normal" THEN Held(Sizes(w), r.at, i) ELSE 0
ReserveOf(g, r, c, i) ==
  IF r.state = "PLACED" /\ Group[g].cluster = c THEN Held(Group[g].bundles, r.at, i) ELSE 0
ShareOf(w, r, g, i) ==
  IF r.state = "RUNNING" /\ r.via = "group" /\ Work[w].group = g /\ i <= Work[w].replicas
  THEN Work[w].need ELSE 0
RunIn(c, i) == Total([w \in AllWorks |-> PartOf(w, work[w], c, i)], AllWorks)
ReservedIn(c, i) == Total([g \in AllGroups |-> ReserveOf(g, group[g], c, i)], AllGroups)
SharedOf(g, i) == Total([w \in AllWorks |-> ShareOf(w, work[w], g, i)], AllWorks)

WorkRecords ==
  [state : {"NEW", "QUEUED", "BLOCKED", "RUNNING", "SUCCEEDED", "FAILED", "CANCELLED"},
   on : Clusters \cup {"none"}, at : Seq(Places), via : {"none", "normal", "group"},
   attempt : Nat, left : Nat]
WorkInv(w, r) ==
  /\ r \in WorkRecords /\ r.attempt <= Work[w].retries + 1
  /\ r.state \in {"NEW", "QUEUED", "BLOCKED"} => r.attempt <= Work[w].retries
  /\ r.via = "none" <=> r.state # "RUNNING"
  /\ Len(r.at) <= Work[w].replicas
  /\ r.via = "normal" => r.on \in Clusters
InItsGroup(w, r) ==
  r.via = "group" =>
    /\ Work[w].group \in AllGroups /\ group[Work[w].group].state = "PLACED"
    /\ Work[w].replicas <= Len(Group[Work[w].group].bundles)
WorksInv == work \in [AllWorks -> WorkRecords] /\ \A w \in AllWorks : WorkInv(w, work[w])

GroupRecords ==
  [state : {"NEW", "QUEUED", "PLACED", "RELEASED"}, at : Seq(Places), used : Seq(Nat)]
GroupInv(g, r) ==
  /\ r \in GroupRecords /\ Len(r.at) <= Len(Group[g].bundles)
  /\ Len(r.used) = IF r.state = "NEW" THEN 0 ELSE Len(Group[g].bundles)
  /\ r.state = "PLACED" =>
       /\ Len(r.at) = Len(Group[g].bundles)
       /\ Group[g].strategy = "STRICT_SPREAD" => IsInjective(r.at)
  /\ \A i \in DOMAIN r.used : r.used[i] <= Group[g].bundles[i]
GroupsInv == group \in [AllGroups -> GroupRecords] /\ \A g \in AllGroups : GroupInv(g, group[g])
SharesInv ==
  /\ \A w \in AllWorks : InItsGroup(w, work[w])
  /\ \A g \in AllGroups : \A i \in DOMAIN group[g].used : group[g].used[i] = SharedOf(g, i)

SlotsInv ==
  /\ slots \in [Clusters -> Seq(Nat)]
  /\ \A c \in Clusters : \A i \in DOMAIN slots[c] : slots[c][i] <= SlotSize(i)
\* Of every slot that may come to be, those that a failed worker took away among them.
BooksInv ==
  \A c \in Clusters : \A i \in Places : At(slots[c], i) = RunIn(c, i) + ReservedIn(c, i)
LoopInv ==
  /\ pendingFor \in Never .. ScaleUpDelay /\ idleFor \in Never .. IdleDelay
  /\ stage \in Stages /\ forgotten \in BOOLEAN
RayInv == ClustersInv /\ WorksInv /\ GroupsInv /\ SharesInv /\ SlotsInv /\ BooksInv /\ LoopInv

-----------------------------------------------------------------------------
(* Sequences of scale records.                                               *)

\* What a sequence counts of a kind is a number of finitely many places.
LEMMA CountNat ==
  ASSUME NEW T, NEW s \in Seq(T), NEW K
  PROVE  Count(s, K) \in Nat /\ IsFiniteSet({i \in DOMAIN s : s[i] \in K})
  <1>1. IsFiniteSet(DOMAIN s)
    <2>1. DOMAIN s = 1 .. Len(s) /\ 1 \in Int /\ Len(s) \in Int
      OBVIOUS
    <2>. QED  BY <2>1, FS_Interval
  <1>2. {i \in DOMAIN s : s[i] \in K} \in SUBSET (DOMAIN s)
    OBVIOUS
  <1>3. IsFiniteSet({i \in DOMAIN s : s[i] \in K})
    BY <1>1, <1>2, FS_Subset
  <1>. QED  BY <1>3, FS_CardinalityType DEF Count

\* pos lists the places of s that are not in I, in the order of Without.
Lists(pos, s, I) ==
  LET kept == DOMAIN s \ I IN
  /\ Cardinality(kept) \in Nat /\ pos \in [1 .. Cardinality(kept) -> kept]
  /\ \A i \in kept : \E n \in 1 .. Cardinality(kept) : pos[n] = i
  /\ \A m, n \in 1 .. Cardinality(kept) : pos[m] = pos[n] => m = n
  /\ Without(s, I) = [n \in 1 .. Cardinality(kept) |-> s[pos[n]]]

\* What is left of a sequence lists its places in order.
LEMMA WithoutKeeps ==
  ASSUME NEW T, NEW s \in Seq(T), NEW I
  PROVE  \E pos : Lists(pos, s, I)
  <1> DEFINE kept == DOMAIN s \ I
             upTo(i) == {k \in kept : k <= i}
             nth(n) == CHOOSE i \in kept : Cardinality(upTo(i)) = n
             pos == [n \in 1 .. Cardinality(kept) |-> nth(n)]
  <1>1. kept \in SUBSET Int /\ IsFiniteSet(kept)
    <2>1. DOMAIN s = 1 .. Len(s) /\ 1 \in Int /\ Len(s) \in Int
      OBVIOUS
    <2>2. IsFiniteSet(DOMAIN s)
      BY <2>1, FS_Interval
    <2>3. kept \in SUBSET DOMAIN s /\ kept \in SUBSET Int
      BY <2>1
    <2>. QED  BY <2>2, <2>3, FS_Subset
  <1> HIDE DEF kept
  <1>2. /\ Cardinality(kept) \in Nat
        /\ \A u \in kept : Cardinality(Below(kept, u)) \in 0 .. (Cardinality(kept) - 1)
        /\ \A u, w \in kept : u < w <=> Cardinality(Below(kept, u)) < Cardinality(Below(kept, w))
        /\ \A t \in 0 .. (Cardinality(kept) - 1) : \E u \in kept : Cardinality(Below(kept, u)) = t
    BY <1>1, Ranks
  <1>3. \A i \in kept : Cardinality(upTo(i)) = Cardinality(Below(kept, i)) + 1
    <2>1. SUFFICES ASSUME NEW i \in kept
                   PROVE  Cardinality(upTo(i)) = Cardinality(Below(kept, i)) + 1
      OBVIOUS
    <2>2. i \notin Below(kept, i) /\ Below(kept, i) \in SUBSET kept
      BY <1>1 DEF Below
    <2>4. \A k \in kept : k <= i <=> k < i \/ k = i
      BY <1>1
    <2>5. upTo(i) = Below(kept, i) \cup {i}
      BY <2>4 DEF Below
    <2>3. IsFiniteSet(Below(kept, i))
      BY <1>1, <2>2, FS_Subset
    <2>. QED  BY <2>2, <2>3, <2>5, FS_AddElement
  <1>4. \A n \in 1 .. Cardinality(kept) : \E i \in kept : Cardinality(upTo(i)) = n
    <2>1. SUFFICES ASSUME NEW n \in 1 .. Cardinality(kept)
                   PROVE  \E i \in kept : Cardinality(upTo(i)) = n
      OBVIOUS
    <2>2. n - 1 \in 0 .. (Cardinality(kept) - 1) /\ (n - 1) + 1 = n
      BY <1>2
    <2>3. PICK i \in kept : Cardinality(Below(kept, i)) = n - 1
      BY <1>2, <2>2
    <2>. QED  BY <1>3, <2>2, <2>3
  <1>5. \A n \in 1 .. Cardinality(kept) : nth(n) \in kept /\ Cardinality(upTo(nth(n))) = n
    BY <1>4
  <1>6. \A i \in kept : Cardinality(upTo(i)) \in 1 .. Cardinality(kept)
    BY <1>2, <1>3
  <1>7. \A i, k \in kept : Cardinality(upTo(i)) = Cardinality(upTo(k)) => i = k
    <2>1. SUFFICES ASSUME NEW i \in kept, NEW k \in kept,
                          Cardinality(upTo(i)) = Cardinality(upTo(k)), i # k
                   PROVE  FALSE
      OBVIOUS
    <2>2. i < k \/ k < i
      BY <1>1, <2>1
    <2>3. Cardinality(Below(kept, i)) = Cardinality(Below(kept, k))
      BY <1>2, <1>3, <2>1
    <2>. QED  BY <1>2, <2>2, <2>3
  <1>8. pos \in [1 .. Cardinality(kept) -> kept]
    BY <1>5
  <1>9. \A i \in kept : \E n \in 1 .. Cardinality(kept) : pos[n] = i
    <2>1. SUFFICES ASSUME NEW i \in kept
                   PROVE  pos[Cardinality(upTo(i))] = i /\ Cardinality(upTo(i)) \in 1 .. Cardinality(kept)
      OBVIOUS
    <2> DEFINE n == Cardinality(upTo(i))
    <2>2. n \in 1 .. Cardinality(kept)
      BY <1>6
    <2>3. pos[n] = nth(n)
      BY <2>2
    <2>4. nth(n) = i
      BY <1>5, <1>7, <2>2
    <2>. QED  BY <2>2, <2>3, <2>4
  <1>10. \A m, n \in 1 .. Cardinality(kept) : pos[m] = pos[n] => m = n
    <2>1. SUFFICES ASSUME NEW m \in 1 .. Cardinality(kept), NEW n \in 1 .. Cardinality(kept),
                          pos[m] = pos[n]
                   PROVE  m = n
      OBVIOUS
    <2>2. nth(m) = nth(n)
      BY <2>1
    <2>. QED  BY <1>5, <2>2
  <1>11. Without(s, I) = [n \in 1 .. Cardinality(kept) |-> s[pos[n]]]
    BY DEF Without, kept
  <1> HIDE DEF pos, upTo, nth
  <1>. QED  BY <1>2, <1>8, <1>9, <1>10, <1>11 DEF kept, Lists

\* Leaving places out leaves the others as they were, so that no kind grows.
LEMMA CountWithout ==
  ASSUME NEW T, NEW s \in Seq(T), NEW I, NEW K
  PROVE  /\ Without(s, I) \in Seq(T)
         /\ Count(Without(s, I), K) = Cardinality({i \in DOMAIN s \ I : s[i] \in K})
         /\ Count(Without(s, I), K) <= Count(s, K)
  <1> DEFINE kept == DOMAIN s \ I
             t == Without(s, I)
  <1>0. PICK pos : Lists(pos, s, I)
    BY WithoutKeeps
  <1>1. /\ Cardinality(kept) \in Nat /\ pos \in [1 .. Cardinality(kept) -> kept]
        /\ \A i \in kept : \E n \in 1 .. Cardinality(kept) : pos[n] = i
        /\ \A m, n \in 1 .. Cardinality(kept) : pos[m] = pos[n] => m = n
        /\ t = [n \in 1 .. Cardinality(kept) |-> s[pos[n]]]
    BY <1>0 DEF Lists
  <1>2. kept \subseteq DOMAIN s
    OBVIOUS
  <1> HIDE DEF kept, t
  <1>3. t \in Seq(T)
    <2>1. \A n \in 1 .. Cardinality(kept) : s[pos[n]] \in T
      BY <1>1, <1>2
    <2>. QED  BY <1>1, <2>1
  <1> DEFINE A == {n \in DOMAIN t : t[n] \in K}
             B == {i \in kept : s[i] \in K}
             f == [n \in A |-> pos[n]]
  <1>4. f \in Bijection(A, B)
    <2>1. DOMAIN t = 1 .. Cardinality(kept) /\ \A n \in DOMAIN t : t[n] = s[pos[n]]
      BY <1>1
    <2>2. f \in [A -> B]
      BY <1>1, <2>1
    <2>3. \A m, n \in A : f[m] = f[n] => m = n
      BY <1>1, <2>1
    <2>4. \A i \in B : \E n \in A : f[n] = i
      <3>1. SUFFICES ASSUME NEW i \in B
                     PROVE  \E n \in A : f[n] = i
        OBVIOUS
      <3>2. PICK n \in 1 .. Cardinality(kept) : pos[n] = i
        BY <1>1
      <3>3. n \in A
        BY <2>1, <3>2
      <3>. QED  BY <3>2, <3>3
    <2>. QED  BY <2>2, <2>3, <2>4 DEF Bijection, Injection, Surjection, IsInjective
  <1>5. IsFiniteSet(A) /\ Count(t, K) = Cardinality(A)
    BY <1>3, CountNat DEF Count
  <1>6. Cardinality(A) = Cardinality(B)
    <2> HIDE DEF A, B, f
    <2>. QED  BY <1>4, <1>5, FS_Bijection DEF ExistsBijection
  <1>7. Cardinality(B) <= Count(s, K)
    <2>1. B \in SUBSET {i \in DOMAIN s : s[i] \in K}
      BY <1>2
    <2>2. IsFiniteSet({i \in DOMAIN s : s[i] \in K})
      BY CountNat
    <2> HIDE DEF B
    <2>. QED  BY <2>1, <2>2, FS_Subset DEF Count
  <1>8. B = {i \in DOMAIN s \ I : s[i] \in K}
    BY DEF kept
  <1>. QED  BY <1>3, <1>5, <1>6, <1>7, <1>8 DEF t

\* A sequence and k copies of e behind it.
LEMMA CountJoined ==
  ASSUME NEW T, NEW s \in Seq(T), NEW e \in T, NEW k \in Nat, NEW K
  PROVE  LET t == s \o [i \in 1 .. k |-> e] IN
         /\ t \in Seq(T)
         /\ Count(t, K) = Count(s, K) + (IF e \in K THEN k ELSE 0)
  <1> DEFINE t == s \o [i \in 1 .. k |-> e]
             n == Len(s)
             A == {i \in DOMAIN s : s[i] \in K}
             B == IF e \in K THEN (n + 1) .. (n + k) ELSE {}
  <1>1. n \in Nat /\ DOMAIN s = 1 .. n /\ [i \in 1 .. k |-> e] \in Seq(T) /\ Len([i \in 1 .. k |-> e]) = k
    OBVIOUS
  <1>2. /\ t \in Seq(T) /\ DOMAIN t = 1 .. (n + k)
        /\ \A i \in 1 .. (n + k) : t[i] = IF i <= n THEN s[i] ELSE e
    <2>1. t \in Seq(T) /\ Len(t) = n + k
      BY <1>1
    <2>2. \A i \in 1 .. (n + k) : t[i] = IF i <= n THEN s[i] ELSE e
      BY <1>1
    <2>. QED  BY <2>1, <2>2
  <1>3. {i \in DOMAIN t : t[i] \in K} = A \cup B
    BY <1>1, <1>2
  <1>4. A \cap B = {}
    BY <1>1
  <1>5. IsFiniteSet(B) /\ Cardinality(B) = IF e \in K THEN k ELSE 0
    <2>1. n + 1 \in Int /\ n + k \in Int /\ (k > 0 => n + 1 <= n + k) /\ n + k - (n + 1) + 1 = k
          /\ (n + 1 > n + k => k = 0)
      BY <1>1
    <2>2. /\ IsFiniteSet((n + 1) .. (n + k))
          /\ Cardinality((n + 1) .. (n + k)) = IF n + 1 > n + k THEN 0 ELSE n + k - (n + 1) + 1
      BY <2>1, FS_Interval
    <2>3. Cardinality((n + 1) .. (n + k)) = k
      BY <2>1, <2>2
    <2>. QED  BY <2>2, <2>3, FS_EmptySet
  <1>6. IsFiniteSet(A) /\ Cardinality(A) = Count(s, K) /\ Count(s, K) \in Nat
    BY CountNat DEF Count
  <1>7. Cardinality(A \cup B) = Cardinality(A) + Cardinality(B)
    <2>1. Cardinality(A \cup B) = Cardinality(A) + Cardinality(B) - Cardinality(A \cap B)
      <3> HIDE DEF A, B
      <3>. QED  BY <1>5, <1>6, FS_Union
    <2>2. Cardinality(A \cap B) = 0
      BY <1>4, FS_EmptySet
    <2>. QED  BY <2>1, <2>2, <1>5, <1>6
  <1>. QED  BY <1>2, <1>3, <1>5, <1>6, <1>7 DEF Count

-----------------------------------------------------------------------------
(* The steps of the engine keep a record in order.                           *)

\* What the constants say of one cluster.
LEMMA ClusterFacts ==
  ASSUME NEW c \in Clusters
  PROVE  /\ InitialWorkers(c) \in Nat /\ MaxWorkers[c] \in Nat /\ MinWorkers[c] \in Nat
         /\ InitialWorkers(c) <= MaxWorkers[c] /\ MinWorkers[c] <= MaxWorkers[c]
         /\ HeadDelay \in Nat /\ WorkerDelay \in Nat /\ RegistrationDelay \in Nat
  BY ClustersAssumption DEF InitialWorkers


\* No workers, none on their way.
LEMMA CountNone == \A K : Count(<<>>, K) = 0
  <1>1. SUFFICES ASSUME NEW K PROVE Count(<<>>, K) = 0
    OBVIOUS
  <1>2. {i \in DOMAIN <<>> : <<>>[i] \in K} = {}
    OBVIOUS
  <1>. QED  BY <1>2, FS_EmptySet DEF Count

\* A function on 1 .. n is a sequence of length n.
LEMMA IsSeq ==
  ASSUME NEW T, NEW n \in Nat, NEW s \in [1 .. n -> T]
  PROVE  s \in Seq(T) /\ Len(s) = n /\ DOMAIN s = 1 .. n
  OBVIOUS

\* A kind counts the same when every place keeps its membership of it.
LEMMA CountSame ==
  ASSUME NEW s, NEW t, DOMAIN t = DOMAIN s, NEW K, \A i \in DOMAIN s : t[i] \in K <=> s[i] \in K
  PROVE  Count(t, K) = Count(s, K)
  <1>1. {i \in DOMAIN t : t[i] \in K} = {i \in DOMAIN s : s[i] \in K}
    OBVIOUS
  <1>. QED  BY <1>1 DEF Count

\* The three kinds the invariant counts have numbers.
LEMMA RecordCounts ==
  ASSUME NEW s \in Seq(ScaleRecords)
  PROVE  /\ Count(s, Adding) \in Nat /\ Count(s, Reusing) \in Nat /\ Count(s, Removable) \in Nat
  BY CountNat

\* Of a record with other scale records only their counts matter.
LEMMA OtherScales ==
  ASSUME NEW c \in Clusters, NEW excused \in BOOLEAN, NEW r, RecordInv(c, r, excused),
         NEW q \in ClusterRecords, q.life = r.life, q.request = r.request,
         q.allocation = r.allocation, q.started = r.started, q.registered = r.registered,
         q.allocated = r.allocated, q.reuse = r.reuse, r.scales = <<>> => q.scales = <<>>,
         Count(q.scales, Removable) <= Count(r.scales, Removable),
         Count(q.scales, Adding) <= Count(r.scales, Adding),
         Count(q.scales, Reusing) <= Count(r.scales, Reusing)
  PROVE  RecordInv(c, q, excused)
  <1> DEFINE s == q.scales
  <1>1. r \in ClusterRecords
    BY DEF RecordInv
  <1>2. /\ r.scales \in Seq(ScaleRecords) /\ r.allocated \in Nat /\ r.registered \in Nat
        /\ r.reuse \in Nat /\ s \in Seq(ScaleRecords)
    BY <1>1 DEF ClusterRecords
  <1>5. /\ Count(s, Adding) \in Nat /\ Count(s, Reusing) \in Nat /\ Count(s, Removable) \in Nat
        /\ Count(r.scales, Adding) \in Nat /\ Count(r.scales, Reusing) \in Nat
        /\ Count(r.scales, Removable) \in Nat
    BY <1>2, RecordCounts
  <1>6. MaxWorkers[c] \in Nat
    BY ClusterFacts
  <1>7. /\ Count(s, Removable) <= r.allocated
        /\ r.allocated + Count(s, Adding) <= MaxWorkers[c]
        /\ excused \/ r.registered + r.reuse + Count(s, Reusing) <= r.allocated
    <2>1. /\ Count(r.scales, Removable) <= r.allocated
          /\ r.allocated + Count(r.scales, Adding) <= MaxWorkers[c]
          /\ excused \/ r.registered + r.reuse + Count(r.scales, Reusing) <= r.allocated
      BY DEF RecordInv
    <2>2. Count(s, Removable) <= r.allocated /\ r.allocated + Count(s, Adding) <= MaxWorkers[c]
      BY <2>1, <1>2, <1>5, <1>6
    <2>3. ASSUME ~excused
          PROVE  r.registered + r.reuse + Count(s, Reusing) <= r.allocated
      <3>1. r.registered + r.reuse + Count(r.scales, Reusing) <= r.allocated
        BY <2>1, <2>3
      <3>. QED  BY <3>1, <1>2, <1>5
    <2>. QED  BY <2>2, <2>3
  <1>. QED  BY <1>7 DEF RecordInv

\* Timers run down: nothing that is counted moves (core/ray_cluster_engine.py, advance).
LEMMA TimeKeeps ==
  ASSUME NEW c \in Clusters, NEW excused \in BOOLEAN, NEW r, RecordInv(c, r, excused)
  PROVE  RecordInv(c, TimePasses(r), excused)
  <1>1. r \in ClusterRecords /\ r.scales \in Seq(ScaleRecords)
    BY DEF RecordInv, ClusterRecords
  <1> DEFINE s == [i \in DOMAIN r.scales |-> [r.scales[i] EXCEPT !.startIn = TimerLeft(@)]]
             q == TimePasses(r)
  <1>2. \A n \in Nat : TimerLeft(n) \in Nat
    BY DEF TimerLeft
  <1>3. \A e \in ScaleRecords :
           LET f == [e EXCEPT !.startIn = TimerLeft(@)] IN
           /\ f \in ScaleRecords
           /\ f.state = e.state /\ f.replacement = e.replacement /\ f.reuses = e.reuses
    BY <1>2 DEF ScaleRecords
  <1>4. \A e \in ScaleRecords :
           LET f == [e EXCEPT !.startIn = TimerLeft(@)] IN
           /\ f \in ScaleRecords /\ (f \in Adding <=> e \in Adding)
           /\ (f \in Reusing <=> e \in Reusing) /\ (f \in Removable <=> e \in Removable)
    BY <1>3 DEF Adding, Reusing, Removable
  <1>5. \A i \in DOMAIN r.scales : r.scales[i] \in ScaleRecords
    BY <1>1
  <1>6. s \in Seq(ScaleRecords) /\ DOMAIN s = DOMAIN r.scales
    <2>1. \A i \in DOMAIN r.scales : s[i] \in ScaleRecords
      BY <1>4, <1>5
    <2>2. DOMAIN r.scales = 1 .. Len(r.scales) /\ Len(r.scales) \in Nat
      BY <1>1
    <2>3. s \in [1 .. Len(r.scales) -> ScaleRecords] /\ DOMAIN s = DOMAIN r.scales
      BY <2>1, <2>2
    <2> HIDE DEF s
    <2>. QED  BY <2>2, <2>3, IsSeq
  <1>7. /\ Count(s, Adding) = Count(r.scales, Adding) /\ Count(s, Reusing) = Count(r.scales, Reusing)
        /\ Count(s, Removable) = Count(r.scales, Removable)
    <2>1. \A i \in DOMAIN r.scales :
             /\ s[i] \in Adding <=> r.scales[i] \in Adding
             /\ s[i] \in Reusing <=> r.scales[i] \in Reusing
             /\ s[i] \in Removable <=> r.scales[i] \in Removable
      BY <1>4, <1>5
    <2> HIDE DEF s
    <2>. QED  BY <1>6, <2>1, CountSame
  <1>9. r.scales = <<>> => s = <<>>
    OBVIOUS
  <1>10. /\ q.scales = s /\ q.life = r.life /\ q.request = r.request
         /\ q.allocation = r.allocation /\ q.started = r.started /\ q.registered = r.registered
         /\ q.allocated = r.allocated /\ q.reuse = r.reuse
    BY <1>1 DEF TimePasses, ClusterRecords
  <1>12. q \in ClusterRecords
    <2> HIDE DEF s
    <2>. QED  BY <1>1, <1>2, <1>6, <1>10 DEF TimePasses, ClusterRecords
  <1>11. /\ Count(s, Adding) <= Count(r.scales, Adding) /\ Count(s, Reusing) <= Count(r.scales, Reusing)
         /\ Count(s, Removable) <= Count(r.scales, Removable)
    <2>1. /\ Count(s, Adding) \in Nat /\ Count(s, Reusing) \in Nat /\ Count(s, Removable) \in Nat
      BY <1>6, RecordCounts
    <2>. QED  BY <2>1, <1>7
  <1> HIDE DEF s, q
  <1>13. RecordInv(c, q, excused)
    BY <1>9, <1>10, <1>11, <1>12, OtherScales
  <1>. QED  BY <1>13 DEF q

\* The admission of the cluster is answered.
LEMMA AnswerKeeps ==
  ASSUME NEW c \in Clusters, NEW excused \in BOOLEAN, NEW r, RecordInv(c, r, excused), NEW outcome
  PROVE  RecordInv(c, Answered(c, r, outcome), excused)
  <1>1. r \in ClusterRecords
    BY DEF RecordInv
  <1>2. InitialWorkers(c) \in Nat /\ InitialWorkers(c) <= MaxWorkers[c] /\ HeadDelay \in Nat
        /\ MaxWorkers[c] \in Nat
    BY ClusterFacts
  <1> DEFINE s == [r EXCEPT !.request = IF outcome = "admit" THEN "held" ELSE "none"]
  <1>3. CASE r.request # "queued" \/ outcome = "keep"
    BY <1>3 DEF Answered
  <1>4. CASE r.request = "queued" /\ outcome # "keep" /\ r.life # "ADMISSION_QUEUED"
    <2>1. Answered(c, r, outcome) = s
      BY <1>4 DEF Answered
    <2>2. s \in ClusterRecords /\ s.life = r.life /\ s.request # "queued" /\ s.allocation = r.allocation
          /\ s.started = r.started /\ s.registered = r.registered
          /\ s.allocated = r.allocated /\ s.reuse = r.reuse /\ s.scales = r.scales /\ ~r.allocation
      BY <1>1, <1>4 DEF ClusterRecords, RecordInv
    <2> HIDE DEF s
    <2>. QED  BY <2>1, <2>2 DEF RecordInv
  <1>5. CASE r.request = "queued" /\ outcome = "admit" /\ r.life = "ADMISSION_QUEUED"
    <2> DEFINE q == [s EXCEPT !.life = "HEAD_STARTING", !.allocation = TRUE,
                              !.headIn = HeadDelay, !.allocated = InitialWorkers(c)]
    <2>1. Answered(c, r, outcome) = q
      BY <1>5 DEF Answered
    <2>2. q \in ClusterRecords /\ q.life = "HEAD_STARTING" /\ q.request = "held" /\ q.allocation
          /\ q.started = r.started /\ q.registered = r.registered
          /\ q.allocated = InitialWorkers(c) /\ q.reuse = r.reuse /\ q.scales = r.scales
      BY <1>1, <1>2, <1>5 DEF ClusterRecords, Lives
    <2>3. r.registered = 0 /\ r.reuse = 0 /\ r.scales = <<>>
      BY <1>5 DEF RecordInv
    <2>4. Count(q.scales, Removable) = 0 /\ Count(q.scales, Adding) = 0 /\ Count(q.scales, Reusing) = 0
      BY <2>2, <2>3, CountNone
    <2>5. r.started \in {0, InitialWorkers(c)}
      BY DEF RecordInv
    <2> HIDE DEF q
    <2>. QED  BY <1>2, <2>1, <2>2, <2>3, <2>4, <2>5 DEF RecordInv
  <1>6. CASE r.request = "queued" /\ outcome # "keep" /\ outcome # "admit" /\ r.life = "ADMISSION_QUEUED"
    <2> DEFINE q == [s EXCEPT !.life = "FAILED"]
    <2>1. Answered(c, r, outcome) = q
      BY <1>6 DEF Answered
    <2>2. q \in ClusterRecords /\ q.life = "FAILED" /\ q.request = "none" /\ q.allocation = r.allocation
          /\ q.started = r.started /\ q.registered = r.registered
          /\ q.allocated = r.allocated /\ q.reuse = r.reuse /\ q.scales = r.scales /\ ~r.allocation
      BY <1>1, <1>6 DEF ClusterRecords, RecordInv, Lives
    <2> HIDE DEF q
    <2>. QED  BY <2>1, <2>2 DEF RecordInv
  <1>. QED  BY <1>3, <1>4, <1>5, <1>6

\* The admissions of its scales are answered.
LEMMA ScaleAnswersKeep ==
  ASSUME NEW c \in Clusters, NEW excused \in BOOLEAN, NEW r, RecordInv(c, r, excused), NEW outcome
  PROVE  RecordInv(c, ScalesAnswered(r, outcome), excused)
  <1>1. r \in ClusterRecords /\ r.scales \in Seq(ScaleRecords) /\ WorkerDelay \in Nat
    BY ClusterFacts DEF RecordInv, ClusterRecords
  <1> DEFINE rejected == {i \in DOMAIN r.scales : r.scales[i].state = "queued" /\ outcome[i] = "reject"}
             admit(i) == IF r.scales[i].state = "queued" /\ outcome[i] = "admit"
                         THEN [r.scales[i] EXCEPT !.state = "starting", !.startIn = WorkerDelay]
                         ELSE r.scales[i]
             s == [i \in DOMAIN r.scales |-> admit(i)]
             t == Without(s, rejected)
  <1>2. \A i \in DOMAIN r.scales : r.scales[i] \in ScaleRecords
    BY <1>1
  <1>3. \A i \in DOMAIN r.scales :
           /\ admit(i) \in ScaleRecords
           /\ admit(i) \in Adding <=> r.scales[i] \in Adding
           /\ admit(i) \in Reusing <=> r.scales[i] \in Reusing
           /\ admit(i) \in Removable <=> r.scales[i] \in Removable
    BY <1>1, <1>2 DEF ScaleRecords, Adding, Reusing, Removable
  <1>4. s \in Seq(ScaleRecords) /\ DOMAIN s = DOMAIN r.scales
    <2>1. DOMAIN r.scales = 1 .. Len(r.scales) /\ Len(r.scales) \in Nat
      BY <1>1
    <2>2. s \in [1 .. Len(r.scales) -> ScaleRecords] /\ DOMAIN s = DOMAIN r.scales
      BY <1>3, <2>1
    <2> HIDE DEF s
    <2>. QED  BY <2>1, <2>2, IsSeq
  <1>5. /\ Count(s, Adding) = Count(r.scales, Adding) /\ Count(s, Reusing) = Count(r.scales, Reusing)
        /\ Count(s, Removable) = Count(r.scales, Removable)
    <2>1. \A i \in DOMAIN r.scales : s[i] = admit(i)
      OBVIOUS
    <2> HIDE DEF s, admit
    <2>. QED  BY <1>3, <1>4, <2>1, CountSame
  <1>6. /\ t \in Seq(ScaleRecords)
        /\ Count(t, Adding) <= Count(s, Adding) /\ Count(t, Reusing) <= Count(s, Reusing)
        /\ Count(t, Removable) <= Count(s, Removable)
    <2> HIDE DEF s, rejected
    <2>. QED  BY <1>4, CountWithout
  <1>7. r.scales = <<>> => t = <<>>
    <2>1. SUFFICES ASSUME r.scales = <<>> PROVE t = <<>>
      OBVIOUS
    <2>2. DOMAIN s \ rejected = {}
      BY <2>1
    <2>3. Cardinality(DOMAIN s \ rejected) = 0
      BY <2>2, FS_EmptySet
    <2>4. DOMAIN t = 1 .. 0
      <3> HIDE DEF s, rejected
      <3>. QED  BY <2>3 DEF Without
    <2> HIDE DEF t
    <2>5. \A q \in Seq(ScaleRecords) : DOMAIN q = 1 .. 0 => q = <<>>
      OBVIOUS
    <2>. QED  BY <1>6, <2>4, <2>5
  <1>8. ScalesAnswered(r, outcome) = [r EXCEPT !.scales = t]
    BY DEF ScalesAnswered
  <1>9. /\ Count(t, Adding) <= Count(r.scales, Adding) /\ Count(t, Reusing) <= Count(r.scales, Reusing)
        /\ Count(t, Removable) <= Count(r.scales, Removable)
    <2> HIDE DEF s, t
    <2>. QED  BY <1>5, <1>6
  <1> HIDE DEF t
  <1> DEFINE q == [r EXCEPT !.scales = t]
  <1>10. /\ q \in ClusterRecords
         /\ q.scales = t /\ q.life = r.life /\ q.request = r.request
         /\ q.allocation = r.allocation /\ q.started = r.started /\ q.registered = r.registered
         /\ q.allocated = r.allocated /\ q.reuse = r.reuse
    BY <1>1, <1>6 DEF ClusterRecords
  <1> HIDE DEF q
  <1>11. RecordInv(c, q, excused)
    BY <1>7, <1>9, <1>10, OtherScales
  <1>. QED  BY <1>8, <1>11 DEF q

\* The head starts.
LEMMA HeadKeeps ==
  ASSUME NEW c \in Clusters, NEW excused \in BOOLEAN, NEW r, RecordInv(c, r, excused)
  PROVE  RecordInv(c, HeadProgress(c, r), excused)
  <1>1. r \in ClusterRecords /\ WorkerDelay \in Nat
    BY ClusterFacts DEF RecordInv
  <1> DEFINE q == HeadProgress(c, r)
  <1>2. CASE q = r
    BY <1>2
  <1>3. CASE q # r
    <2>1. r.life = "HEAD_STARTING" /\ q \in ClusterRecords /\ q.life \in {"READY", "WORKERS_STARTING"}
          /\ q.request = r.request
          /\ q.allocation = r.allocation /\ q.started = r.started /\ q.registered = r.registered
          /\ q.allocated = r.allocated /\ q.reuse = r.reuse /\ q.scales = r.scales
      BY <1>1, <1>3 DEF HeadProgress, ClusterRecords, Lives
    <2> HIDE DEF q
    <2>. QED  BY <2>1 DEF RecordInv, q
  <1>. QED  BY <1>2, <1>3

\* The initial workers start.
LEMMA WorkersStartKeep ==
  ASSUME NEW c \in Clusters, NEW excused \in BOOLEAN, NEW r, RecordInv(c, r, excused)
  PROVE  RecordInv(c, WorkersStart(c, r), excused)
  <1>1. r \in ClusterRecords /\ RegistrationDelay \in Nat /\ InitialWorkers(c) \in Nat
    BY ClusterFacts DEF RecordInv
  <1> DEFINE q == WorkersStart(c, r)
  <1>2. CASE q = r
    BY <1>2
  <1>3. CASE q # r
    <2>1. q \in ClusterRecords /\ q.life = r.life /\ q.request = r.request
          /\ q.allocation = r.allocation /\ q.started = InitialWorkers(c)
          /\ q.registered = r.registered
          /\ q.allocated = r.allocated /\ q.reuse = r.reuse /\ q.scales = r.scales
      BY <1>1, <1>3 DEF WorkersStart, ClusterRecords
    <2> HIDE DEF q
    <2>. QED  BY <2>1 DEF RecordInv, q
  <1>. QED  BY <1>2, <1>3

\* The initial workers register.
LEMMA RegisterKeeps ==
  ASSUME NEW c \in Clusters, NEW excused \in BOOLEAN, NEW r, RecordInv(c, r, excused)
  PROVE  RecordInv(c, WorkersRegister(r), excused)
  <1>1. r \in ClusterRecords /\ r.started \in {0, InitialWorkers(c)} /\ InitialWorkers(c) \in Nat
    BY ClusterFacts DEF RecordInv
  <1> DEFINE q == WorkersRegister(r)
  <1>2. CASE q = r
    BY <1>2
  <1>3. CASE q # r
    <2>1. /\ r.life = "WORKERS_STARTING" /\ r.started > 0
          /\ q \in ClusterRecords /\ q.life = "READY" /\ q.request = r.request
          /\ q.allocation = r.allocation /\ q.started = r.started
          /\ q.registered = r.started
          /\ q.allocated = r.allocated /\ q.reuse = r.reuse /\ q.scales = r.scales
      BY <1>1, <1>3 DEF WorkersRegister, ClusterRecords, Lives
    <2>2. r.registered = 0 /\ r.reuse = 0 /\ r.scales = <<>> /\ r.allocated = InitialWorkers(c)
      BY <2>1 DEF RecordInv
    <2>3. /\ q.registered = InitialWorkers(c) /\ q.reuse = 0 /\ Count(q.scales, Reusing) = 0
          /\ q.allocated = InitialWorkers(c)
      BY <1>1, <2>1, <2>2, CountNone
    <2>4. q.registered + q.reuse + Count(q.scales, Reusing) <= q.allocated
      <3> HIDE DEF q
      <3>. QED  BY <1>1, <2>3
    <2> HIDE DEF q
    <2>5. /\ q.started \in {0, InitialWorkers(c)} /\ (q.request = "queued" => ~q.allocation)
          /\ Count(q.scales, Removable) <= q.allocated
          /\ q.allocated + Count(q.scales, Adding) <= MaxWorkers[c]
      BY <2>1 DEF RecordInv
    <2>6. RecordInv(c, q, excused)
      BY <2>1, <2>4, <2>5 DEF RecordInv
    <2>. QED  BY <2>6 DEF q
  <1>. QED  BY <1>2, <1>3

\* The cardinality of what is left of a finite set.
LEMMA TakenAway ==
  ASSUME NEW A, IsFiniteSet(A), NEW B \in SUBSET A
  PROVE  /\ Cardinality(A) \in Nat /\ Cardinality(B) \in Nat /\ Cardinality(A \ B) \in Nat
         /\ Cardinality(A \ B) = Cardinality(A) - Cardinality(B)
  <1>1. IsFiniteSet(B) /\ IsFiniteSet(A \ B) /\ Cardinality(A \ B) = Cardinality(A) - Cardinality(A \cap B)
    BY FS_Subset, FS_Difference
  <1>2. A \cap B = B
    OBVIOUS
  <1>. QED  BY <1>1, <1>2, FS_CardinalityType

\* From s to t the scales at up become ready; those at adding add an allocation.
Readied(s, t, up, adding) ==
  /\ s \in Seq(ScaleRecords) /\ t \in Seq(ScaleRecords) /\ DOMAIN t = DOMAIN s
  /\ up \in SUBSET (DOMAIN s) /\ \A i \in up : s[i].state # "READY"
  /\ \A i \in DOMAIN s : t[i] = IF i \in up THEN [s[i] EXCEPT !.state = "READY"] ELSE s[i]
  /\ adding = {i \in up : ~s[i].reuses}

\* Scales that become ready pass from the kinds on their way to the one that can be removed.
LEMMA CountsDiffer ==
  ASSUME NEW s, NEW t, NEW up, NEW adding, Readied(s, t, up, adding)
  PROVE  /\ Cardinality(adding) \in Nat /\ Cardinality(up) \in Nat
         /\ Count(t, Adding) = Count(s, Adding) - Cardinality(adding)
         /\ Count(t, Reusing) = Count(s, Reusing) - (Cardinality(up) - Cardinality(adding))
         /\ Count(t, Removable) <= Count(s, Removable) + Cardinality(adding)
  <1>. SUFFICES ASSUME s \in Seq(ScaleRecords), t \in Seq(ScaleRecords), DOMAIN t = DOMAIN s,
                       up \in SUBSET (DOMAIN s), \A i \in up : s[i].state # "READY",
                       \A i \in DOMAIN s : t[i] = IF i \in up THEN [s[i] EXCEPT !.state = "READY"] ELSE s[i],
                       adding = {i \in up : ~s[i].reuses}
                PROVE  /\ Cardinality(adding) \in Nat /\ Cardinality(up) \in Nat
                       /\ Count(t, Adding) = Count(s, Adding) - Cardinality(adding)
                       /\ Count(t, Reusing) = Count(s, Reusing) - (Cardinality(up) - Cardinality(adding))
                       /\ Count(t, Removable) <= Count(s, Removable) + Cardinality(adding)
    BY DEF Readied
  <1> DEFINE UA == {i \in up : ~s[i].reuses}
             UR == {i \in up : s[i].reuses}
             A == {i \in DOMAIN s : s[i] \in Adding}
             R == {i \in DOMAIN s : s[i] \in Reusing}
             M == {i \in DOMAIN s : s[i] \in Removable}
  <1>1. \A i \in DOMAIN s : s[i] \in ScaleRecords /\ t[i] \in ScaleRecords
    OBVIOUS
  <1>2. \A i \in DOMAIN s : i \notin up => t[i] = s[i]
    OBVIOUS
  <1>3. \A i \in up : /\ t[i].state = "READY" /\ t[i].reuses = s[i].reuses
                      /\ t[i].replacement = s[i].replacement
    BY <1>1 DEF ScaleRecords
  <1>4. UA \in SUBSET A /\ UR \in SUBSET R
    BY <1>1 DEF Adding, Reusing
  <1>5. {i \in DOMAIN t : t[i] \in Adding} = A \ UA
    <2>1. \A i \in up : t[i] \notin Adding
      BY <1>3 DEF Adding
    <2>2. \A i \in DOMAIN s : i \in up /\ s[i] \in Adding => i \in UA
      BY DEF Adding
    <2>. QED  BY <1>2, <2>1, <2>2
  <1>6. {i \in DOMAIN t : t[i] \in Reusing} = R \ UR
    <2>1. \A i \in up : t[i] \notin Reusing
      BY <1>3 DEF Reusing
    <2>2. \A i \in DOMAIN s : i \in up /\ s[i] \in Reusing => i \in UR
      BY DEF Reusing
    <2>. QED  BY <1>2, <2>1, <2>2
  <1>7. {i \in DOMAIN t : t[i] \in Removable} \in SUBSET (M \cup UA)
    <2>1. \A i \in up : t[i] \in Removable => i \in UA
      BY <1>1, <1>3 DEF Removable, ScaleRecords
    <2>. QED  BY <1>2, <2>1
  <1>8. IsFiniteSet(A) /\ IsFiniteSet(R) /\ IsFiniteSet(M) /\ IsFiniteSet(DOMAIN s)
    <2>1. IsFiniteSet(A) /\ IsFiniteSet(R) /\ IsFiniteSet(M)
      BY CountNat
    <2>2. {i \in DOMAIN s : s[i] \in ScaleRecords} = DOMAIN s
      BY <1>1
    <2>3. IsFiniteSet({i \in DOMAIN s : s[i] \in ScaleRecords})
      BY CountNat
    <2>. QED  BY <2>1, <2>2, <2>3
  <1>9. IsFiniteSet(up) /\ IsFiniteSet(UA) /\ IsFiniteSet(UR)
    <2>1. UA \in SUBSET up /\ UR \in SUBSET up
      OBVIOUS
    <2> HIDE DEF UA, UR
    <2>. QED  BY <1>8, <2>1, FS_Subset
  <1> HIDE DEF A, R, M
  <1>10. /\ Count(s, Adding) = Cardinality(A) /\ Count(t, Adding) = Cardinality(A \ UA)
         /\ Count(s, Reusing) = Cardinality(R) /\ Count(t, Reusing) = Cardinality(R \ UR)
         /\ Count(s, Removable) = Cardinality(M)
    BY <1>5, <1>6 DEF Count, A, R, M
  <1>11. Cardinality(UR) = Cardinality(up) - Cardinality(UA) /\ Cardinality(UA) \in Nat
         /\ Cardinality(up) \in Nat
    <2>1. UA \in SUBSET up /\ up \ UA = UR
      OBVIOUS
    <2> HIDE DEF UA, UR
    <2>. QED  BY <1>9, <2>1, TakenAway
  <1> HIDE DEF UA, UR
  <1>12. /\ Cardinality(A \ UA) = Cardinality(A) - Cardinality(UA)
         /\ Cardinality(R \ UR) = Cardinality(R) - Cardinality(UR)
    BY <1>4, <1>8, TakenAway
  <1>13. Count(t, Removable) <= Cardinality(M) + Cardinality(UA)
    <2>1. IsFiniteSet(M \cup UA)
          /\ Cardinality(M \cup UA) = Cardinality(M) + Cardinality(UA) - Cardinality(M \cap UA)
      BY <1>8, <1>9, FS_Union
    <2>2. Cardinality(M \cap UA) \in Nat /\ Cardinality(M) \in Nat /\ Cardinality(UA) \in Nat
          /\ Cardinality(M \cup UA) \in Nat
      BY <1>8, <1>9, <2>1, FS_Intersection, FS_CardinalityType
    <2>3. Count(t, Removable) <= Cardinality(M \cup UA)
      BY <1>7, <2>1, FS_Subset DEF Count
    <2>4. Count(t, Removable) \in Nat
      BY CountNat
    <2>. QED  BY <2>1, <2>2, <2>3, <2>4
  <1>. QED  BY <1>10, <1>11, <1>12, <1>13 DEF UA

\* Scales that are due register, and those that do not reuse an allocation add theirs.
LEMMA ProgressKeeps ==
  ASSUME NEW c \in Clusters, NEW excused \in BOOLEAN, NEW r, RecordInv(c, r, excused)
  PROVE  RecordInv(c, ScalesProgress(r), excused)
  <1>1. /\ r \in ClusterRecords /\ r.scales \in Seq(ScaleRecords) /\ r.registered \in Nat
        /\ r.allocated \in Nat /\ r.reuse \in Nat
    BY DEF RecordInv, ClusterRecords
  <1> DEFINE up == {i \in DOMAIN r.scales : Registers(r.scales[i])}
             t == [i \in DOMAIN r.scales |->
                     IF i \in up THEN [r.scales[i] EXCEPT !.state = "READY"] ELSE r.scales[i]]
             adding == {i \in up : AddsAllocation(r.scales[i])}
             q == ScalesProgress(r)
  <1>2. \A i \in DOMAIN r.scales : r.scales[i] \in ScaleRecords
    BY <1>1
  <1>3. t \in Seq(ScaleRecords) /\ DOMAIN t = DOMAIN r.scales
    <2>1. \A i \in DOMAIN r.scales : t[i] \in ScaleRecords
      BY <1>2 DEF ScaleRecords
    <2>2. DOMAIN r.scales = 1 .. Len(r.scales) /\ Len(r.scales) \in Nat
      BY <1>1
    <2>3. t \in [1 .. Len(r.scales) -> ScaleRecords] /\ DOMAIN t = DOMAIN r.scales
      BY <2>1, <2>2
    <2> HIDE DEF t
    <2>. QED  BY <2>2, <2>3, IsSeq
  <1>4. /\ up \in SUBSET DOMAIN r.scales
        /\ \A i \in up : r.scales[i].state # "READY"
        /\ adding = {i \in up : ~r.scales[i].reuses}
    BY DEF Registers, AddsAllocation
  <1>5. \A i \in DOMAIN r.scales :
           t[i] = IF i \in up THEN [r.scales[i] EXCEPT !.state = "READY"] ELSE r.scales[i]
    OBVIOUS
  <1>6. q.scales = t /\ q.registered = r.registered + Cardinality(up)
        /\ q.allocated = r.allocated + Cardinality(adding)
        /\ q.life = r.life /\ q.request = r.request /\ q.allocation = r.allocation
        /\ q.started = r.started /\ q.reuse = r.reuse
    <2>1. q = [r EXCEPT !.scales = t, !.registered = @ + Cardinality(up),
                        !.allocated = @ + Cardinality(adding)]
      BY DEF ScalesProgress
    <2> HIDE DEF q, t, up, adding
    <2>. QED  BY <1>1, <2>1 DEF ClusterRecords
  <1>7. /\ Cardinality(adding) \in Nat /\ Cardinality(up) \in Nat
        /\ Count(t, Adding) = Count(r.scales, Adding) - Cardinality(adding)
        /\ Count(t, Reusing) = Count(r.scales, Reusing) - (Cardinality(up) - Cardinality(adding))
        /\ Count(t, Removable) <= Count(r.scales, Removable) + Cardinality(adding)
    <2> HIDE DEF up, t, adding
    <2>1. /\ r.scales \in Seq(ScaleRecords) /\ t \in Seq(ScaleRecords) /\ DOMAIN t = DOMAIN r.scales
          /\ up \in SUBSET DOMAIN r.scales /\ \A i \in up : r.scales[i].state # "READY"
      BY <1>1, <1>3, <1>4
    <2>2. Readied(r.scales, t, up, adding)
      BY <1>4, <1>5, <2>1 DEF Readied
    <2>. QED  BY <2>2, CountsDiffer
  <1>8. /\ Count(r.scales, Adding) \in Nat /\ Count(r.scales, Reusing) \in Nat
        /\ Count(r.scales, Removable) \in Nat /\ Count(t, Adding) \in Nat /\ Count(t, Reusing) \in Nat
        /\ Count(t, Removable) \in Nat /\ MaxWorkers[c] \in Nat
    <2> HIDE DEF t
    <2>. QED  BY <1>1, <1>3, RecordCounts, ClusterFacts
  <1>9. q \in ClusterRecords
    <2> HIDE DEF up, t, adding
    <2>1. t \in Seq(ScaleRecords) /\ r.registered + Cardinality(up) \in Nat
          /\ r.allocated + Cardinality(adding) \in Nat
      BY <1>1, <1>3, <1>7
    <2>. QED  BY <1>1, <2>1 DEF ScalesProgress, ClusterRecords, up, t, adding
  <1>10. r.scales = <<>> => /\ q.scales = <<>> /\ q.registered = r.registered
                            /\ q.allocated = r.allocated
    <2>1. SUFFICES ASSUME r.scales = <<>>
                   PROVE  up = {} /\ adding = {} /\ t = <<>>
      BY <1>1, <1>6, FS_EmptySet
    <2>. QED  BY <2>1
  <1> HIDE DEF up, t, adding, q
  <1>14. /\ Count(q.scales, Adding) = Count(t, Adding) /\ Count(q.scales, Reusing) = Count(t, Reusing)
         /\ Count(q.scales, Removable) = Count(t, Removable)
    BY <1>6
  <1>15. /\ q.registered = r.registered + Cardinality(up) /\ q.reuse = r.reuse
         /\ q.allocated = r.allocated + Cardinality(adding)
    BY <1>6
  <1>16. r.registered \in Nat /\ r.allocated \in Nat /\ r.reuse \in Nat
    BY <1>1
  <1>11. /\ Count(q.scales, Removable) <= q.allocated
         /\ q.allocated + Count(q.scales, Adding) <= MaxWorkers[c]
    <2>1. Count(r.scales, Removable) <= r.allocated
          /\ r.allocated + Count(r.scales, Adding) <= MaxWorkers[c]
      BY DEF RecordInv
    <2>. QED  BY <1>7, <1>8, <1>14, <1>15, <1>16, <2>1
  <1>12. ASSUME ~excused
         PROVE  q.registered + q.reuse + Count(q.scales, Reusing) <= q.allocated
    <2>1. r.registered + r.reuse + Count(r.scales, Reusing) <= r.allocated
      BY <1>12 DEF RecordInv
    <2>. QED  BY <1>7, <1>8, <1>14, <1>15, <1>16, <2>1
  <1>13. RecordInv(c, q, excused)
    <2>1. /\ q.started \in {0, InitialWorkers(c)} /\ (q.request = "queued" => ~q.allocation)
          /\ (q.life \in {"TERMINATED", "FAILED"} /\ q.allocation => q.request = "none")
      BY <1>6 DEF RecordInv
    <2>2. q.life \in {"UNKNOWN", "ADMISSION_QUEUED", "HEAD_STARTING", "WORKERS_STARTING"} =>
            q.registered = 0 /\ q.reuse = 0 /\ q.scales = <<>> /\ q.allocated = r.allocated
      BY <1>6, <1>10 DEF RecordInv
    <2>3. q.life \in {"UNKNOWN", "ADMISSION_QUEUED"} => q.allocated = 0 /\ ~q.allocation
      BY <1>6, <2>2 DEF RecordInv
    <2>4. q.life \in {"HEAD_STARTING", "WORKERS_STARTING"} => q.allocated = InitialWorkers(c)
      BY <1>6, <2>2 DEF RecordInv
    <2>. QED  BY <1>9, <1>11, <1>12, <2>1, <2>2, <2>3, <2>4 DEF RecordInv
  <1>. QED  BY <1>13 DEF q

\* One cluster's share of an advance of the engine.
LEMMA AdvanceKeeps ==
  ASSUME NEW c \in Clusters, NEW excused \in BOOLEAN, NEW r, RecordInv(c, r, excused), NEW outcome
  PROVE  RecordInv(c, Advanced(c, r, outcome), excused)
  <1> DEFINE r1 == TimePasses(r)
             r2 == Answered(c, r1, outcome[0])
             r3 == ScalesAnswered(r2, outcome)
             r4 == HeadProgress(c, r3)
             r5 == WorkersStart(c, r4)
             r6 == WorkersRegister(r5)
  <1>1. RecordInv(c, r1, excused)
    BY TimeKeeps
  <1> HIDE DEF r1
  <1>2. RecordInv(c, r2, excused)
    BY <1>1, AnswerKeeps
  <1> HIDE DEF r2
  <1>3. RecordInv(c, r3, excused)
    BY <1>2, ScaleAnswersKeep
  <1> HIDE DEF r3
  <1>4. RecordInv(c, r4, excused)
    BY <1>3, HeadKeeps
  <1> HIDE DEF r4
  <1>5. RecordInv(c, r5, excused)
    BY <1>4, WorkersStartKeep
  <1> HIDE DEF r5
  <1>6. RecordInv(c, r6, excused)
    BY <1>5, RegisterKeeps
  <1> HIDE DEF r6
  <1>7. RecordInv(c, ScalesProgress(r6), excused)
    BY <1>6, ProgressKeeps
  <1>8. Advanced(c, r, outcome) = ScalesProgress(r6)
    BY DEF Advanced, r1, r2, r3, r4, r5, r6
  <1>. QED  BY <1>7, <1>8

\* All but the newest n.
LEMMA OlderStay ==
  ASSUME NEW S \in SUBSET Int, IsFiniteSet(S), NEW n \in Nat, n <= Cardinality(S)
  PROVE  /\ Newest(S, n) \in SUBSET S
         /\ Cardinality(S \ Newest(S, n)) = Cardinality(S) - n
  <1> DEFINE after(i) == {k \in S : k > i}
             First == {u \in S : Cardinality({v \in S : v < u}) < Cardinality(S) - n}
  <1>1. Cardinality(S) \in Nat /\ Cardinality(S) - n \in Nat /\ Cardinality(S) - n <= Cardinality(S)
    BY FS_CardinalityType
  <1>2. \A i \in S : /\ Cardinality({v \in S : v < i}) \in Nat
                     /\ Cardinality(after(i)) = Cardinality(S) - (Cardinality({v \in S : v < i}) + 1)
    <2>1. SUFFICES ASSUME NEW i \in S
                   PROVE  /\ Cardinality({v \in S : v < i}) \in Nat
                          /\ Cardinality(after(i)) = Cardinality(S) - (Cardinality({v \in S : v < i}) + 1)
      OBVIOUS
    <2> DEFINE low == {v \in S : v < i}
               upTo == low \cup {i}
    <2>2. low \in SUBSET S /\ upTo \in SUBSET S /\ i \notin low
      OBVIOUS
    <2>3. after(i) = S \ upTo
      <3>1. \A k \in S : k > i <=> ~(k < i) /\ k # i
        OBVIOUS
      <3>. QED  BY <3>1
    <2>4. IsFiniteSet(low)
      <3> HIDE DEF low
      <3>. QED  BY <2>2, FS_Subset
    <2>5. Cardinality(low) \in Nat /\ Cardinality(upTo) = Cardinality(low) + 1
      <3> HIDE DEF low
      <3>. QED  BY <2>2, <2>4, FS_AddElement, FS_CardinalityType
    <2>6. Cardinality(S \ upTo) = Cardinality(S) - Cardinality(upTo)
      <3> HIDE DEF upTo
      <3>. QED  BY <2>2, TakenAway
    <2>. QED  BY <2>3, <2>5, <2>6
  <1>3. S \ Newest(S, n) = First
    <2>1. \A i \in S : i \in Newest(S, n) <=> Cardinality(after(i)) < n
      BY DEF Newest
    <2>2. \A i \in S : Cardinality(after(i)) < n <=> ~(Cardinality({v \in S : v < i}) < Cardinality(S) - n)
      <3>1. SUFFICES ASSUME NEW i \in S
                     PROVE  Cardinality(after(i)) < n <=> ~(Cardinality({v \in S : v < i}) < Cardinality(S) - n)
        OBVIOUS
      <3> DEFINE a == Cardinality(after(i))
                 b == Cardinality({v \in S : v < i})
                 m == Cardinality(S)
      <3>2. b \in Nat /\ a = m - (b + 1) /\ m \in Nat
        BY <1>1, <1>2
      <3> HIDE DEF a, b, m
      <3>3. a < n <=> ~(b < m - n)
        BY <3>2
      <3>. QED  BY <3>3 DEF a, b, m
    <2> HIDE DEF after
    <2>. QED  BY <2>1, <2>2
  <1>4. Cardinality(First) = Cardinality(S) - n
    <2> DEFINE k == Cardinality(S) - n
    <2>1. k \in Nat /\ k <= Cardinality(S)
      BY <1>1
    <2> HIDE DEF k
    <2>2. Cardinality({u \in S : Cardinality({v \in S : v < u}) < k}) = k
      BY <2>1, FirstOfSet
    <2>. QED  BY <2>2 DEF k
  <1>. QED  BY <1>3, <1>4 DEF Newest

\* A record with nothing in flight has no scale on its way.
LEMMA NoneInFlight ==
  ASSUME NEW r \in ClusterRecords, ~InFlight(r)
  PROVE  Count(r.scales, Adding) = 0 /\ Count(r.scales, Reusing) = 0
  <1>1. \A i \in DOMAIN r.scales : r.scales[i] \notin Adding /\ r.scales[i] \notin Reusing
    <2>1. SUFFICES ASSUME NEW i \in DOMAIN r.scales
                   PROVE  r.scales[i] \notin Adding /\ r.scales[i] \notin Reusing
      OBVIOUS
    <2>2. r.scales[i].state \notin {"queued", "starting"}
      BY DEF InFlight
    <2>. QED  BY <2>2 DEF Adding, Reusing, ScaleRecords
  <1>2. {i \in DOMAIN r.scales : r.scales[i] \in Adding} = {}
        /\ {i \in DOMAIN r.scales : r.scales[i] \in Reusing} = {}
    BY <1>1
  <1>. QED  BY <1>2, FS_EmptySet DEF Count

\* A new scale fits the maximum, or what lost workers left, unless they were forgotten.
LEMMA RequestKeeps ==
  ASSUME NEW c \in Clusters, NEW excused \in BOOLEAN, NEW r, RecordInv(c, r, excused),
         r.life = "READY", ~InFlight(r), NEW n \in Nat,
         NEW replacement \in BOOLEAN, NEW reuses \in BOOLEAN, reuses => replacement,
         ~reuses => r.allocated + n <= MaxWorkers[c],
         reuses => excused \/ r.registered + r.reuse + n <= r.allocated,
         NEW q \in Requested(r, n, replacement, reuses)
  PROVE  RecordInv(c, q, excused)
  <1>1. /\ r \in ClusterRecords /\ r.scales \in Seq(ScaleRecords) /\ r.registered \in Nat
        /\ r.allocated \in Nat /\ r.reuse \in Nat
    BY DEF RecordInv, ClusterRecords
  <1> DEFINE e == Scale(replacement, reuses)
  <1>2. /\ e \in ScaleRecords /\ e \notin Removable
        /\ (e \in Adding <=> ~reuses) /\ (e \in Reusing <=> reuses)
    BY DEF Scale, ScaleRecords, Adding, Reusing, Removable
  <1>3. PICK k \in 0 .. n : q = [r EXCEPT !.scales = @ \o [i \in 1 .. k |-> e]]
    BY DEF Requested
  <1>4. k \in Nat /\ k <= n
    BY <1>3
  <1> DEFINE t == r.scales \o [i \in 1 .. k |-> e]
  <1> HIDE DEF e
  <1>5. /\ t \in Seq(ScaleRecords)
        /\ Count(t, Adding) = Count(r.scales, Adding) + (IF e \in Adding THEN k ELSE 0)
        /\ Count(t, Reusing) = Count(r.scales, Reusing) + (IF e \in Reusing THEN k ELSE 0)
        /\ Count(t, Removable) = Count(r.scales, Removable) + (IF e \in Removable THEN k ELSE 0)
    BY <1>1, <1>2, <1>4, CountJoined
  <1>6. Count(r.scales, Adding) = 0 /\ Count(r.scales, Reusing) = 0 /\ Count(r.scales, Removable) \in Nat
        /\ MaxWorkers[c] \in Nat
    BY <1>1, NoneInFlight, RecordCounts, ClusterFacts
  <1>7. /\ q \in ClusterRecords /\ q.scales = t /\ q.life = "READY" /\ q.request = r.request
        /\ q.allocation = r.allocation /\ q.started = r.started /\ q.registered = r.registered
        /\ q.allocated = r.allocated /\ q.reuse = r.reuse
    BY <1>1, <1>3, <1>5 DEF ClusterRecords
  <1> HIDE DEF t
  <1>8. /\ Count(r.scales, Removable) <= r.allocated /\ r.allocated + Count(r.scales, Adding) <= MaxWorkers[c]
        /\ r.started \in {0, InitialWorkers(c)} /\ (r.request = "queued" => ~r.allocation)
    BY DEF RecordInv
  <1>9. ~excused => r.registered + r.reuse + Count(r.scales, Reusing) <= r.allocated
    BY DEF RecordInv
  <1>10. Count(t, Removable) <= r.allocated /\ r.allocated + Count(t, Adding) <= MaxWorkers[c]
    <2>1. CASE reuses
      BY <2>1, <1>1, <1>2, <1>4, <1>5, <1>6, <1>8
    <2>2. CASE ~reuses
      BY <2>2, <1>1, <1>2, <1>4, <1>5, <1>6, <1>8
    <2>. QED  BY <2>1, <2>2
  <1>11. ~excused => r.registered + r.reuse + Count(t, Reusing) <= r.allocated
    <2>1. SUFFICES ASSUME ~excused
                   PROVE  r.registered + r.reuse + Count(t, Reusing) <= r.allocated
      OBVIOUS
    <2>2. r.registered + r.reuse + Count(r.scales, Reusing) <= r.allocated
      BY <2>1, <1>9
    <2>3. CASE reuses
      <3>1. r.registered + r.reuse + n <= r.allocated
        BY <2>1, <2>3
      <3>. QED  BY <2>3, <3>1, <1>1, <1>2, <1>4, <1>5, <1>6
    <2>4. CASE ~reuses
      BY <2>2, <2>4, <1>1, <1>2, <1>5, <1>6
    <2>. QED  BY <2>3, <2>4
  <1>. QED  BY <1>7, <1>8, <1>10, <1>11 DEF RecordInv

\* A scale-down, and a worker lost, take the newest away.
LEMMA NewestTaken ==
  ASSUME NEW r \in ClusterRecords, NEW n \in Nat
  PROVE  LET t == Without(r.scales, Newest(Dynamic(r), n)) IN
         /\ t \in Seq(ScaleRecords) /\ Cardinality(Dynamic(r)) = Count(r.scales, Removable)
         /\ Count(t, Adding) <= Count(r.scales, Adding) /\ Count(t, Reusing) <= Count(r.scales, Reusing)
         /\ Count(t, Removable) <= Count(r.scales, Removable)
         /\ n <= Count(r.scales, Removable) => Count(t, Removable) = Count(r.scales, Removable) - n
  <1> DEFINE I == Newest(Dynamic(r), n)
             t == Without(r.scales, I)
  <1>1. r.scales \in Seq(ScaleRecords) /\ DOMAIN r.scales \in SUBSET Int
    BY DEF ClusterRecords
  <1>2. Dynamic(r) = {i \in DOMAIN r.scales : r.scales[i] \in Removable}
    <2>1. \A i \in DOMAIN r.scales : r.scales[i] \in ScaleRecords
      BY <1>1
    <2>2. \A i \in DOMAIN r.scales :
             r.scales[i] \in Removable <=> r.scales[i].state = "READY" /\ ~r.scales[i].replacement
      BY <2>1 DEF Removable
    <2>. QED  BY <2>2 DEF Dynamic
  <1>3. IsFiniteSet(Dynamic(r)) /\ Cardinality(Dynamic(r)) = Count(r.scales, Removable)
        /\ Dynamic(r) \in SUBSET Int
    <2>1. IsFiniteSet({i \in DOMAIN r.scales : r.scales[i] \in Removable})
      BY <1>1, CountNat
    <2>2. {i \in DOMAIN r.scales : r.scales[i] \in Removable} \in SUBSET Int
      BY <1>1
    <2>. QED  BY <1>2, <2>1, <2>2 DEF Count
  <1>4. {i \in DOMAIN r.scales \ I : r.scales[i] \in Removable} = Dynamic(r) \ I
    BY <1>2
  <1>5. n <= Cardinality(Dynamic(r)) => Cardinality(Dynamic(r) \ I) = Cardinality(Dynamic(r)) - n
    BY <1>3, OlderStay
  <1> HIDE DEF I
  <1>6. /\ t \in Seq(ScaleRecords)
        /\ Count(t, Adding) <= Count(r.scales, Adding) /\ Count(t, Reusing) <= Count(r.scales, Reusing)
        /\ Count(t, Removable) <= Count(r.scales, Removable)
        /\ Count(t, Removable) = Cardinality({i \in DOMAIN r.scales \ I : r.scales[i] \in Removable})
    <2>1. \A K : /\ t \in Seq(ScaleRecords) /\ Count(t, K) <= Count(r.scales, K)
                 /\ Count(t, K) = Cardinality({i \in DOMAIN r.scales \ I : r.scales[i] \in K})
      <3>1. SUFFICES ASSUME NEW K
                     PROVE  /\ t \in Seq(ScaleRecords) /\ Count(t, K) <= Count(r.scales, K)
                            /\ Count(t, K) = Cardinality({i \in DOMAIN r.scales \ I : r.scales[i] \in K})
        OBVIOUS
      <3>. QED  BY <1>1, CountWithout
    <2> HIDE DEF t
    <2>. QED  BY <2>1
  <1>. QED  BY <1>3, <1>4, <1>5, <1>6 DEF I

\* A scale-down keeps the record, forgetting lost workers where it says so.
LEMMA ScaleDownKeeps ==
  ASSUME NEW c \in Clusters, NEW excused \in BOOLEAN, NEW r, RecordInv(c, r, excused),
         r.life = "READY", ~InFlight(r), NEW target \in Nat, target < r.allocated,
         NEW q, q = ScaledDown(r, target)
  PROVE  RecordInv(c, q, excused \/ (q.allocated < r.allocated /\ q.reuse > 0))
  <1> DEFINE n == r.allocated - target
             t == Without(r.scales, Newest(Dynamic(r), n))
             released == [r EXCEPT !.scales = Without(@, Newest(Dynamic(r), n))]
             ex == excused \/ (q.allocated < r.allocated /\ q.reuse > 0)
  <1>1. /\ r \in ClusterRecords /\ r.registered \in Nat /\ r.allocated \in Nat /\ r.reuse \in Nat
        /\ MaxWorkers[c] \in Nat /\ r.scales \in Seq(ScaleRecords)
    BY ClusterFacts DEF RecordInv, ClusterRecords
  <1>2. n \in Nat /\ r.allocated - n = target
    BY <1>1
  <1> HIDE DEF n
  <1>3. /\ t \in Seq(ScaleRecords) /\ Cardinality(Dynamic(r)) = Count(r.scales, Removable)
        /\ Count(t, Adding) <= Count(r.scales, Adding) /\ Count(t, Reusing) <= Count(r.scales, Reusing)
        /\ Count(t, Removable) <= Count(r.scales, Removable)
        /\ n <= Count(r.scales, Removable) => Count(t, Removable) = Count(r.scales, Removable) - n
    BY <1>1, <1>2, NewestTaken
  <1>4. /\ Count(r.scales, Adding) = 0 /\ Count(r.scales, Reusing) = 0
        /\ Count(r.scales, Removable) \in Nat /\ Count(t, Adding) \in Nat /\ Count(t, Reusing) \in Nat
        /\ Count(t, Removable) \in Nat
    <2> HIDE DEF t
    <2>. QED  BY <1>1, <1>3, NoneInFlight, RecordCounts
  <1>5. /\ Count(r.scales, Removable) <= r.allocated /\ r.allocated + Count(r.scales, Adding) <= MaxWorkers[c]
        /\ r.started \in {0, InitialWorkers(c)} /\ (r.request = "queued" => ~r.allocation)
    BY DEF RecordInv
  <1> HIDE DEF t
  <1>6. /\ released \in ClusterRecords /\ released.scales = t /\ released.life = "READY"
        /\ released.request = r.request /\ released.allocation = r.allocation
        /\ released.started = r.started /\ released.registered = r.registered
        /\ released.allocated = r.allocated /\ released.reuse = r.reuse
    BY <1>1, <1>3 DEF ClusterRecords, t
  <1>7. CASE Cardinality(Dynamic(r)) < n
    <2>1. q = released
      BY <1>7 DEF ScaledDown, n
    <2> HIDE DEF released
    <2>2. r.scales = <<>> => Count(r.scales, Removable) = 0 /\ Count(t, Removable) = 0
      BY <1>3, <1>4, CountNone
    <2>3. r.registered + r.reuse + Count(t, Reusing) <= r.allocated \/ excused
      <3>1. SUFFICES ASSUME ~excused
                     PROVE  r.registered + r.reuse + Count(t, Reusing) <= r.allocated
        OBVIOUS
      <3>2. r.registered + r.reuse + Count(r.scales, Reusing) <= r.allocated
        BY <3>1 DEF RecordInv
      <3>. QED  BY <1>1, <1>3, <1>4, <3>2
    <2>4. Count(t, Removable) <= r.allocated /\ r.allocated + Count(t, Adding) <= MaxWorkers[c]
      BY <1>1, <1>3, <1>4, <1>5
    <2>5. RecordInv(c, released, excused)
      BY <1>5, <1>6, <2>3, <2>4 DEF RecordInv
    <2>6. ex = excused
      BY <1>1, <1>6, <2>1
    <2>. QED  BY <2>1, <2>5, <2>6
  <1>8. CASE ~(Cardinality(Dynamic(r)) < n)
    <2> DEFINE p == [released EXCEPT !.allocated = target, !.registered = Min({r.registered, target})]
    <2>1. q = p
      BY <1>8 DEF ScaledDown, n
    <2>2. Min({r.registered, target}) \in Nat /\ Min({r.registered, target}) <= target
      <3>1. {r.registered, target} \in SUBSET Nat /\ {r.registered, target} # {}
        BY <1>1
      <3>2. /\ Min({r.registered, target}) \in {r.registered, target}
            /\ \A s \in {r.registered, target} : Min({r.registered, target}) <= s
        BY <3>1, LeastNat
      <3>. QED  BY <1>1, <3>2
    <2> DEFINE least == Min({r.registered, target})
    <2> HIDE DEF least
    <2>3. /\ q \in ClusterRecords /\ q.scales = t /\ q.life = "READY"
          /\ q.request = r.request /\ q.allocation = r.allocation
          /\ q.started = r.started /\ q.registered = least
          /\ q.allocated = target /\ q.reuse = r.reuse
      <3> HIDE DEF released
      <3>. QED  BY <1>6, <2>1, <2>2 DEF ClusterRecords, least
    <2>4. least \in Nat /\ least <= target
      BY <2>2 DEF least
    <2>5. Count(t, Removable) <= target /\ target + Count(t, Adding) <= MaxWorkers[c]
      <3>1. Count(t, Removable) = Count(r.scales, Removable) - n
        BY <1>2, <1>3, <1>4, <1>8
      <3>. QED  BY <3>1, <1>1, <1>2, <1>3, <1>4, <1>5
    <2>6. ASSUME ~ex
          PROVE  least + r.reuse + Count(t, Reusing) <= target
      <3>1. r.reuse = 0
        BY <1>1, <2>3, <2>6
      <3>. QED  BY <3>1, <2>4, <1>3, <1>4
    <2> HIDE DEF p, ex
    <2>7. RecordInv(c, q, ex)
      BY <1>5, <2>3, <2>5, <2>6 DEF RecordInv
    <2>. QED  BY <2>7 DEF ex
  <1>. QED  BY <1>7, <1>8

\* Asking for a number of workers: a scale-up, a scale-down or nothing.
LEMMA WorkerCountKeeps ==
  ASSUME NEW c \in Clusters, NEW excused \in BOOLEAN, NEW r, RecordInv(c, r, excused),
         NEW target \in Nat, target <= MaxWorkers[c], NEW q \in WorkerCounts(c, r, target)
  PROVE  RecordInv(c, q, excused \/ (q.allocated < r.allocated /\ q.reuse > 0))
  <1>1. r \in ClusterRecords /\ r.allocated \in Nat /\ MaxWorkers[c] \in Nat
    BY ClusterFacts DEF RecordInv, ClusterRecords
  <1>2. CASE q = r
    <2>1. (excused \/ (q.allocated < r.allocated /\ q.reuse > 0)) = excused
      BY <1>1, <1>2
    <2>. QED  BY <1>2, <2>1
  <1>3. CASE q # r
    <2>1. r.life = "READY" /\ ~InFlight(r)
      BY <1>3 DEF WorkerCounts
    <2>2. CASE target > r.allocated
      <3> DEFINE n == target - r.allocated
      <3>1. q \in Requested(r, n, FALSE, FALSE)
        <4>1. target # r.allocated
          BY <1>1, <2>2
        <4>2. WorkerCounts(c, r, target) = Requested(r, n, FALSE, FALSE)
          BY <2>1, <2>2, <4>1, Zenon DEF WorkerCounts
        <4>. QED  BY <4>2
      <3>2. n \in Nat /\ r.allocated + n <= MaxWorkers[c]
        BY <1>1, <2>2
      <3>3. RecordInv(c, q, excused)
        <4> HIDE DEF n
        <4>. QED  BY <2>1, <3>1, <3>2, RequestKeeps
      <3>4. q.allocated = r.allocated
        BY <1>1, <3>1 DEF Requested, ClusterRecords
      <3>5. (excused \/ (q.allocated < r.allocated /\ q.reuse > 0)) = excused
        BY <1>1, <3>4
      <3>. QED  BY <3>3, <3>5
    <2>3. CASE ~(target > r.allocated)
      <3>1. q = ScaledDown(r, target) /\ target < r.allocated
        <4>1. target # r.allocated /\ ~(target < InitialWorkers(c))
          BY <1>3, <2>3, Zenon DEF WorkerCounts
        <4>2. WorkerCounts(c, r, target) = {ScaledDown(r, target)}
          BY <2>1, <2>3, <4>1, Zenon DEF WorkerCounts
        <4>3. target < r.allocated
          BY <1>1, <2>3, <4>1
        <4>. QED  BY <4>2, <4>3
      <3>. QED  BY <2>1, <3>1, ScaleDownKeeps
    <2>. QED  BY <2>2, <2>3
  <1>. QED  BY <1>2, <1>3

\* A worker is lost; what it held is either given back or kept for its replacement.
LEMMA LossKeeps ==
  ASSUME NEW c \in Clusters, NEW excused \in BOOLEAN, NEW r, RecordInv(c, r, excused), r.registered >= 1
  PROVE  LET q == WorkerLost(r) IN
         /\ RecordInv(c, q, excused) /\ q.life = r.life /\ q.registered = r.registered - 1
         /\ q.allocated \in Nat /\ q.reuse \in Nat
         /\ q.reuse >= 1 \/ q.allocated + 1 <= MaxWorkers[c]
  <1> DEFINE t == Without(r.scales, Newest(Dynamic(r), 1))
             q == WorkerLost(r)
  <1>1. /\ r \in ClusterRecords /\ r.registered \in Nat /\ r.allocated \in Nat /\ r.reuse \in Nat
        /\ MaxWorkers[c] \in Nat /\ r.scales \in Seq(ScaleRecords)
    BY ClusterFacts DEF RecordInv, ClusterRecords
  <1>2. /\ r.life \notin {"UNKNOWN", "ADMISSION_QUEUED", "HEAD_STARTING", "WORKERS_STARTING"}
        /\ r.started \in {0, InitialWorkers(c)} /\ (r.request = "queued" => ~r.allocation)
        /\ (r.life \in {"TERMINATED", "FAILED"} /\ r.allocation => r.request = "none")
        /\ Count(r.scales, Removable) <= r.allocated
        /\ r.allocated + Count(r.scales, Adding) <= MaxWorkers[c]
    BY DEF RecordInv
  <1>3. /\ t \in Seq(ScaleRecords) /\ Cardinality(Dynamic(r)) = Count(r.scales, Removable)
        /\ Count(t, Adding) <= Count(r.scales, Adding) /\ Count(t, Reusing) <= Count(r.scales, Reusing)
        /\ Count(t, Removable) <= Count(r.scales, Removable)
        /\ 1 <= Count(r.scales, Removable) => Count(t, Removable) = Count(r.scales, Removable) - 1
    BY <1>1, NewestTaken
  <1>4. /\ Count(r.scales, Adding) \in Nat /\ Count(r.scales, Reusing) \in Nat
        /\ Count(r.scales, Removable) \in Nat /\ Count(t, Adding) \in Nat /\ Count(t, Reusing) \in Nat
        /\ Count(t, Removable) \in Nat
    <2> HIDE DEF t
    <2>. QED  BY <1>1, <1>3, RecordCounts
  <1>5. ~excused => r.registered + r.reuse + Count(r.scales, Reusing) <= r.allocated
    BY DEF RecordInv
  <1>6. CASE Dynamic(r) # {}
    <2>1. 1 <= Count(r.scales, Removable)
      <3>1. IsFiniteSet(Dynamic(r))
        <4>1. Dynamic(r) \in SUBSET DOMAIN r.scales
          BY DEF Dynamic
        <4>2. IsFiniteSet(DOMAIN r.scales)
          <5>1. DOMAIN r.scales = 1 .. Len(r.scales) /\ 1 \in Int /\ Len(r.scales) \in Int
            BY <1>1
          <5>. QED  BY <5>1, FS_Interval
        <4>. QED  BY <4>1, <4>2, FS_Subset
      <3>2. Cardinality(Dynamic(r)) # 0
        BY <1>6, <3>1, FS_EmptySet
      <3>3. Count(r.scales, Removable) # 0 /\ Count(r.scales, Removable) \in Nat
        BY <3>2, <1>3, <1>4
      <3>. QED  BY <3>3
    <2>2. r.registered - 1 \in Nat /\ r.allocated - 1 \in Nat
      <3>1. r.registered \in Nat /\ r.registered >= 1
        BY <1>1
      <3>2. r.allocated \in Nat /\ Count(r.scales, Removable) \in Nat
            /\ Count(r.scales, Removable) <= r.allocated
        BY <1>1, <1>2, <1>4
      <3>. QED  BY <2>1, <3>1, <3>2
    <2>3. /\ q \in ClusterRecords /\ q.scales = t /\ q.life = r.life
          /\ q.request = r.request /\ q.allocation = r.allocation
          /\ q.started = r.started /\ q.registered = r.registered - 1
          /\ q.allocated = r.allocated - 1 /\ q.reuse = r.reuse
      <3> HIDE DEF t
      <3>. QED  BY <1>1, <1>3, <1>6, <2>2 DEF WorkerLost, ClusterRecords, t
    <2> HIDE DEF t, q
    <2>4. /\ Count(t, Removable) <= r.allocated - 1
          /\ (r.allocated - 1) + Count(t, Adding) <= MaxWorkers[c]
          /\ (r.allocated - 1) + 1 <= MaxWorkers[c]
      <3>1. \A x, y, a \in Nat : 1 <= x /\ (1 <= x => y = x - 1) /\ x <= a => y <= a - 1
        OBVIOUS
      <3>2. \A x, y, a, m \in Nat : y <= x /\ a + x <= m => (a - 1) + y <= m /\ (a - 1) + 1 <= m
        OBVIOUS
      <3>3. r.allocated \in Nat /\ MaxWorkers[c] \in Nat
        BY <1>1
      <3>4. Count(t, Removable) <= r.allocated - 1
        BY <1>2, <1>3, <1>4, <2>1, <3>1, <3>3
      <3>5. (r.allocated - 1) + Count(t, Adding) <= MaxWorkers[c] /\ (r.allocated - 1) + 1 <= MaxWorkers[c]
        BY <1>2, <1>3, <1>4, <3>2, <3>3
      <3>. QED  BY <3>4, <3>5
    <2>5. ~excused => (r.registered - 1) + r.reuse + Count(t, Reusing) <= r.allocated - 1
      <3>1. SUFFICES ASSUME ~excused
                     PROVE  (r.registered - 1) + r.reuse + Count(t, Reusing) <= r.allocated - 1
        OBVIOUS
      <3>2. r.registered + r.reuse + Count(r.scales, Reusing) <= r.allocated
        BY <1>5, <3>1
      <3>3. Count(t, Reusing) <= Count(r.scales, Reusing) /\ Count(t, Reusing) \in Nat
            /\ Count(r.scales, Reusing) \in Nat
        BY <1>3, <1>4
      <3>4. r.registered \in Nat /\ r.allocated \in Nat /\ r.reuse \in Nat
        BY <1>1
      <3>. QED  BY <3>2, <3>3, <3>4
    <2>6. RecordInv(c, q, excused)
      BY <1>2, <2>3, <2>4, <2>5 DEF RecordInv
    <2>. QED  BY <1>1, <2>2, <2>3, <2>4, <2>6 DEF q
  <1>7. CASE Dynamic(r) = {}
    <2>1. /\ q \in ClusterRecords /\ q.scales = r.scales /\ q.life = r.life
          /\ q.request = r.request /\ q.allocation = r.allocation
          /\ q.started = r.started /\ q.registered = r.registered - 1
          /\ q.allocated = r.allocated /\ q.reuse = r.reuse + 1
      <3>1. r.registered - 1 \in Nat /\ r.reuse + 1 \in Nat
        BY <1>1
      <3>2. q = [r EXCEPT !.registered = @ - 1, !.reuse = @ + 1]
        BY <1>7 DEF WorkerLost
      <3> HIDE DEF q
      <3>. QED  BY <1>1, <3>1, <3>2 DEF ClusterRecords
    <2> HIDE DEF q
    <2>2. ~excused => (r.registered - 1) + (r.reuse + 1) + Count(r.scales, Reusing) <= r.allocated
      <3>1. SUFFICES ASSUME ~excused
                     PROVE  (r.registered - 1) + (r.reuse + 1) + Count(r.scales, Reusing) <= r.allocated
        OBVIOUS
      <3>2. r.registered + r.reuse + Count(r.scales, Reusing) <= r.allocated
        BY <1>5, <3>1
      <3>3. \A x, y, z, a \in Nat : x >= 1 /\ x + y + z <= a => (x - 1) + (y + 1) + z <= a
        OBVIOUS
      <3>4. r.registered \in Nat /\ r.reuse \in Nat /\ r.allocated \in Nat /\ Count(r.scales, Reusing) \in Nat
        BY <1>1, <1>4
      <3>. QED  BY <3>2, <3>3, <3>4
    <2>3. RecordInv(c, q, excused)
      BY <1>2, <2>1, <2>2 DEF RecordInv
    <2>. QED  BY <1>1, <2>1, <2>3 DEF q
  <1>. QED  BY <1>6, <1>7

\* The replacement of a lost worker reuses its allocation, or finds room for its own.
LEMMA ReplacementKeeps ==
  ASSUME NEW c \in Clusters, NEW excused \in BOOLEAN, NEW r, RecordInv(c, r, excused),
         r.life = "READY", r.reuse >= 1 \/ r.allocated + 1 <= MaxWorkers[c],
         NEW q \in Replaced(c, r)
  PROVE  RecordInv(c, q, excused)
  <1>1. /\ r \in ClusterRecords /\ r.registered \in Nat /\ r.allocated \in Nat /\ r.reuse \in Nat
    BY DEF RecordInv, ClusterRecords
  <1>2. CASE q = r
    BY <1>2
  <1>3. CASE q # r /\ r.reuse >= 1
    <2> DEFINE p == [r EXCEPT !.reuse = @ - 1]
    <2>1. ~InFlight(r) /\ q \in Requested(p, 1, TRUE, TRUE)
      BY <1>3 DEF Replaced
    <2>2. r.reuse - 1 \in Nat
      BY <1>1, <1>3
    <2>3. /\ p \in ClusterRecords /\ p.scales = r.scales /\ p.life = r.life
          /\ p.request = r.request /\ p.allocation = r.allocation
          /\ p.started = r.started /\ p.registered = r.registered
          /\ p.allocated = r.allocated /\ p.reuse = r.reuse - 1
      BY <1>1, <2>2 DEF ClusterRecords
    <2> HIDE DEF p
    <2>4. ~InFlight(p)
      BY <2>1, <2>3 DEF InFlight
    <2>5. Count(r.scales, Reusing) = 0
      BY <1>1, <2>1, NoneInFlight
    <2>6. ASSUME ~excused
          PROVE  p.registered + p.reuse + 1 <= p.allocated
                 /\ p.registered + p.reuse + Count(p.scales, Reusing) <= p.allocated
      <3>1. r.registered + r.reuse + Count(r.scales, Reusing) <= r.allocated
        BY <2>6 DEF RecordInv
      <3>2. Count(p.scales, Reusing) = 0
        BY <2>3, <2>5
      <3>. QED  BY <3>1, <3>2, <1>1, <2>3, <2>5
    <2>7. RecordInv(c, p, excused)
      BY <2>3, <2>6 DEF RecordInv
    <2>8. p.life = "READY" /\ (TRUE => excused \/ p.registered + p.reuse + 1 <= p.allocated)
      BY <2>3, <2>6
    <2>. QED  BY <2>1, <2>4, <2>7, <2>8, RequestKeeps
  <1>4. CASE q # r /\ ~(r.reuse >= 1)
    <2>1. ~InFlight(r) /\ q \in Requested(r, 1, TRUE, FALSE)
      BY <1>4 DEF Replaced
    <2>2. r.allocated + 1 <= MaxWorkers[c]
      BY <1>4
    <2>. QED  BY <2>1, <2>2, RequestKeeps
  <1>. QED  BY <1>2, <1>3, <1>4

\* A cluster that drains or ends keeps what it has, and gives back what it was lent.
LEMMA EndKeeps ==
  ASSUME NEW c \in Clusters, NEW excused \in BOOLEAN, NEW r, RecordInv(c, r, excused),
         NEW q \in ClusterRecords, q.life \in {"DRAINING", "TERMINATED", "FAILED"},
         q.request \in {r.request, "none"}, q.allocation = r.allocation, q.started = r.started,
         q.registered = r.registered, q.allocated = r.allocated, q.reuse = r.reuse,
         q.life # "DRAINING" /\ r.allocation => q.request = "none",
         \A K : Count(q.scales, K) <= Count(r.scales, K)
  PROVE  RecordInv(c, q, excused)
  <1>1. /\ r \in ClusterRecords /\ r.registered \in Nat /\ r.allocated \in Nat /\ r.reuse \in Nat
        /\ MaxWorkers[c] \in Nat /\ r.scales \in Seq(ScaleRecords) /\ q.scales \in Seq(ScaleRecords)
    BY ClusterFacts DEF RecordInv, ClusterRecords
  <1>2. /\ Count(r.scales, Adding) \in Nat /\ Count(r.scales, Reusing) \in Nat
        /\ Count(r.scales, Removable) \in Nat /\ Count(q.scales, Adding) \in Nat
        /\ Count(q.scales, Reusing) \in Nat /\ Count(q.scales, Removable) \in Nat
    BY <1>1, RecordCounts
  <1>3. /\ Count(q.scales, Adding) <= Count(r.scales, Adding)
        /\ Count(q.scales, Reusing) <= Count(r.scales, Reusing)
        /\ Count(q.scales, Removable) <= Count(r.scales, Removable)
    OBVIOUS
  <1>4. Count(r.scales, Removable) <= r.allocated /\ r.allocated + Count(r.scales, Adding) <= MaxWorkers[c]
    BY DEF RecordInv
  <1>5. Count(q.scales, Removable) <= q.allocated /\ q.allocated + Count(q.scales, Adding) <= MaxWorkers[c]
    <2>1. \A x, y, a, m \in Nat : x <= y /\ a + y <= m => a + x <= m
      OBVIOUS
    <2>2. \A x, y, a \in Nat : x <= y /\ y <= a => x <= a
      OBVIOUS
    <2>3. r.allocated \in Nat /\ MaxWorkers[c] \in Nat
      BY <1>1
    <2>4. r.allocated + Count(q.scales, Adding) <= MaxWorkers[c]
      BY <1>2, <1>3, <1>4, <2>1, <2>3
    <2>5. Count(q.scales, Removable) <= r.allocated
      BY <1>2, <1>3, <1>4, <2>2, <2>3
    <2>. QED  BY <2>4, <2>5
  <1>6. ASSUME ~excused
        PROVE  q.registered + q.reuse + Count(q.scales, Reusing) <= q.allocated
    <2>1. r.registered + r.reuse + Count(r.scales, Reusing) <= r.allocated
      BY <1>6 DEF RecordInv
    <2>2. r.registered \in Nat /\ r.reuse \in Nat /\ r.allocated \in Nat
      BY <1>1
    <2>3. r.registered + r.reuse + Count(q.scales, Reusing) <= r.allocated
      BY <1>2, <1>3, <2>1, <2>2
    <2>. QED  BY <2>3
  <1>7. q.started \in {0, InitialWorkers(c)} /\ (q.request = "queued" => ~q.allocation)
    BY DEF RecordInv
  <1>. QED  BY <1>5, <1>6, <1>7 DEF RecordInv

\* A cluster that ends gives back all it was lent.
LEMMA ReleaseKeeps ==
  ASSUME NEW c \in Clusters, NEW excused \in BOOLEAN, NEW r, RecordInv(c, r, excused),
         NEW life \in {"TERMINATED", "FAILED"}
  PROVE  RecordInv(c, [AllocationReleased(ScalesReleased(r)) EXCEPT !.life = life], excused)
  <1> DEFINE I == {i \in DOMAIN r.scales : r.scales[i].state # "queued"}
             t == Without(r.scales, I)
             p == ScalesReleased(r)
             q == [AllocationReleased(p) EXCEPT !.life = life]
  <1>1. r \in ClusterRecords /\ r.scales \in Seq(ScaleRecords)
    BY DEF RecordInv, ClusterRecords
  <1>2. t \in Seq(ScaleRecords) /\ \A K : Count(t, K) <= Count(r.scales, K)
    <2> HIDE DEF I
    <2>1. \A K : t \in Seq(ScaleRecords) /\ Count(t, K) <= Count(r.scales, K)
      BY <1>1, CountWithout
    <2>. QED  BY <2>1
  <1>3. p = [r EXCEPT !.scales = t]
    BY DEF ScalesReleased
  <1> HIDE DEF t, p
  <1>4. /\ p \in ClusterRecords /\ p.scales = t /\ p.life = r.life
        /\ p.request = r.request /\ p.allocation = r.allocation
        /\ p.started = r.started /\ p.registered = r.registered
        /\ p.allocated = r.allocated /\ p.reuse = r.reuse
    BY <1>1, <1>2, <1>3 DEF ClusterRecords
  <1>5. /\ q \in ClusterRecords /\ q.scales = t /\ q.life = life
        /\ q.request = (IF r.allocation THEN "none" ELSE r.request) /\ q.allocation = r.allocation
        /\ q.started = r.started /\ q.registered = r.registered
        /\ q.allocated = r.allocated /\ q.reuse = r.reuse
    BY <1>4 DEF ClusterRecords, AllocationReleased, Lives
  <1> HIDE DEF q
  <1>6. RecordInv(c, q, excused)
    BY <1>2, <1>5, EndKeeps
  <1>. QED  BY <1>6 DEF q, p

\* What is asked of one cluster keeps the records.
LEMMA AskedKeeps ==
  ASSUME NEW c \in Clusters, ClustersInv, forgotten \in BOOLEAN,
         SubmitCluster(c) \/ BeginDrain(c) \/ Terminate(c) \/ Fail(c),
         UNCHANGED forgotten
  PROVE  ClustersInv'
  <1> DEFINE excused == IF c = Autoscaled THEN forgotten ELSE FALSE
             r == cl[c]
  <1>1. RecordInv(c, r, excused) /\ r \in ClusterRecords /\ excused \in BOOLEAN
        /\ r.scales \in Seq(ScaleRecords)
    BY DEF ClustersInv, RecordInv, ClusterRecords
  <1> SUFFICES ASSUME TRUE
               PROVE  \E q \in ClusterRecords : cl' = [cl EXCEPT ![c] = q] /\ RecordInv(c, q, excused)
    BY DEF ClustersInv
  <1>2. \A n \in Nat : n <= n
    OBVIOUS
  <1>3. \A K : Count(r.scales, K) <= Count(r.scales, K)
    <2>1. \A K : Count(r.scales, K) \in Nat
      BY <1>1, CountNat
    <2>. QED  BY <2>1
  <1>4. CASE SubmitCluster(c)
    <2>1. r.life = "UNKNOWN"
      BY <1>4 DEF SubmitCluster
    <2>2. CASE cl' = [cl EXCEPT ![c].life = "ADMISSION_QUEUED", ![c].request = "queued"]
      <3> DEFINE q == [r EXCEPT !.life = "ADMISSION_QUEUED", !.request = "queued"]
      <3>1. cl' = [cl EXCEPT ![c] = q]
        BY <1>1, <2>2 DEF ClustersInv, ClusterRecords
      <3>2. /\ q \in ClusterRecords /\ q.scales = r.scales /\ q.life = "ADMISSION_QUEUED"
            /\ q.request = "queued" /\ q.allocation = r.allocation
            /\ q.started = r.started /\ q.registered = r.registered
            /\ q.allocated = r.allocated /\ q.reuse = r.reuse
        BY <1>1 DEF ClusterRecords, Lives
      <3> HIDE DEF q
      <3>3. RecordInv(c, q, excused)
        BY <1>1, <2>1, <3>2 DEF RecordInv
      <3>. QED  BY <3>1, <3>2, <3>3
    <2>3. CASE cl' = [cl EXCEPT ![c].life = "FAILED"]
      <3> DEFINE q == [r EXCEPT !.life = "FAILED"]
      <3>1. cl' = [cl EXCEPT ![c] = q]
        BY <1>1, <2>3 DEF ClustersInv, ClusterRecords
      <3>2. /\ q \in ClusterRecords /\ q.scales = r.scales /\ q.life = "FAILED"
            /\ q.request = r.request /\ q.allocation = r.allocation
            /\ q.started = r.started /\ q.registered = r.registered
            /\ q.allocated = r.allocated /\ q.reuse = r.reuse
        BY <1>1 DEF ClusterRecords, Lives
      <3>4. ~r.allocation
        BY <1>1, <2>1 DEF RecordInv
      <3> HIDE DEF q, r, excused
      <3>3. RecordInv(c, q, excused)
        BY <1>1, <1>3, <3>2, <3>4, EndKeeps
      <3>. QED  BY <3>1, <3>2, <3>3 DEF r, excused
    <2>. QED  BY <1>4, <2>2, <2>3 DEF SubmitCluster
  <1>5. CASE BeginDrain(c)
    <2> DEFINE q == [r EXCEPT !.life = "DRAINING"]
    <2>1. cl' = [cl EXCEPT ![c] = q]
      BY <1>1, <1>5 DEF ClustersInv, ClusterRecords, BeginDrain
    <2>2. /\ q \in ClusterRecords /\ q.scales = r.scales /\ q.life = "DRAINING"
          /\ q.request = r.request /\ q.allocation = r.allocation
          /\ q.started = r.started /\ q.registered = r.registered
          /\ q.allocated = r.allocated /\ q.reuse = r.reuse
      BY <1>1 DEF ClusterRecords, Lives
    <2> HIDE DEF q, r, excused
    <2>3. RecordInv(c, q, excused)
      BY <1>1, <1>3, <2>2, EndKeeps
    <2>. QED  BY <2>1, <2>2, <2>3 DEF r, excused
  <1>6. CASE Terminate(c)
    <2> DEFINE q == [AllocationReleased(ScalesReleased(r)) EXCEPT !.life = "TERMINATED"]
    <2>1. cl' = [cl EXCEPT ![c] = q]
      BY <1>6 DEF Terminate
    <2>2. RecordInv(c, q, excused)
      <3> HIDE DEF r, excused
      <3>. QED  BY <1>1, ReleaseKeeps
    <2>3. q \in ClusterRecords
      <3> HIDE DEF q
      <3>. QED  BY <2>2 DEF RecordInv
    <2>. QED  BY <2>1, <2>2, <2>3
  <1>7. CASE Fail(c) /\ r.allocation
    <2> DEFINE q == [AllocationReleased(ScalesReleased(r)) EXCEPT !.life = "FAILED"]
    <2>1. cl' = [cl EXCEPT ![c] = q]
      BY <1>7 DEF Fail
    <2>2. RecordInv(c, q, excused)
      <3> HIDE DEF r, excused
      <3>. QED  BY <1>1, ReleaseKeeps
    <2>3. q \in ClusterRecords
      <3> HIDE DEF q
      <3>. QED  BY <2>2 DEF RecordInv
    <2>. QED  BY <2>1, <2>2, <2>3
  <1>8. CASE Fail(c) /\ ~r.allocation
    <2> DEFINE q == [r EXCEPT !.life = "FAILED"]
    <2>1. cl' = [cl EXCEPT ![c] = q]
      BY <1>8 DEF Fail
    <2>2. /\ q \in ClusterRecords /\ q.scales = r.scales /\ q.life = "FAILED"
          /\ q.request = r.request /\ q.allocation = r.allocation
          /\ q.started = r.started /\ q.registered = r.registered
          /\ q.allocated = r.allocated /\ q.reuse = r.reuse
      BY <1>1 DEF ClusterRecords, Lives
    <2>3. ~r.allocation
      BY <1>8
    <2> HIDE DEF q, r, excused
    <2>4. RecordInv(c, q, excused)
      BY <1>1, <1>3, <2>2, <2>3, EndKeeps
    <2>. QED  BY <2>1, <2>2, <2>4 DEF r, excused
  <1>. QED  BY <1>4, <1>5, <1>6, <1>7, <1>8

\* An advance of the engine keeps the records of all clusters.
LEMMA EngineKeeps ==
  ASSUME ClustersInv, forgotten \in BOOLEAN, AdvanceEngine, UNCHANGED forgotten
  PROVE  ClustersInv'
  <1> DEFINE waiting == UNION {{c} \X Asked(cl[c]) : c \in Clusters}
             outcome(answer, c) ==
               [i \in 0 .. Len(cl[c].scales) |-> IF i \in Asked(cl[c]) THEN answer[<<c, i>>] ELSE "keep"]
  <1>1. PICK answer \in [waiting -> {"keep", "admit", "reject"}] :
          cl' = [c \in Clusters |-> Advanced(c, cl[c], outcome(answer, c))]
    BY DEF AdvanceEngine
  <1> HIDE DEF outcome
  <1>2. \A c \in Clusters : RecordInv(c, cl'[c], IF c = Autoscaled THEN forgotten ELSE FALSE)
    <2>1. SUFFICES ASSUME NEW c \in Clusters
                   PROVE  RecordInv(c, cl'[c], IF c = Autoscaled THEN forgotten ELSE FALSE)
      OBVIOUS
    <2> DEFINE excused == IF c = Autoscaled THEN forgotten ELSE FALSE
    <2>2. RecordInv(c, cl[c], excused) /\ excused \in BOOLEAN
      BY DEF ClustersInv
    <2> HIDE DEF excused
    <2>3. RecordInv(c, Advanced(c, cl[c], outcome(answer, c)), excused)
      BY <2>2, AdvanceKeeps
    <2>. QED  BY <1>1, <2>3 DEF excused
  <1>3. cl' \in [Clusters -> ClusterRecords]
    BY <1>1, <1>2 DEF RecordInv
  <1>. QED  BY <1>2, <1>3 DEF ClustersInv

\* So does the autoscaler's request, which also notes what it forgot.
LEMMA ResizeKeeps ==
  ASSUME ClustersInv, forgotten \in BOOLEAN, NEW target \in Nat, target <= MaxWorkers[Autoscaled], Resized(target)
  PROVE  ClustersInv' /\ forgotten' \in BOOLEAN
  <1>1. Autoscaled \in Clusters
    BY ClustersAssumption, PolicyAssumption
  <1>2. PICK q \in WorkerCounts(Autoscaled, cl[Autoscaled], target) :
          /\ cl' = [cl EXCEPT ![Autoscaled] = q]
          /\ forgotten' = (forgotten \/ (q.allocated < cl[Autoscaled].allocated /\ q.reuse > 0))
    BY DEF Resized
  <1>3. RecordInv(Autoscaled, cl[Autoscaled], forgotten)
    BY <1>1 DEF ClustersInv
  <1>4. RecordInv(Autoscaled, q, forgotten')
    BY <1>1, <1>2, <1>3, WorkerCountKeeps
  <1>5. \A c \in Clusters : c # Autoscaled => cl'[c] = cl[c] /\ RecordInv(c, cl[c], FALSE)
    BY <1>2 DEF ClustersInv
  <1>6. cl' \in [Clusters -> ClusterRecords] /\ cl'[Autoscaled] = q
    BY <1>1, <1>2, <1>4 DEF ClustersInv, RecordInv
  <1>. QED  BY <1>2, <1>4, <1>5, <1>6 DEF ClustersInv

\* So does the failure of a worker with its replacement.
LEMMA FailureKeeps ==
  ASSUME ClustersInv, forgotten \in BOOLEAN, WorkerFails
  PROVE  ClustersInv'
  <1>1. Autoscaled \in Clusters
    BY ClustersAssumption, PolicyAssumption
  <1> DEFINE r == WorkerLost(cl[Autoscaled])
  <1>2. PICK q : /\ cl' = [cl EXCEPT ![Autoscaled] = q]
                 /\ (q = r \/ (Ready(Autoscaled) /\ q \in Replaced(Autoscaled, r)))
    BY DEF WorkerFails
  <1>3. RecordInv(Autoscaled, cl[Autoscaled], forgotten) /\ cl[Autoscaled].registered >= 1 /\ UNCHANGED forgotten
    BY <1>1 DEF ClustersInv, WorkerFails
  <1>4. RecordInv(Autoscaled, r, forgotten) /\ r.life = cl[Autoscaled].life
        /\ (r.reuse >= 1 \/ r.allocated + 1 <= MaxWorkers[Autoscaled])
    BY <1>1, <1>3, LossKeeps
  <1> HIDE DEF r
  <1>5. RecordInv(Autoscaled, q, forgotten)
    <2>1. CASE q = r
      BY <2>1, <1>4
    <2>2. CASE Ready(Autoscaled) /\ q \in Replaced(Autoscaled, r)
      <3>1. r.life = "READY"
        BY <1>4, <2>2 DEF Ready
      <3>. QED  BY <1>1, <1>4, <2>2, <3>1, ReplacementKeeps
    <2>. QED  BY <1>2, <2>1, <2>2
  <1>6. \A c \in Clusters : c # Autoscaled => cl'[c] = cl[c] /\ RecordInv(c, cl[c], FALSE)
    BY <1>2 DEF ClustersInv
  <1>7. cl' \in [Clusters -> ClusterRecords] /\ cl'[Autoscaled] = q
    BY <1>1, <1>2, <1>5 DEF ClustersInv, RecordInv
  <1>. QED  BY <1>3, <1>5, <1>6, <1>7 DEF ClustersInv

-----------------------------------------------------------------------------
(* Ray workloads: totals and what is held.                                   *)

\* The workloads and the groups are finitely many, and so are their parts.
LEMMA WorkFacts ==
  /\ IsFiniteSet(AllWorks) /\ IsFiniteSet(AllGroups) /\ NoGroup \notin AllGroups
  /\ \A w \in AllWorks :
       /\ Work[w].cluster \in Clusters /\ Work[w].spill \in Seq(Clusters)
       /\ Work[w].need \in Nat /\ Work[w].duration \in Nat /\ Work[w].retries \in Nat
       /\ Work[w].replicas \in Nat /\ Work[w].replicas > 0
       /\ Work[w].group \in AllGroups \cup {NoGroup}
       /\ Sizes(w) \in Seq(Nat) /\ Len(Sizes(w)) = Work[w].replicas
  /\ \A g \in AllGroups : Group[g].cluster \in Clusters /\ Group[g].bundles \in Seq(Nat)
  <1>1. \A S : \A s \in Seq(S) : IsFiniteSet({s[i] : i \in DOMAIN s})
    <2>1. ASSUME NEW S, NEW s \in Seq(S)
          PROVE  IsFiniteSet({s[i] : i \in DOMAIN s})
      <3> DEFINE T == {s[i] : i \in DOMAIN s}
                 f == [i \in 1 .. Len(s) |-> s[i]]
      <3>1. DOMAIN s = 1 .. Len(s) /\ Len(s) \in Nat /\ IsFiniteSet(1 .. Len(s))
        BY FS_Interval
      <3>2. f \in [1 .. Len(s) -> T] /\ \A t \in T : \E i \in 1 .. Len(s) : f[i] = t
        BY <3>1
      <3>3. f \in Surjection(1 .. Len(s), T)
        BY <3>2 DEF Surjection
      <3>. QED  BY <3>1, <3>3, FS_Surjection
    <2>. QED  BY <2>1
  <1>2. IsFiniteSet(AllWorks) /\ IsFiniteSet(AllGroups)
    BY <1>1, WorksAssumption, GroupsAssumption DEF AllWorks, AllGroups, Range
  <1>3. \A w \in AllWorks : Sizes(w) \in Seq(Nat) /\ Len(Sizes(w)) = Work[w].replicas
    <2>1. ASSUME NEW w \in AllWorks
          PROVE  Sizes(w) \in [1 .. Work[w].replicas -> Nat] /\ Work[w].replicas \in Nat
      BY WorksAssumption DEF AllWorks, Sizes
    <2>. QED  BY <2>1, IsSeq
  <1>. QED  BY <1>2, <1>3, WorksAssumption, GroupsAssumption DEF AllWorks, AllGroups

\* Of two weights that differ at one member, the totals differ by as much.
OneDiffers(f, h, S, x) ==
  Weighs(f, S) /\ x \in S /\ h[x] \in Nat /\ \A y \in S : y # x => h[y] = f[y]
\* A total moves with the one weight that does.
LEMMA TotalMoved ==
  ASSUME NEW f, NEW h, NEW S, NEW x, OneDiffers(f, h, S, x)
  PROVE  /\ Weighs(h, S) /\ Total(f, S) \in Nat /\ Total(h, S) \in Nat
         /\ f[x] \in Nat /\ f[x] <= Total(f, S)
         /\ Total(h, S) + f[x] = Total(f, S) + h[x]
  <1> USE DEF OneDiffers
  <1>1. Weighs(h, S) /\ Weighs(f, S \ {x}) /\ f[x] \in Nat
    BY FS_Subset DEF Weighs
  <1>2. Total(f, S) \in Nat /\ Total(f, S \ {x}) \in Nat /\ Total(f, S) = f[x] + Total(f, S \ {x})
    BY TotalRemove
  <1>3. Total(h, S) \in Nat /\ Total(h, S \ {x}) \in Nat /\ Total(h, S) = h[x] + Total(h, S \ {x})
    BY <1>1, TotalRemove
  <1>4. Total(h, S \ {x}) = Total(f, S \ {x})
    BY <1>1, TotalSame
  <1>. QED  BY <1>1, <1>2, <1>3, <1>4

\* Of two weights that agree but for the members of T, which lose theirs, the totals
\* differ by what T weighed.
SomeLeave(f, h, S, T) ==
  /\ Weighs(f, S) /\ T \in SUBSET S
  /\ \A y \in T : h[y] = 0
  /\ \A y \in S \ T : h[y] = f[y]
\* A total falls by the part whose weights become nothing.
LEMMA TotalParted ==
  ASSUME NEW f, NEW h, NEW S, NEW T, SomeLeave(f, h, S, T)
  PROVE  /\ Weighs(h, S) /\ Total(f, S) \in Nat /\ Total(h, S) \in Nat /\ Total(f, T) \in Nat
         /\ Total(h, S) + Total(f, T) = Total(f, S)
  <1> USE DEF SomeLeave
  <1>1. Weighs(h, S) /\ Weighs(f, T) /\ Weighs(f, S \ T) /\ Weighs(h, S \ T)
    BY FS_Subset DEF Weighs
  <1>2. Total(f, S) \in Nat /\ Total(h, S) \in Nat /\ Total(f, T) \in Nat /\ Total(f, S \ T) \in Nat
    BY <1>1, TotalNat
  <1>3. Total(f, S) = Total(f, T) + Total(f, S \ T)
    <2>1. T \cup (S \ T) = S /\ T \cap (S \ T) = {}
      OBVIOUS
    <2>2. Total(f, T \cup (S \ T)) = Total(f, T) + Total(f, S \ T)
      BY <1>1, <2>1, TotalUnion
    <2>. QED  BY <2>1, <2>2
  <1>4. Total(h, S \ T) = Total(f, S \ T)
    BY <1>1, TotalSame
  <1>5. Total(h, S \ T) = Total(h, S)
    <2>1. S \ T \in SUBSET S /\ \A x \in S \ (S \ T) : h[x] = 0
      OBVIOUS
    <2>. QED  BY <1>1, <2>1, TotalWithout
  <1>. QED  BY <1>1, <1>2, <1>3, <1>4, <1>5

\* What holds nothing weighs nothing.
LEMMA TotalNothing ==
  ASSUME NEW f, NEW S, IsFiniteSet(S), \A x \in S : f[x] = 0
  PROVE  Total(f, S) = 0
  <1>1. Weighs(f, S)
    BY DEF Weighs
  <1>2. {} \in SUBSET S /\ \A x \in S \ {} : f[x] = 0
    OBVIOUS
  <1>3. Total(f, {}) = Total(f, S)
    BY <1>1, <1>2, TotalWithout
  <1>. QED  BY <1>3, TotalEmpty

\* What requests take of a slot is a number, and nothing of a slot they do not lie in.
LEMMA HeldNat ==
  ASSUME NEW sizes \in Seq(Nat), NEW at \in Seq(Places), Len(at) <= Len(sizes), NEW i
  PROVE  /\ Held(sizes, at, i) \in Nat
         /\ Weighs(sizes, {k \in DOMAIN at : at[k] = i})
         /\ (\A k \in DOMAIN at : at[k] # i) => Held(sizes, at, i) = 0
  <1> DEFINE S == {k \in DOMAIN at : at[k] = i}
  <1>1. DOMAIN at = 1 .. Len(at) /\ Len(at) \in Nat /\ DOMAIN sizes = 1 .. Len(sizes)
    OBVIOUS
  <1>2. IsFiniteSet(S)
    <2>1. IsFiniteSet(1 .. Len(at)) /\ S \in SUBSET (1 .. Len(at))
      BY <1>1, FS_Interval
    <2>. QED  BY <2>1, FS_Subset
  <1>3. \A k \in S : sizes[k] \in Nat
    BY <1>1
  <1>4. Weighs(sizes, S)
    BY <1>2, <1>3 DEF Weighs
  <1>5. ASSUME \A k \in DOMAIN at : at[k] # i
        PROVE  Held(sizes, at, i) = 0
    <2>1. S = {}
      BY <1>5
    <2>. QED  BY <2>1, TotalEmpty DEF Held
  <1>. QED  BY <1>4, <1>5, TotalNat DEF Held

\* The parts of the holdings are numbers.
LEMMA PartNat ==
  ASSUME NEW w \in AllWorks, NEW r, WorkInv(w, r), NEW c, NEW g, NEW i
  PROVE  /\ PartOf(w, r, c, i) \in Nat /\ ShareOf(w, r, g, i) \in Nat
         /\ Held(Sizes(w), r.at, i) \in Nat
  <1>1. r.at \in Seq(Places) /\ Len(r.at) <= Len(Sizes(w)) /\ Sizes(w) \in Seq(Nat) /\ Work[w].need \in Nat
    BY WorkFacts DEF WorkInv, WorkRecords
  <1>2. Held(Sizes(w), r.at, i) \in Nat
    BY <1>1, HeldNat
  <1>. QED  BY <1>1, <1>2 DEF PartOf, ShareOf
\* What a group reserves is a number.
LEMMA ReserveNat ==
  ASSUME NEW g \in AllGroups, NEW r, GroupInv(g, r), NEW c, NEW i
  PROVE  ReserveOf(g, r, c, i) \in Nat /\ Held(Group[g].bundles, r.at, i) \in Nat
  <1>1. r.at \in Seq(Places) /\ Len(r.at) <= Len(Group[g].bundles) /\ Group[g].bundles \in Seq(Nat)
    BY WorkFacts DEF GroupInv, GroupRecords
  <1>2. Held(Group[g].bundles, r.at, i) \in Nat
    BY <1>1, HeldNat
  <1>. QED  BY <1>2 DEF ReserveOf

\* The holdings weigh.
LEMMA HoldingsWeigh ==
  ASSUME WorksInv, GroupsInv, NEW c, NEW g, NEW i
  PROVE  /\ Weighs([w \in AllWorks |-> PartOf(w, work[w], c, i)], AllWorks) /\ RunIn(c, i) \in Nat
         /\ Weighs([w \in AllWorks |-> ShareOf(w, work[w], g, i)], AllWorks) /\ SharedOf(g, i) \in Nat
         /\ Weighs([q \in AllGroups |-> ReserveOf(q, group[q], c, i)], AllGroups)
         /\ ReservedIn(c, i) \in Nat
  <1>1. \A w \in AllWorks : PartOf(w, work[w], c, i) \in Nat /\ ShareOf(w, work[w], g, i) \in Nat
    BY PartNat DEF WorksInv
  <1>2. \A q \in AllGroups : ReserveOf(q, group[q], c, i) \in Nat
    BY ReserveNat DEF GroupsInv
  <1>3. /\ Weighs([w \in AllWorks |-> PartOf(w, work[w], c, i)], AllWorks)
        /\ Weighs([w \in AllWorks |-> ShareOf(w, work[w], g, i)], AllWorks)
        /\ Weighs([q \in AllGroups |-> ReserveOf(q, group[q], c, i)], AllGroups)
    BY <1>1, <1>2, WorkFacts DEF Weighs
  <1>. QED  BY <1>3, TotalNat DEF RunIn, SharedOf, ReservedIn

\* When one workload changes, what runs in a slot and what is used of a bundle change by
\* its part.
OneMoves(w, r) == work' = [work EXCEPT ![w] = r]
\* When one workload moves, the sums follow what it took and used.
LEMMA OneWorkMoves ==
  ASSUME WorksInv, GroupsInv, NEW w \in AllWorks, NEW r, WorkInv(w, r), OneMoves(w, r)
  PROVE  /\ WorksInv'
         /\ \A c, i : /\ RunIn(c, i) \in Nat /\ RunIn(c, i)' \in Nat
                      /\ RunIn(c, i)' + PartOf(w, work[w], c, i) = RunIn(c, i) + PartOf(w, r, c, i)
                      /\ PartOf(w, work[w], c, i) <= RunIn(c, i)
         /\ \A g, i : /\ SharedOf(g, i) \in Nat /\ SharedOf(g, i)' \in Nat
                      /\ SharedOf(g, i)' + ShareOf(w, work[w], g, i) = SharedOf(g, i) + ShareOf(w, r, g, i)
                      /\ ShareOf(w, work[w], g, i) <= SharedOf(g, i)
  <1>1. work' \in [AllWorks -> WorkRecords] /\ work'[w] = r /\ \A v \in AllWorks : v # w => work'[v] = work[v]
    BY DEF WorksInv, WorkInv, OneMoves
  <1>2. WorksInv'
    BY <1>1 DEF WorksInv
  <1>3. ASSUME NEW c, NEW i
        PROVE  /\ RunIn(c, i) \in Nat /\ RunIn(c, i)' \in Nat
               /\ RunIn(c, i)' + PartOf(w, work[w], c, i) = RunIn(c, i) + PartOf(w, r, c, i)
               /\ PartOf(w, work[w], c, i) <= RunIn(c, i)
    <2> DEFINE f == [v \in AllWorks |-> PartOf(v, work[v], c, i)]
               h == [v \in AllWorks |-> PartOf(v, work'[v], c, i)]
    <2>1. Weighs(f, AllWorks)
      BY HoldingsWeigh
    <2>2. h[w] = PartOf(w, r, c, i) /\ f[w] = PartOf(w, work[w], c, i)
      BY <1>1
    <2>3. OneDiffers(f, h, AllWorks, w)
      <3>1. h[w] \in Nat /\ \A v \in AllWorks : v # w => h[v] = f[v]
        BY <1>1, PartNat
      <3> HIDE DEF f, h
      <3>. QED  BY <2>1, <3>1 DEF OneDiffers
    <2>4. RunIn(c, i) = Total(f, AllWorks) /\ RunIn(c, i)' = Total(h, AllWorks)
      BY DEF RunIn
    <2> HIDE DEF f, h
    <2>5. /\ Total(f, AllWorks) \in Nat /\ Total(h, AllWorks) \in Nat
          /\ f[w] \in Nat /\ f[w] <= Total(f, AllWorks)
          /\ Total(h, AllWorks) + f[w] = Total(f, AllWorks) + h[w]
      BY <2>3, TotalMoved
    <2>. QED  BY <2>2, <2>4, <2>5
  <1>4. ASSUME NEW g, NEW i
        PROVE  /\ SharedOf(g, i) \in Nat /\ SharedOf(g, i)' \in Nat
               /\ SharedOf(g, i)' + ShareOf(w, work[w], g, i) = SharedOf(g, i) + ShareOf(w, r, g, i)
               /\ ShareOf(w, work[w], g, i) <= SharedOf(g, i)
    <2> DEFINE f == [v \in AllWorks |-> ShareOf(v, work[v], g, i)]
               h == [v \in AllWorks |-> ShareOf(v, work'[v], g, i)]
    <2>1. Weighs(f, AllWorks)
      BY HoldingsWeigh
    <2>2. h[w] = ShareOf(w, r, g, i) /\ f[w] = ShareOf(w, work[w], g, i)
      BY <1>1
    <2>3. OneDiffers(f, h, AllWorks, w)
      <3>1. h[w] \in Nat /\ \A v \in AllWorks : v # w => h[v] = f[v]
        BY <1>1, PartNat
      <3> HIDE DEF f, h
      <3>. QED  BY <2>1, <3>1 DEF OneDiffers
    <2>4. SharedOf(g, i) = Total(f, AllWorks) /\ SharedOf(g, i)' = Total(h, AllWorks)
      BY DEF SharedOf
    <2> HIDE DEF f, h
    <2>5. /\ Total(f, AllWorks) \in Nat /\ Total(h, AllWorks) \in Nat
          /\ f[w] \in Nat /\ f[w] <= Total(f, AllWorks)
          /\ Total(h, AllWorks) + f[w] = Total(f, AllWorks) + h[w]
      BY <2>3, TotalMoved
    <2>. QED  BY <2>2, <2>4, <2>5
  <1>. QED  BY <1>2, <1>3, <1>4

\* A workload that neither ran nor runs moves nothing.
LEMMA WaitingMoves ==
  ASSUME WorksInv, GroupsInv, NEW w \in AllWorks, NEW r, WorkInv(w, r), OneMoves(w, r),
         work[w].state # "RUNNING", r.state # "RUNNING"
  PROVE  /\ WorksInv'
         /\ \A c, i : RunIn(c, i)' = RunIn(c, i)
         /\ \A g, i : SharedOf(g, i)' = SharedOf(g, i)
  <1>1. \A c, g, i : /\ PartOf(w, work[w], c, i) = 0 /\ PartOf(w, r, c, i) = 0
                     /\ ShareOf(w, work[w], g, i) = 0 /\ ShareOf(w, r, g, i) = 0
    BY DEF PartOf, ShareOf
  <1>2. ASSUME NEW c, NEW i
        PROVE  RunIn(c, i)' = RunIn(c, i)
    <2>1. /\ RunIn(c, i) \in Nat /\ RunIn(c, i)' \in Nat
          /\ RunIn(c, i)' + PartOf(w, work[w], c, i) = RunIn(c, i) + PartOf(w, r, c, i)
      BY OneWorkMoves
    <2>. QED  BY <1>1, <2>1
  <1>3. ASSUME NEW g, NEW i
        PROVE  SharedOf(g, i)' = SharedOf(g, i)
    <2>1. /\ SharedOf(g, i) \in Nat /\ SharedOf(g, i)' \in Nat
          /\ SharedOf(g, i)' + ShareOf(w, work[w], g, i) = SharedOf(g, i) + ShareOf(w, r, g, i)
      BY OneWorkMoves
    <2>. QED  BY <1>1, <2>1
  <1>4. WorksInv'
    BY OneWorkMoves
  <1>. QED  BY <1>2, <1>3, <1>4

\* When one group changes, what groups keep of a slot changes by what it keeps.
LEMMA OneGroupMoves ==
  ASSUME WorksInv, GroupsInv, NEW g \in AllGroups, NEW r, GroupInv(g, r), group' = [group EXCEPT ![g] = r]
  PROVE  /\ GroupsInv' /\ group'[g] = r /\ \A q \in AllGroups : q # g => group'[q] = group[q]
         /\ \A c, i : /\ ReservedIn(c, i) \in Nat /\ ReservedIn(c, i)' \in Nat
                      /\ ReservedIn(c, i)' + ReserveOf(g, group[g], c, i)
                           = ReservedIn(c, i) + ReserveOf(g, r, c, i)
                      /\ ReserveOf(g, group[g], c, i) <= ReservedIn(c, i)
  <1>1. group' \in [AllGroups -> GroupRecords] /\ group'[g] = r
        /\ \A q \in AllGroups : q # g => group'[q] = group[q]
    BY DEF GroupsInv, GroupInv
  <1>2. GroupsInv'
    BY <1>1 DEF GroupsInv
  <1>3. ASSUME NEW c, NEW i
        PROVE  /\ ReservedIn(c, i) \in Nat /\ ReservedIn(c, i)' \in Nat
               /\ ReservedIn(c, i)' + ReserveOf(g, group[g], c, i) = ReservedIn(c, i) + ReserveOf(g, r, c, i)
               /\ ReserveOf(g, group[g], c, i) <= ReservedIn(c, i)
    <2> DEFINE f == [q \in AllGroups |-> ReserveOf(q, group[q], c, i)]
               h == [q \in AllGroups |-> ReserveOf(q, group'[q], c, i)]
    <2>1. Weighs(f, AllGroups)
      BY HoldingsWeigh
    <2>2. h[g] = ReserveOf(g, r, c, i) /\ f[g] = ReserveOf(g, group[g], c, i)
      BY <1>1
    <2>3. OneDiffers(f, h, AllGroups, g)
      <3>1. h[g] \in Nat /\ \A q \in AllGroups : q # g => h[q] = f[q]
        BY <1>1, ReserveNat
      <3> HIDE DEF f, h
      <3>. QED  BY <2>1, <3>1 DEF OneDiffers
    <2>4. ReservedIn(c, i) = Total(f, AllGroups) /\ ReservedIn(c, i)' = Total(h, AllGroups)
      BY DEF ReservedIn
    <2> HIDE DEF f, h
    <2>5. /\ Total(f, AllGroups) \in Nat /\ Total(h, AllGroups) \in Nat
          /\ f[g] \in Nat /\ f[g] <= Total(f, AllGroups)
          /\ Total(h, AllGroups) + f[g] = Total(f, AllGroups) + h[g]
      BY <2>3, TotalMoved
    <2>. QED  BY <2>2, <2>4, <2>5
  <1>. QED  BY <1>1, <1>2, <1>3

\* What groups keep is as before if each keeps its places and stays placed, or not.
LEMMA GroupsKeep ==
  ASSUME WorksInv, GroupsInv,
         \A q \in AllGroups : \A c, i : ReserveOf(q, group'[q], c, i) = ReserveOf(q, group[q], c, i)
  PROVE  \A c, i : ReservedIn(c, i)' = ReservedIn(c, i)
  <1>1. ASSUME NEW c, NEW i
        PROVE  ReservedIn(c, i)' = ReservedIn(c, i)
    <2> DEFINE f == [q \in AllGroups |-> ReserveOf(q, group[q], c, i)]
               h == [q \in AllGroups |-> ReserveOf(q, group'[q], c, i)]
    <2>1. f = h
      OBVIOUS
    <2>2. ReservedIn(c, i) = Total(f, AllGroups) /\ ReservedIn(c, i)' = Total(h, AllGroups)
      BY DEF ReservedIn
    <2>. QED  BY <2>1, <2>2
  <1>. QED  BY <1>1
\* When none moves the sums stay.
LEMMA WorksKeep ==
  ASSUME UNCHANGED work
  PROVE  (\A c, i : RunIn(c, i)' = RunIn(c, i)) /\ (\A g, i : SharedOf(g, i)' = SharedOf(g, i))
  BY DEF RunIn, SharedOf

\* Slots made for a cluster that is ready are empty.
LEMMA EnsuredKeeps ==
  ASSUME SlotsInv, ClustersInv, NEW S
  PROVE  /\ Ensured(S) \in [Clusters -> Seq(Nat)]
         /\ \A c \in Clusters : /\ \A i \in DOMAIN Ensured(S)[c] : Ensured(S)[c][i] <= SlotSize(i)
                                /\ \A i \in Places : At(Ensured(S)[c], i) = At(slots[c], i)
                                /\ slots[c] # <<>> => Ensured(S)[c] = slots[c]
  <1>1. \A i : SlotSize(i) \in Nat
    BY PolicyAssumption DEF SlotSize
  <1>2. ASSUME NEW c \in Clusters
        PROVE  /\ Ensured(S)[c] \in Seq(Nat) /\ \A i \in DOMAIN Ensured(S)[c] : Ensured(S)[c][i] <= SlotSize(i)
               /\ \A i \in Places : At(Ensured(S)[c], i) = At(slots[c], i)
               /\ slots[c] # <<>> => Ensured(S)[c] = slots[c]
    <2>1. CASE c \in S /\ slots[c] = <<>>
      <3> DEFINE n == cl[c].registered + 1
                 new == [i \in 1 .. n |-> 0]
      <3>1. n \in Nat
        BY DEF ClustersInv, ClusterRecords
      <3>2. Ensured(S)[c] = new
        BY <2>1 DEF Ensured
      <3> HIDE DEF n
      <3>3. new \in [1 .. n -> Nat]
        OBVIOUS
      <3>4. new \in Seq(Nat) /\ DOMAIN new = 1 .. n
        BY <3>1, <3>3, IsSeq
      <3>5. \A i \in Places : At(new, i) = 0 /\ At(slots[c], i) = 0
        BY <2>1, <3>4 DEF At
      <3>6. \A i \in DOMAIN new : new[i] <= SlotSize(i)
        <4>1. \A i \in DOMAIN new : new[i] = 0
          OBVIOUS
        <4>. QED  BY <1>1, <4>1
      <3> HIDE DEF new
      <3>. QED  BY <2>1, <3>2, <3>4, <3>5, <3>6
    <2>2. CASE ~(c \in S /\ slots[c] = <<>>)
      <3>1. Ensured(S)[c] = slots[c]
        BY <2>2 DEF Ensured
      <3>. QED  BY <3>1 DEF SlotsInv
    <2>. QED  BY <2>1, <2>2
  <1>3. Ensured(S) = [c \in Clusters |-> Ensured(S)[c]]
    BY DEF Ensured
  <1>. QED  BY <1>2, <1>3


\* The greatest of a set of numbers up to n.
LEMMA GreatestNat ==
  ASSUME NEW n \in Nat, NEW S \in SUBSET (1 .. n), S # {}
  PROVE  Max(S) \in S /\ \A s \in S : s <= Max(S)
  <1> DEFINE T == {n - s : s \in S}
  <1>1. T \in SUBSET Nat /\ T # {}
    <2>1. \A s \in S : s \in Nat /\ s <= n
      OBVIOUS
    <2>2. \A s \in S : n - s \in Nat
      BY <2>1
    <2>. QED  BY <2>2
  <1>2. Min(T) \in T /\ \A t \in T : Min(T) <= t
    BY <1>1, LeastNat
  <1>3. PICK m \in S : Min(T) = n - m
    BY <1>2
  <1>4. \A s \in S : s <= m
    <2>1. \A s \in S : n - m <= n - s
      BY <1>2, <1>3
    <2>2. m \in Int /\ \A s \in S : s \in Int
      OBVIOUS
    <2>. QED  BY <2>1, <2>2
  <1>5. \E x \in S : \A y \in S : x >= y
    BY <1>4
  <1>6. Max(S) \in S /\ \A y \in S : Max(S) >= y
    BY <1>5 DEF Max
  <1>. QED  BY <1>6

\* Beyond the last busy slot nothing is held.
LEMMA NoneBeyond ==
  ASSUME NEW s \in Seq(Nat), NEW m \in Nat, NEW busy, busy = {i \in DOMAIN s : i > m /\ s[i] > 0},
         NEW last, last = IF busy = {} THEN m ELSE Max(busy)
  PROVE  last \in Nat /\ \A i \in DOMAIN s : i > last => s[i] = 0
  <1>1. DOMAIN s = 1 .. Len(s) /\ Len(s) \in Nat /\ \A i \in DOMAIN s : s[i] \in Nat /\ i \in Nat
    OBVIOUS
  <1>2. CASE busy = {}
    <2>1. \A i \in DOMAIN s : i > m => ~(s[i] > 0)
      BY <1>2
    <2>. QED  BY <1>1, <1>2, <2>1
  <1>3. CASE busy # {}
    <2>1. busy \in SUBSET (1 .. Len(s))
      BY <1>1
    <2>2. Max(busy) \in busy /\ \A i \in busy : i <= Max(busy)
      BY <1>1, <1>3, <2>1, GreatestNat
    <2> DEFINE k == Max(busy)
    <2>3. k \in Nat /\ k > m
      BY <1>1, <2>1, <2>2
    <2> HIDE DEF k
    <2>4. ASSUME NEW i \in DOMAIN s, i > k
          PROVE  s[i] = 0
      <3>1. i \notin busy
        <4>1. i \in busy => i <= k
          BY <2>2 DEF k
        <4>. QED  BY <1>1, <2>3, <2>4, <4>1
      <3>2. i > m
        BY <1>1, <2>3, <2>4
      <3>3. ~(s[i] > 0)
        BY <3>1, <3>2
      <3>. QED  BY <1>1, <3>3
    <2>. QED  BY <1>3, <2>3, <2>4 DEF k
  <1>. QED  BY <1>2, <1>3

\* The synchronised slots hold what they held.
LEMMA SyncedKeeps ==
  ASSUME SlotsInv, ClustersInv
  PROVE  /\ Autoscaled \in Clusters /\ Synced(Autoscaled) \in Seq(Nat)
         /\ \A i \in DOMAIN Synced(Autoscaled) : Synced(Autoscaled)[i] <= SlotSize(i)
         /\ \A i \in Places : At(Synced(Autoscaled), i) = At(slots[Autoscaled], i)
  <1> DEFINE s == slots[Autoscaled]
             m == cl[Autoscaled].registered + 1
             n == IF Busy(Autoscaled) = {} THEN m ELSE Max(Busy(Autoscaled))
             t == [i \in 1 .. n |-> IF i \in DOMAIN s THEN s[i] ELSE 0]
  <1>1. Autoscaled \in Clusters
    BY ClustersAssumption, PolicyAssumption
  <1>2. s \in Seq(Nat) /\ m \in Nat /\ \A i \in DOMAIN s : s[i] <= SlotSize(i)
    BY <1>1 DEF SlotsInv, ClustersInv, ClusterRecords
  <1>3. Busy(Autoscaled) = {i \in DOMAIN s : i > m /\ s[i] > 0}
    BY DEF Busy
  <1>4. Synced(Autoscaled) = t
    BY DEF Synced
  <1>5. \A i : SlotSize(i) \in Nat
    BY PolicyAssumption DEF SlotSize
  <1> HIDE DEF m, s
  <1>6. n \in Nat /\ \A i \in DOMAIN s : i > n => s[i] = 0
    BY <1>2, <1>3, NoneBeyond
  <1> HIDE DEF n
  <1>7. DOMAIN s = 1 .. Len(s) /\ Len(s) \in Nat /\ \A i \in DOMAIN s : s[i] \in Nat
    BY <1>2
  <1>8. t \in [1 .. n -> Nat]
    BY <1>7
  <1>9. t \in Seq(Nat) /\ DOMAIN t = 1 .. n
    BY <1>6, <1>8, IsSeq
  <1>10. \A i \in DOMAIN t : t[i] <= SlotSize(i)
    <2>1. \A i \in DOMAIN t : i \in DOMAIN s => t[i] = s[i]
      OBVIOUS
    <2>2. \A i \in DOMAIN t : i \notin DOMAIN s => t[i] = 0
      OBVIOUS
    <2> HIDE DEF t
    <2>. QED  BY <1>2, <1>5, <2>1, <2>2
  <1>11. ASSUME NEW i \in Places
         PROVE  At(t, i) = At(s, i)
    <2>1. CASE i \in DOMAIN t
      <3>1. t[i] = At(s, i)
        BY <2>1 DEF At
      <3> HIDE DEF t
      <3>. QED  BY <2>1, <3>1 DEF At
    <2>2. CASE i \notin DOMAIN t
      <3>1. i > n
        BY <1>6, <1>9, <2>2 DEF Places
      <3>2. At(s, i) = 0
        BY <1>6, <3>1 DEF At
      <3> HIDE DEF t
      <3>. QED  BY <2>2, <3>2 DEF At
    <2>. QED  BY <2>1, <2>2
  <1>. QED  BY <1>1, <1>4, <1>9, <1>10, <1>11 DEF s

-----------------------------------------------------------------------------
(* Ray workloads: what a placement takes.                                    *)

\* What one of the weighed takes, and the others.
TakesOne(w, S, x) == 
  Total(w, S) \in Nat /\ Total(w, S \ {x}) \in Nat /\ Total(w, S) = w[x] + Total(w, S \ {x})
\* One member's weight is a part of the total.
LEMMA OneOfTotal == \A w, S, x : Weighs(w, S) /\ x \in S => TakesOne(w, S, x)
  BY TotalRemove DEF TakesOne

\* A placement in turn leaves every slot within its size, and no two requests of a strict
\* spread in one.
LEMMA PlacementFits ==
  ASSUME SlotsInv, NEW c \in Clusters, NEW sizes \in Seq(Nat), NEW strategy,
         NEW at \in Placements(c, sizes, strategy)
  PROVE  /\ at \in Seq(Places) /\ Len(at) = Len(sizes) /\ \A k \in DOMAIN at : at[k] \in DOMAIN slots[c]
         /\ \A i \in DOMAIN slots[c] : slots[c][i] + Held(sizes, at, i) <= SlotSize(i)
         /\ strategy = "STRICT_SPREAD" => IsInjective(at)
  <1> DEFINE n == Len(sizes)
  <1>1. /\ n \in Nat /\ DOMAIN sizes = 1 .. n /\ \A k \in 1 .. n : sizes[k] \in Nat
        /\ slots[c] \in Seq(Nat) /\ DOMAIN slots[c] \subseteq Places
        /\ \A i \in DOMAIN slots[c] : slots[c][i] \in Nat /\ slots[c][i] <= SlotSize(i)
    BY DEF SlotsInv, Places
  <1>2. at \in [1 .. n -> DOMAIN slots[c]]
    BY <1>1 DEF Placements
  <1>3. \A k \in 1 .. n : at[k] \in Options(c, sizes, strategy, at, k)
    <2>1. ASSUME NEW k \in 1 .. n
          PROVE  at[k] \in Options(c, sizes, strategy, at, k)
      <3> DEFINE options == Options(c, sizes, strategy, at, k)
      <3>1. options # {} /\ at[k] = Min(options)
        BY <1>1 DEF Placements
      <3>2. options \in SUBSET Nat
        BY <1>1 DEF Options, Room, Places
      <3> HIDE DEF options
      <3>3. Min(options) \in options
        BY <3>1, <3>2, LeastNat
      <3>. QED  BY <3>1, <3>3 DEF options
    <2>. QED  BY <2>1
  <1> HIDE DEF n
  <1>4. at \in [1 .. n -> Places]
    BY <1>1, <1>2
  <1>5. at \in Seq(Places) /\ Len(at) = n /\ DOMAIN at = 1 .. n
    BY <1>1, <1>4, IsSeq
  <1>6. ASSUME NEW i \in DOMAIN slots[c]
        PROVE  slots[c][i] + Held(sizes, at, i) <= SlotSize(i)
    <2> DEFINE T == {k \in 1 .. n : at[k] = i}
               at_i == {k \in DOMAIN at : at[k] = i}
    <2>0. T = at_i
      BY <1>5
    <2>1. Weighs(sizes, T)
      <3>1. Len(at) <= Len(sizes)
        BY <1>1, <1>5 DEF n
      <3>2. Weighs(sizes, at_i)
        BY <1>5, <3>1, HeldNat
      <3>. QED  BY <2>0, <3>2
    <2>2. CASE T = {}
      <3>1. Held(sizes, at, i) = 0
        BY <2>0, <2>2, TotalEmpty DEF Held
      <3>. QED  BY <1>1, <3>1
    <2>3. CASE T # {}
      <3>1. T \in SUBSET (1 .. n)
        OBVIOUS
      <3> HIDE DEF T
      <3>2. PICK k \in T : \A j \in T : j <= k
        BY <1>1, <2>3, <3>1, GreatestNat
      <3>3. k \in 1 .. n /\ at[k] = i
        BY <3>2 DEF T
      <3>4. {m \in 1 .. k - 1 : at[m] = i} = T \ {k}
        <4>1. \A j \in T : j # k => j \in 1 .. k - 1
          BY <1>1, <3>1, <3>2
        <4>2. \A m \in 1 .. k - 1 : m \in 1 .. n /\ m # k
          BY <1>1, <3>3
        <4>. QED  BY <4>1, <4>2 DEF T
      <3>5. i \in Room(c, sizes, at, k)
        BY <1>3, <3>3 DEF Options
      <3>6. slots[c][i] + Total(sizes, T \ {k}) + sizes[k] <= SlotSize(i)
        <4>1. slots[c][i] + Total(sizes, {m \in 1 .. k - 1 : at[m] = i}) + sizes[k] <= SlotSize(i)
          BY <3>5 DEF Room
        <4>. QED  BY <3>4, <4>1
      <3> HIDE DEF at_i
      <3>7. /\ Total(sizes, T) \in Nat /\ Total(sizes, T \ {k}) \in Nat
            /\ Total(sizes, T) = sizes[k] + Total(sizes, T \ {k})
        <4>1. k \in T
          BY <3>2
        <4>2. TakesOne(sizes, T, k)
          BY <2>1, <4>1, OneOfTotal
        <4>. QED  BY <4>2 DEF TakesOne
      <3>8. Held(sizes, at, i) = Total(sizes, T)
        BY <2>0 DEF Held, at_i
      <3>9. sizes[k] \in Nat /\ slots[c][i] \in Nat /\ SlotSize(i) \in Nat
        BY <1>1, <3>3, PolicyAssumption DEF SlotSize
      <3>. QED  BY <3>6, <3>7, <3>8, <3>9
    <2>. QED  BY <2>2, <2>3
  <1>7. ASSUME strategy = "STRICT_SPREAD"
        PROVE  IsInjective(at)
    <2>1. \A k \in 1 .. n : \A m \in 1 .. k - 1 : at[m] # at[k]
      BY <1>3, <1>7 DEF Options
    <2>2. ASSUME NEW a \in 1 .. n, NEW b \in 1 .. n, at[a] = at[b], a # b
          PROVE  FALSE
      <3>1. a \in 1 .. b - 1 \/ b \in 1 .. a - 1
        BY <1>1, <2>2
      <3>. QED  BY <2>1, <2>2, <3>1
    <2>. QED  BY <1>5, <2>2 DEF IsInjective
  <1>. QED  BY <1>2, <1>5, <1>6, <1>7 DEF n

\* A strict pack puts every bundle into one slot that has room for all.
LEMMA PackingFits ==
  ASSUME SlotsInv, NEW g \in AllGroups, NEW c \in Clusters, NEW at \in PackedPlacements(g, c)
  PROVE  /\ at \in Seq(Places) /\ Len(at) = Len(Group[g].bundles)
         /\ \A k \in DOMAIN at : at[k] \in DOMAIN slots[c]
         /\ \A i \in DOMAIN slots[c] : slots[c][i] + Held(Group[g].bundles, at, i) <= SlotSize(i)
  <1> DEFINE sizes == Group[g].bundles
             n == Len(sizes)
             room == {i \in DOMAIN slots[c] : slots[c][i] + SumOf(sizes) <= SlotSize(i)}
  <1>1. /\ n \in Nat /\ sizes \in Seq(Nat) /\ DOMAIN sizes = 1 .. n
        /\ slots[c] \in Seq(Nat) /\ DOMAIN slots[c] \subseteq Places
        /\ \A i \in DOMAIN slots[c] : slots[c][i] \in Nat /\ slots[c][i] <= SlotSize(i)
    BY WorkFacts DEF SlotsInv, Places
  <1>2. PICK j \in room : at = [b \in DOMAIN sizes |-> j]
    BY DEF PackedPlacements
  <1>3. /\ at \in [1 .. n -> Places] /\ \A k \in 1 .. n : at[k] = j
        /\ j \in DOMAIN slots[c] /\ slots[c][j] + SumOf(sizes) <= SlotSize(j)
    BY <1>1, <1>2
  <1> HIDE DEF n, sizes
  <1>4. at \in Seq(Places) /\ Len(at) = n /\ DOMAIN at = 1 .. n
    BY <1>1, <1>3, IsSeq
  <1>5. ASSUME NEW i \in DOMAIN slots[c]
        PROVE  slots[c][i] + Held(sizes, at, i) <= SlotSize(i)
    <2>1. CASE i = j
      <3>1. {k \in DOMAIN at : at[k] = i} = DOMAIN sizes
        BY <1>1, <1>3, <1>4, <2>1
      <3>2. Held(sizes, at, i) = SumOf(sizes)
        BY <3>1 DEF Held, SumOf
      <3>. QED  BY <1>3, <2>1, <3>2
    <2>2. CASE i # j
      <3>1. \A k \in DOMAIN at : at[k] # i
        BY <1>3, <1>4, <2>2
      <3>2. Len(at) <= Len(sizes)
        BY <1>1, <1>4 DEF n
      <3>3. Held(sizes, at, i) = 0
        BY <1>1, <1>4, <3>1, <3>2, HeldNat
      <3>. QED  BY <1>1, <3>3
    <2>. QED  BY <2>1, <2>2
  <1>. QED  BY <1>3, <1>4, <1>5 DEF n, sizes

-----------------------------------------------------------------------------
(* Ray workloads: what each step keeps.                                      *)

\* What only moves clusters, timers or the stage leaves the books alone.
LEMMA BooksStay ==
  ASSUME RayInv, UNCHANGED <<work, slots, group>>, ClustersInv', LoopInv'
  PROVE  RayInv'
  <1>1. WorksInv' /\ GroupsInv' /\ SlotsInv'
    BY DEF RayInv, WorksInv, GroupsInv, SlotsInv
  <1>2. \A g, i : SharedOf(g, i)' = SharedOf(g, i)
    BY WorksKeep
  <1>3. SharesInv'
    BY <1>2 DEF RayInv, SharesInv, InItsGroup
  <1>4. BooksInv'
    <2>1. \A c, i : RunIn(c, i)' = RunIn(c, i) /\ ReservedIn(c, i)' = ReservedIn(c, i)
      BY DEF RunIn, ReservedIn
    <2>. QED  BY <2>1 DEF RayInv, BooksInv
  <1>. QED  BY <1>1, <1>3, <1>4 DEF RayInv
\* The records stand when no action touches them.
LEMMA ClustersSame ==
  ASSUME ClustersInv, UNCHANGED <<cl, forgotten>>
  PROVE  ClustersInv'
  BY DEF ClustersInv

\* Requests to a cluster keep the invariant.
LEMMA RequestStays == RayInv /\ ClusterRequest => RayInv'
  <1> SUFFICES ASSUME RayInv, ClusterRequest
               PROVE  RayInv'
    OBVIOUS
  <1>1. UNCHANGED <<work, slots, group, pendingFor, idleFor, stage, forgotten>>
    BY DEF ClusterRequest, execVars
  <1>2. ClustersInv /\ forgotten \in BOOLEAN
    BY DEF RayInv, LoopInv
  <1>3. PICK c \in Clusters : SubmitCluster(c) \/ BeginDrain(c) \/ Terminate(c) \/ Fail(c)
    BY DEF ClusterRequest
  <1>4. ClustersInv'
    BY <1>1, <1>2, <1>3, AskedKeeps
  <1>5. LoopInv'
    BY <1>1 DEF RayInv, LoopInv
  <1>. QED  BY <1>1, <1>4, <1>5, BooksStay
\* The engine's advance keeps the invariant.
LEMMA AdvanceStays == RayInv /\ Advance => RayInv'
  <1> SUFFICES ASSUME RayInv, Advance
               PROVE  RayInv'
    OBVIOUS
  <1>1. UNCHANGED <<work, slots, group, pendingFor, idleFor, forgotten>> /\ stage' \in Stages
    BY DEF Advance, Stages
  <1>2. ClustersInv /\ forgotten \in BOOLEAN /\ AdvanceEngine
    BY DEF RayInv, LoopInv, Advance
  <1>3. ClustersInv'
    BY <1>1, <1>2, EngineKeeps
  <1>4. LoopInv'
    BY <1>1 DEF RayInv, LoopInv
  <1>. QED  BY <1>1, <1>3, <1>4, BooksStay
\* The end of the placing pass keeps the invariant.
LEMMA EndPlacingStays == RayInv /\ EndPlacing => RayInv'
  <1> SUFFICES ASSUME RayInv, EndPlacing
               PROVE  RayInv'
    OBVIOUS
  <1>1. UNCHANGED <<work, slots, group, pendingFor, idleFor, forgotten, cl>> /\ stage' \in Stages
    BY DEF EndPlacing, Stages
  <1>2. ClustersInv' /\ LoopInv'
    BY <1>1, ClustersSame DEF RayInv, LoopInv
  <1>. QED  BY <1>1, <1>2, BooksStay

\* The desired number of workers is a number of workers the cluster may have.
LEMMA DesiredFits ==
  ASSUME RayInv
  PROVE  Desired \in Nat /\ Desired <= MaxWorkers[Autoscaled]
  <1>1. /\ Autoscaled \in Clusters /\ MaxWorkers[Autoscaled] \in Nat
        /\ WorkerSize \in Nat /\ WorkerSize > 0
    BY ClustersAssumption, PolicyAssumption
  <1>2. cl[Autoscaled].registered \in Nat
    BY <1>1 DEF RayInv, ClustersInv, ClusterRecords
  <1>3. Demand \in Nat
    <2>1. \A s \in Seq(Nat) : SumOf(s) \in Nat
      <3>1. ASSUME NEW s \in Seq(Nat)
            PROVE  SumOf(s) \in Nat
        <4>1. DOMAIN s = 1 .. Len(s) /\ Len(s) \in Nat /\ \A i \in DOMAIN s : s[i] \in Nat
          OBVIOUS
        <4>2. Weighs(s, DOMAIN s)
          BY <4>1, FS_Interval DEF Weighs
        <4>. QED  BY <4>2, TotalNat DEF SumOf
      <3>. QED  BY <3>1
    <2> DEFINE W == {w \in AllWorks : /\ Work[w].cluster = Autoscaled /\ Pending(w) /\ DependenciesReady(w)
                                      /\ \/ Work[w].group = NoGroup
                                         \/ group[Work[w].group].state \notin {"QUEUED", "PLACED"}}
               G == {g \in AllGroups : Group[g].cluster = Autoscaled /\ group[g].state = "QUEUED"}
               f == [w \in AllWorks |-> SumOf(Sizes(w))]
               h == [g \in AllGroups |-> SumOf(Group[g].bundles)]
    <2>2. W \in SUBSET AllWorks /\ G \in SUBSET AllGroups
      OBVIOUS
    <2>3. Demand = Total(f, W) + Total(h, G)
      BY DEF Demand
    <2> HIDE DEF W, G
    <2>4. IsFiniteSet(W) /\ IsFiniteSet(G)
      BY <2>2, WorkFacts, FS_Subset
    <2>5. (\A w \in W : f[w] \in Nat) /\ (\A g \in G : h[g] \in Nat)
      BY <2>1, <2>2, WorkFacts
    <2>6. Weighs(f, W) /\ Weighs(h, G)
      BY <2>4, <2>5 DEF Weighs
    <2> HIDE DEF f, h
    <2>7. Total(f, W) \in Nat /\ Total(h, G) \in Nat
      BY <2>6, TotalNat
    <2>. QED  BY <2>3, <2>7
  <1> DEFINE more == cl[Autoscaled].registered + 1
             need == (Demand + WorkerSize - 1) \div WorkerSize
  <1>4. more \in Nat /\ need \in Nat
    <2>1. Demand + WorkerSize - 1 \in Nat
      BY <1>1, <1>3
    <2>. QED  BY <1>1, <1>2, <2>1
  <1> HIDE DEF more, need
  <1>5. Max({more, need}) \in Nat
    <2>1. \E x \in {more, need} : \A y \in {more, need} : x >= y
      BY <1>4
    <2>2. Max({more, need}) \in {more, need}
      BY <2>1 DEF Max
    <2>. QED  BY <1>4, <2>2
  <1>6. Desired = Min({MaxWorkers[Autoscaled], Max({more, need})})
    BY DEF Desired, more, need
  <1> DEFINE two == {MaxWorkers[Autoscaled], Max({more, need})}
  <1>7. two \in SUBSET Nat /\ two # {}
    BY <1>1, <1>5
  <1>8. Min(two) \in two /\ \A s \in two : Min(two) <= s
    BY <1>7, LeastNat
  <1>. QED  BY <1>6, <1>7, <1>8

\* A pass of the autoscaler keeps the invariant.
LEMMA ReconcileStays == RayInv /\ Reconcile => RayInv'
  <1> SUFFICES ASSUME RayInv, Reconcile
               PROVE  RayInv'
    OBVIOUS
  <1>0. /\ ClustersInv /\ forgotten \in BOOLEAN /\ ScaleUpDelay \in Nat /\ IdleDelay \in Nat
        /\ pendingFor \in Never .. ScaleUpDelay /\ idleFor \in Never .. IdleDelay
    BY PolicyAssumption DEF RayInv, LoopInv
  <1>1. \A n, d \in Nat : \A t \in Never .. d : Longer(t, d) \in Never .. d
    BY DEF Longer, Never
  <1>2. UNCHANGED <<work, slots, group>> /\ stage' \in Stages
    BY DEF Reconcile, ReconcileRaises, ReconcileDemand, ReconcileIdle, Stages
  <1>3. pendingFor' \in Never .. ScaleUpDelay /\ idleFor' \in Never .. IdleDelay
    <2>1. Never \in Never .. ScaleUpDelay /\ Never \in Never .. IdleDelay
      BY <1>0 DEF Never
    <2>2. /\ Longer(pendingFor, ScaleUpDelay) \in Never .. ScaleUpDelay
          /\ Longer(idleFor, IdleDelay) \in Never .. IdleDelay
      BY <1>0, <1>1
    <2>. QED  BY <1>0, <2>1, <2>2 DEF Reconcile, ReconcileRaises, ReconcileDemand, ReconcileIdle
  <1>4. ClustersInv' /\ forgotten' \in BOOLEAN
    <2>1. \/ UNCHANGED <<cl, forgotten>>
          \/ Resized(Desired)
          \/ Resized(MinWorkers[Autoscaled])
      BY DEF Reconcile, ReconcileRaises, ReconcileDemand, ReconcileIdle
    <2>2. CASE UNCHANGED <<cl, forgotten>>
      BY <1>0, <2>2, ClustersSame
    <2>3. CASE Resized(Desired)
      BY <1>0, <2>3, DesiredFits, ResizeKeeps
    <2>4. CASE Resized(MinWorkers[Autoscaled])
      <3>1. MinWorkers[Autoscaled] \in Nat /\ MinWorkers[Autoscaled] <= MaxWorkers[Autoscaled]
        BY ClustersAssumption, PolicyAssumption
      <3>. QED  BY <1>0, <2>4, <3>1, ResizeKeeps
    <2>. QED  BY <2>1, <2>2, <2>3, <2>4
  <1>5. LoopInv'
    BY <1>2, <1>3, <1>4 DEF LoopInv
  <1>. QED  BY <1>2, <1>4, <1>5, BooksStay

\* Books that agree, slot by slot, with what moved.
LEMMA BooksFollow ==
  ASSUME BooksInv, \A c \in Clusters : \A i \in Places : At(slots'[c], i) = At(slots[c], i),
         \A c, i : RunIn(c, i)' = RunIn(c, i), \A c, i : ReservedIn(c, i)' = ReservedIn(c, i)
  PROVE  BooksInv'
  BY DEF BooksInv
\* The autoscaler's own state stands when no action touches it.
LEMMA LoopSame ==
  ASSUME LoopInv, UNCHANGED <<pendingFor, idleFor, stage, forgotten>>
  PROVE  LoopInv'
  BY DEF LoopInv
\* New slots come empty: what is held of every slot stays.
LEMMA EnsuredSlots ==
  ASSUME SlotsInv, ClustersInv, NEW S, slots' = Ensured(S)
  PROVE  SlotsInv' /\ \A c \in Clusters : \A i \in Places : At(slots'[c], i) = At(slots[c], i)
  BY EnsuredKeeps DEF SlotsInv

\* A submitted group holds nothing yet.
LEMMA SubmitGroupStays ==
  ASSUME RayInv, NEW g \in AllGroups, SubmitGroup(g)
  PROVE  RayInv'
  <1> DEFINE n == Len(Group[g].bundles)
             zero == [i \in DOMAIN Group[g].bundles |-> 0]
             r == [state |-> "QUEUED", at |-> <<>>, used |-> zero]
  <1>1. WorksInv /\ GroupsInv /\ SharesInv /\ SlotsInv /\ BooksInv /\ LoopInv /\ ClustersInv
    BY DEF RayInv
  <1>2. /\ group' = [group EXCEPT ![g] = r] /\ group[g].state = "NEW"
        /\ slots' = Ensured({Group[g].cluster})
        /\ UNCHANGED <<cl, work, pendingFor, idleFor, stage, forgotten>>
    BY DEF SubmitGroup
  <1>3. n \in Nat /\ DOMAIN Group[g].bundles = 1 .. n /\ \A i \in 1 .. n : Group[g].bundles[i] \in Nat
    BY WorkFacts
  <1>4. zero \in Seq(Nat) /\ Len(zero) = n /\ DOMAIN zero = 1 .. n /\ \A i \in 1 .. n : zero[i] = 0
    <2>1. zero \in [1 .. n -> Nat] /\ \A i \in 1 .. n : zero[i] = 0
      BY <1>3
    <2>. QED  BY <1>3, <2>1, IsSeq
  <1> HIDE DEF zero, n
  <1>5. GroupInv(g, r)
    <2>1. r \in GroupRecords
      BY <1>4 DEF GroupRecords
    <2>2. Len(<<>>) = 0 /\ 0 <= n
      BY <1>3
    <2>. QED  BY <1>3, <1>4, <2>1, <2>2 DEF GroupInv, n
  <1> HIDE DEF r
  <1>6. /\ GroupsInv' /\ group'[g] = r /\ \A q \in AllGroups : q # g => group'[q] = group[q]
        /\ r.state = "QUEUED" /\ r.used = zero
    BY <1>1, <1>2, <1>5, OneGroupMoves DEF r
  <1>7. \A c, i : ReservedIn(c, i)' = ReservedIn(c, i)
    <2>1. \A q \in AllGroups : \A c, i : ReserveOf(q, group'[q], c, i) = ReserveOf(q, group[q], c, i)
      BY <1>2, <1>6 DEF ReserveOf
    <2>. QED  BY <1>1, <2>1, GroupsKeep
  <1>8. \A w \in AllWorks : work[w].via = "group" => Work[w].group # g
    BY <1>1, <1>2 DEF SharesInv, InItsGroup
  <1>9. SharesInv'
    <2>1. (\A c, i : RunIn(c, i)' = RunIn(c, i)) /\ \A q, i : SharedOf(q, i)' = SharedOf(q, i)
      BY <1>2, WorksKeep
    <2>2. \A i : SharedOf(g, i) = 0
      <3>1. ASSUME NEW i
            PROVE  SharedOf(g, i) = 0
        <4> DEFINE f == [w \in AllWorks |-> ShareOf(w, work[w], g, i)]
        <4>1. \A w \in AllWorks : f[w] = 0
          BY <1>8 DEF ShareOf
        <4> HIDE DEF f
        <4>2. Total(f, AllWorks) = 0
          BY <4>1, WorkFacts, TotalNothing
        <4>. QED  BY <4>2 DEF SharedOf, f
      <3>. QED  BY <3>1
    <2>3. \A w \in AllWorks : InItsGroup(w, work[w])'
      <3>1. \A w \in AllWorks : InItsGroup(w, work[w])
        BY <1>1 DEF SharesInv
      <3>. QED  BY <1>2, <1>6, <1>8, <3>1 DEF InItsGroup
    <2>4. \A q \in AllGroups : \A i \in DOMAIN group'[q].used : group'[q].used[i] = SharedOf(q, i)'
      BY <1>1, <1>4, <1>6, <2>1, <2>2 DEF SharesInv
    <2>. QED  BY <2>3, <2>4 DEF SharesInv
  <1>10. SlotsInv' /\ BooksInv'
    <2>1. SlotsInv' /\ \A c \in Clusters : \A i \in Places : At(slots'[c], i) = At(slots[c], i)
      BY <1>1, <1>2, EnsuredSlots
    <2>2. \A c, i : RunIn(c, i)' = RunIn(c, i)
      BY <1>2, WorksKeep
    <2>. QED  BY <1>1, <1>7, <2>1, <2>2, BooksFollow
  <1>11. WorksInv' /\ LoopInv' /\ ClustersInv'
    BY <1>1, <1>2, LoopSame, ClustersSame DEF WorksInv
  <1>. QED  BY <1>6, <1>9, <1>10, <1>11 DEF RayInv

\* A workload that waits, before and after, moves nothing.
LEMMA WaitsStill ==
  ASSUME RayInv, NEW w \in AllWorks, NEW state \in {"QUEUED", "BLOCKED"},
         work[w].state \in {"NEW", "QUEUED", "BLOCKED"}, work' = [work EXCEPT ![w].state = state],
         UNCHANGED group
  PROVE  /\ WorksInv' /\ GroupsInv' /\ SharesInv'
         /\ \A c, i : RunIn(c, i)' = RunIn(c, i)
         /\ \A c, i : ReservedIn(c, i)' = ReservedIn(c, i)
  <1> DEFINE r == [work[w] EXCEPT !.state = state]
  <1>1. WorksInv /\ GroupsInv /\ SharesInv
    BY DEF RayInv
  <1>2. WorkInv(w, work[w]) /\ work[w] \in WorkRecords
    BY <1>1 DEF WorksInv, WorkInv
  <1>3. /\ r \in WorkRecords /\ r.state = state /\ r.via = work[w].via /\ r.attempt = work[w].attempt
        /\ r.at = work[w].at /\ r.on = work[w].on
    BY <1>2 DEF WorkRecords
  <1>4. OneMoves(w, r)
    BY <1>1 DEF OneMoves, WorksInv
  <1> HIDE DEF r
  <1>5. WorkInv(w, r) /\ r.via = "none" /\ r.state # "RUNNING" /\ work[w].state # "RUNNING"
    BY <1>2, <1>3 DEF WorkInv
  <1>6. /\ WorksInv'
        /\ \A c, i : RunIn(c, i)' = RunIn(c, i)
        /\ \A g, i : SharedOf(g, i)' = SharedOf(g, i)
    BY <1>1, <1>4, <1>5, WaitingMoves
  <1>7. \A v \in AllWorks : InItsGroup(v, work[v])'
    <2>1. \A v \in AllWorks : v # w => work'[v] = work[v]
      BY <1>1, <1>4 DEF OneMoves, WorksInv
    <2>2. work'[w] = r
      BY <1>1, <1>4 DEF OneMoves, WorksInv
    <2>3. \A v \in AllWorks : InItsGroup(v, work[v])
      BY <1>1 DEF SharesInv
    <2>. QED  BY <1>5, <2>1, <2>2, <2>3 DEF InItsGroup
  <1>8. SharesInv'
    BY <1>1, <1>6, <1>7 DEF SharesInv
  <1>9. GroupsInv' /\ \A c, i : ReservedIn(c, i)' = ReservedIn(c, i)
    BY <1>1, GroupsKeep DEF GroupsInv
  <1>. QED  BY <1>6, <1>8, <1>9

\* A submitted workload holds nothing yet.
LEMMA SubmitWorkStays ==
  ASSUME RayInv, NEW w \in AllWorks, SubmitWork(w)
  PROVE  RayInv'
  <1> DEFINE state == IF DependenciesReady(w) /\ GroupPlaced(w) THEN "QUEUED" ELSE "BLOCKED"
  <1>1. PICK S : slots' = Ensured(S)
    BY DEF SubmitWork
  <1>2. /\ work' = [work EXCEPT ![w].state = state] /\ work[w].state = "NEW"
        /\ UNCHANGED <<cl, group, pendingFor, idleFor, stage, forgotten>>
    BY DEF SubmitWork
  <1>3. state \in {"QUEUED", "BLOCKED"}
    OBVIOUS
  <1> HIDE DEF state
  <1>4. /\ WorksInv' /\ GroupsInv' /\ SharesInv'
        /\ \A c, i : RunIn(c, i)' = RunIn(c, i)
        /\ \A c, i : ReservedIn(c, i)' = ReservedIn(c, i)
    BY <1>2, <1>3, WaitsStill
  <1>5. SlotsInv' /\ \A c \in Clusters : \A i \in Places : At(slots'[c], i) = At(slots[c], i)
    BY <1>1, EnsuredSlots DEF RayInv
  <1>6. BooksInv'
    BY <1>4, <1>5, BooksFollow DEF RayInv
  <1>7. LoopInv' /\ ClustersInv'
    BY <1>2, LoopSame, ClustersSame DEF RayInv
  <1>. QED  BY <1>4, <1>5, <1>6, <1>7 DEF RayInv

\* A workload that finds no place keeps the invariant.
LEMMA WaitingStays ==
  ASSUME RayInv, NEW w \in AllWorks, KeepWaiting(w)
  PROVE  RayInv'
  <1>1. UNCHANGED <<slots, group, cl, pendingFor, idleFor, stage, forgotten>>
    BY DEF KeepWaiting, Looked
  <1>2. LoopInv' /\ ClustersInv'
    BY <1>1, LoopSame, ClustersSame DEF RayInv
  <1>3. CASE UNCHANGED work
    BY <1>1, <1>2, <1>3, BooksStay
  <1>4. CASE /\ work[w].state \in {"QUEUED", "BLOCKED"}
             /\ \E state \in {"QUEUED", "BLOCKED"} : work' = [work EXCEPT ![w].state = state]
    <2>1. /\ WorksInv' /\ GroupsInv' /\ SharesInv'
          /\ \A c, i : RunIn(c, i)' = RunIn(c, i)
          /\ \A c, i : ReservedIn(c, i)' = ReservedIn(c, i)
      BY <1>1, <1>4, WaitsStill
    <2>2. SlotsInv' /\ \A c \in Clusters : \A i \in Places : At(slots'[c], i) = At(slots[c], i)
      BY <1>1 DEF RayInv, SlotsInv
    <2>3. BooksInv'
      BY <2>1, <2>2, BooksFollow DEF RayInv
    <2>. QED  BY <1>2, <2>1, <2>2, <2>3 DEF RayInv
  <1>. QED  BY <1>3, <1>4 DEF KeepWaiting, Pending

\* Synchronising the slots with the workers loses nothing that is held.
LEMMA SyncStays == RayInv /\ Sync => RayInv'
  <1> SUFFICES ASSUME RayInv, Sync
               PROVE  RayInv'
    OBVIOUS
  <1>1. /\ slots' = [Ensured({Autoscaled}) EXCEPT ![Autoscaled] = Synced(Autoscaled)]
        /\ UNCHANGED <<cl, work, group, pendingFor, idleFor, forgotten>> /\ stage' \in Stages
    BY DEF Sync, Stages
  <1>2. WorksInv /\ GroupsInv /\ SharesInv /\ SlotsInv /\ BooksInv /\ LoopInv /\ ClustersInv
    BY DEF RayInv
  <1> DEFINE t == Synced(Autoscaled)
             E == Ensured({Autoscaled})
  <1>3. /\ Autoscaled \in Clusters /\ t \in Seq(Nat)
        /\ \A i \in DOMAIN t : t[i] <= SlotSize(i)
        /\ \A i \in Places : At(t, i) = At(slots[Autoscaled], i)
    BY <1>2, SyncedKeeps
  <1>4. /\ E \in [Clusters -> Seq(Nat)]
        /\ \A c \in Clusters : /\ \A i \in DOMAIN E[c] : E[c][i] <= SlotSize(i)
                               /\ \A i \in Places : At(E[c], i) = At(slots[c], i)
    BY <1>2, EnsuredKeeps
  <1>5. slots' = [E EXCEPT ![Autoscaled] = t]
    BY <1>1
  <1> HIDE DEF t, E
  <1>6. /\ slots' \in [Clusters -> Seq(Nat)] /\ slots'[Autoscaled] = t
        /\ \A c \in Clusters : c # Autoscaled => slots'[c] = E[c]
    BY <1>3, <1>4, <1>5
  <1>7. SlotsInv' /\ \A c \in Clusters : \A i \in Places : At(slots'[c], i) = At(slots[c], i)
    BY <1>3, <1>4, <1>6 DEF SlotsInv
  <1>8. (\A c, i : RunIn(c, i)' = RunIn(c, i)) /\ (\A g, i : SharedOf(g, i)' = SharedOf(g, i))
    BY <1>1, WorksKeep
  <1>9. \A c, i : ReservedIn(c, i)' = ReservedIn(c, i)
    BY <1>1, <1>2, GroupsKeep
  <1>10. BooksInv'
    BY <1>2, <1>7, <1>8, <1>9, BooksFollow
  <1>11. WorksInv' /\ GroupsInv' /\ SharesInv'
    BY <1>1, <1>2, <1>8 DEF WorksInv, GroupsInv, SharesInv, InItsGroup
  <1>12. LoopInv' /\ ClustersInv'
    BY <1>1, <1>2, ClustersSame DEF LoopInv
  <1>. QED  BY <1>7, <1>10, <1>11, <1>12 DEF RayInv

\* A sequence of numbers, each less what d says of it.
LEMMA SeqGives ==
  ASSUME NEW s \in Seq(Nat), NEW d, \A i \in DOMAIN s : d[i] \in Nat /\ d[i] <= s[i],
         NEW t, t = [i \in DOMAIN s |-> s[i] - d[i]]
  PROVE  /\ t \in Seq(Nat) /\ Len(t) = Len(s) /\ DOMAIN t = DOMAIN s
         /\ \A i \in DOMAIN s : t[i] = s[i] - d[i] /\ t[i] <= s[i]
  <1> DEFINE n == Len(s)
  <1>1. n \in Nat /\ DOMAIN s = 1 .. n /\ \A i \in 1 .. n : s[i] \in Nat
    OBVIOUS
  <1>2. \A i \in 1 .. n : t[i] = s[i] - d[i]
    BY <1>1
  <1> HIDE DEF n
  <1>3. \A i \in 1 .. n : t[i] \in Nat /\ t[i] <= s[i]
    <2>1. ASSUME NEW i \in 1 .. n
          PROVE  t[i] \in Nat /\ t[i] <= s[i]
      <3>1. s[i] \in Nat /\ d[i] \in Nat /\ d[i] <= s[i] /\ t[i] = s[i] - d[i]
        BY <1>1, <1>2
      <3>. QED  BY <3>1
    <2>. QED  BY <2>1
  <1>4. t \in [1 .. n -> Nat]
    BY <1>1, <1>3
  <1>5. t \in Seq(Nat) /\ Len(t) = n /\ DOMAIN t = 1 .. n
    BY <1>1, <1>4, IsSeq
  <1>. QED  BY <1>1, <1>2, <1>3, <1>5 DEF n

\* Of the slots of clusters, each gives what d says of it.
LEMMA SlotsGiveAll ==
  ASSUME SlotsInv, NEW d \in [Clusters -> [Places -> Nat]],
         \A c \in Clusters : \A i \in Places : d[c][i] <= At(slots[c], i),
         slots' = [c \in Clusters |-> [i \in DOMAIN slots[c] |-> slots[c][i] - d[c][i]]]
  PROVE  /\ SlotsInv'
         /\ \A c \in Clusters : \A i \in Places : At(slots'[c], i) = At(slots[c], i) - d[c][i]
  <1>1. ASSUME NEW c \in Clusters
        PROVE  /\ slots'[c] \in Seq(Nat)
               /\ \A i \in DOMAIN slots'[c] : slots'[c][i] <= SlotSize(i)
               /\ \A i \in Places : At(slots'[c], i) = At(slots[c], i) - d[c][i]
    <2> DEFINE s == slots[c]
               t == slots'[c]
               e == d[c]
    <2>1. s \in Seq(Nat) /\ \A i \in DOMAIN s : s[i] <= SlotSize(i) /\ SlotSize(i) \in Nat /\ i \in Places
      BY PolicyAssumption DEF SlotsInv, Places, SlotSize
    <2>2. \A i \in Places : e[i] \in Nat /\ e[i] <= At(s, i)
      OBVIOUS
    <2>3. t = [i \in DOMAIN s |-> s[i] - e[i]]
      OBVIOUS
    <2> HIDE DEF s, t, e
    <2>4. \A i \in DOMAIN s : e[i] \in Nat /\ e[i] <= s[i]
      BY <2>1, <2>2 DEF At
    <2>5. /\ t \in Seq(Nat) /\ DOMAIN t = DOMAIN s
          /\ \A i \in DOMAIN s : t[i] = s[i] - e[i] /\ t[i] <= s[i]
      BY <2>1, <2>3, <2>4, SeqGives
    <2>6. \A i \in DOMAIN s : t[i] \in Nat /\ s[i] \in Nat
      BY <2>1, <2>5
    <2>7. \A i \in DOMAIN t : t[i] <= SlotSize(i)
      BY <2>1, <2>5, <2>6
    <2>8. ASSUME NEW i \in Places
          PROVE  At(t, i) = At(s, i) - e[i]
      <3>1. CASE i \in DOMAIN s
        BY <2>5, <3>1 DEF At
      <3>2. CASE i \notin DOMAIN s
        <4>1. At(t, i) = 0 /\ At(s, i) = 0
          BY <2>5, <3>2 DEF At
        <4>. QED  BY <2>2, <4>1
      <3>. QED  BY <3>1, <3>2
    <2>. QED  BY <2>5, <2>7, <2>8 DEF s, t, e
  <1>2. slots' \in [Clusters -> Seq(Nat)]
    BY <1>1
  <1>. QED  BY <1>1, <1>2 DEF SlotsInv

\* Of the slots of one cluster, each gives what d says of it.
LEMMA SlotsGive ==
  ASSUME SlotsInv, NEW c \in Clusters, NEW d \in [Places -> Nat],
         \A i \in Places : d[i] <= At(slots[c], i),
         slots' = [slots EXCEPT ![c] = [i \in DOMAIN slots[c] |-> slots[c][i] - d[i]]]
  PROVE  /\ SlotsInv'
         /\ \A b \in Clusters : \A i \in Places :
              At(slots'[b], i) = IF b = c THEN At(slots[c], i) - d[i] ELSE At(slots[b], i)
  <1> DEFINE e == [b \in Clusters |-> [i \in Places |-> IF b = c THEN d[i] ELSE 0]]
  <1>1. \A b \in Clusters : \A i \in Places : e[b][i] = IF b = c THEN d[i] ELSE 0
    OBVIOUS
  <1>2. e \in [Clusters -> [Places -> Nat]]
    OBVIOUS
  <1> HIDE DEF e
  <1>3. \A b \in Clusters : slots[b] \in Seq(Nat) /\ \A i \in DOMAIN slots[b] : slots[b][i] \in Nat /\ i \in Places
    BY DEF SlotsInv, Places
  <1>4. \A b \in Clusters : \A i \in Places : At(slots[b], i) \in Nat
    BY <1>3 DEF At
  <1>5. \A b \in Clusters : \A i \in Places : e[b][i] <= At(slots[b], i)
    BY <1>1, <1>4
  <1>6. slots' = [b \in Clusters |-> [i \in DOMAIN slots[b] |-> slots[b][i] - e[b][i]]]
    <2>1. ASSUME NEW b \in Clusters
          PROVE  slots'[b] = [i \in DOMAIN slots[b] |-> slots[b][i] - e[b][i]]
      <3>1. CASE b = c
        <4>1. slots'[b] = [i \in DOMAIN slots[b] |-> slots[b][i] - d[i]]
          BY <3>1 DEF SlotsInv
        <4>2. \A i \in DOMAIN slots[b] : d[i] = e[b][i]
          BY <1>1, <1>3, <3>1
        <4>. QED  BY <4>1, <4>2
      <3>2. CASE b # c
        <4>1. slots'[b] = slots[b]
          BY <3>2 DEF SlotsInv
        <4>2. \A i \in DOMAIN slots[b] : slots[b][i] - e[b][i] = slots[b][i]
          BY <1>1, <1>3, <3>2
        <4>3. slots[b] = [i \in DOMAIN slots[b] |-> slots[b][i]]
          BY <1>3
        <4>. QED  BY <4>1, <4>2, <4>3
      <3>. QED  BY <3>1, <3>2
    <2>2. slots' = [b \in Clusters |-> slots'[b]]
      BY DEF SlotsInv
    <2>. QED  BY <2>1, <2>2
  <1>7. /\ SlotsInv'
        /\ \A b \in Clusters : \A i \in Places : At(slots'[b], i) = At(slots[b], i) - e[b][i]
    BY <1>2, <1>5, <1>6, SlotsGiveAll
  <1>8. ASSUME NEW b \in Clusters, NEW i \in Places
        PROVE  At(slots'[b], i) = IF b = c THEN At(slots[c], i) - d[i] ELSE At(slots[b], i)
    <2>1. At(slots'[b], i) = At(slots[b], i) - e[b][i] /\ At(slots[b], i) \in Nat
      BY <1>4, <1>7
    <2>. QED  BY <1>1, <2>1
  <1>. QED  BY <1>7, <1>8

\* Of the slots of a cluster, each takes what d says of it and has room for.
LEMMA SlotsTake ==
  ASSUME SlotsInv, NEW c \in Clusters, NEW d \in [Places -> Nat],
         \A i \in DOMAIN slots[c] : slots[c][i] + d[i] <= SlotSize(i),
         \A i \in Places : i \notin DOMAIN slots[c] => d[i] = 0,
         slots' = [slots EXCEPT ![c] = [i \in DOMAIN slots[c] |-> slots[c][i] + d[i]]]
  PROVE  /\ SlotsInv'
         /\ \A b \in Clusters : \A i \in Places :
              At(slots'[b], i) = IF b = c THEN At(slots[c], i) + d[i] ELSE At(slots[b], i)
  <1> DEFINE s == slots[c]
             n == Len(s)
             t == [i \in DOMAIN s |-> s[i] + d[i]]
  <1>1. /\ n \in Nat /\ DOMAIN s = 1 .. n /\ \A i \in 1 .. n : s[i] \in Nat /\ i \in Places
        /\ \A i \in DOMAIN s : s[i] + d[i] <= SlotSize(i)
    BY DEF SlotsInv, Places
  <1>2. \A i \in Places : i \notin DOMAIN s => d[i] = 0
    OBVIOUS
  <1>3. \A i \in 1 .. n : s[i] + d[i] \in Nat
    BY <1>1
  <1>4. slots' = [slots EXCEPT ![c] = t]
    OBVIOUS
  <1> HIDE DEF s, n
  <1>5. t \in [1 .. n -> Nat] /\ \A i \in 1 .. n : t[i] = s[i] + d[i]
    BY <1>1, <1>3
  <1> HIDE DEF t
  <1>6. t \in Seq(Nat) /\ DOMAIN t = 1 .. n
    BY <1>1, <1>5, IsSeq
  <1>7. slots' \in [Clusters -> Seq(Nat)] /\ slots'[c] = t /\ \A b \in Clusters : b # c => slots'[b] = slots[b]
    BY <1>4, <1>6 DEF SlotsInv
  <1>8. SlotsInv'
    <2>1. \A i \in DOMAIN t : t[i] <= SlotSize(i)
      BY <1>1, <1>5, <1>6
    <2>. QED  BY <1>7, <2>1 DEF SlotsInv
  <1>9. ASSUME NEW i \in Places
        PROVE  At(t, i) = At(s, i) + d[i]
    <2>1. CASE i \in 1 .. n
      BY <1>1, <1>5, <1>6, <2>1 DEF At
    <2>2. CASE i \notin 1 .. n
      <3>1. At(t, i) = 0 /\ At(s, i) = 0
        BY <1>1, <1>6, <2>2 DEF At
      <3>2. d[i] = 0
        BY <1>1, <1>2, <2>2
      <3>. QED  BY <3>1, <3>2
    <2>. QED  BY <2>1, <2>2
  <1>. QED  BY <1>7, <1>8, <1>9 DEF s

\* A workload that ends gives back what it holds, of slots or of its group.
LEMMA LeaveStays ==
  ASSUME RayInv, NEW w \in AllWorks, NEW state \in {"QUEUED", "SUCCEEDED", "FAILED", "CANCELLED"},
         work[w].state \in {"QUEUED", "BLOCKED", "RUNNING"},
         state = "QUEUED" => work[w].attempt <= Work[w].retries,
         slots' = SlotsWithout(w), group' = GroupsWithout(w),
         work' = [work EXCEPT ![w] = EndedAs(w, state)],
         UNCHANGED <<cl, pendingFor, idleFor, stage, forgotten>>
  PROVE  RayInv'
  <1> DEFINE r == EndedAs(w, state)
             p == work[w]
             g == Work[w].group
             c == p.on
  <1>1. WorksInv /\ GroupsInv /\ SharesInv /\ SlotsInv /\ BooksInv /\ LoopInv /\ ClustersInv
    BY DEF RayInv
  <1>2. WorkInv(w, p) /\ p \in WorkRecords
    BY <1>1 DEF WorksInv, WorkInv
  <1>3. /\ r \in WorkRecords /\ r.state = state /\ r.via = "none" /\ r.attempt = p.attempt
        /\ r.at = <<>> /\ r.on = p.on
    <2>1. r = [p EXCEPT !.state = state, !.at = <<>>, !.via = "none"]
      BY DEF EndedAs
    <2>2. <<>> \in Seq(Places)
      OBVIOUS
    <2> HIDE DEF r, p
    <2>. QED  BY <1>2, <2>1, <2>2 DEF WorkRecords
  <1>4. OneMoves(w, r)
    BY DEF OneMoves
  <1> HIDE DEF r
  <1>5. WorkInv(w, r)
    <2>1. Len(r.at) <= Work[w].replicas
      BY <1>3, WorkFacts
    <2>. QED  BY <1>2, <1>3, <2>1 DEF WorkInv
  <1>6. \A b, q, i : PartOf(w, r, b, i) = 0 /\ ShareOf(w, r, q, i) = 0
    BY <1>3 DEF PartOf, ShareOf
  <1>7. /\ WorksInv'
        /\ \A b, i : /\ RunIn(b, i) \in Nat /\ RunIn(b, i)' \in Nat
                     /\ RunIn(b, i)' + PartOf(w, p, b, i) = RunIn(b, i) + PartOf(w, r, b, i)
                     /\ PartOf(w, p, b, i) <= RunIn(b, i)
        /\ \A q, i : /\ SharedOf(q, i) \in Nat /\ SharedOf(q, i)' \in Nat
                     /\ SharedOf(q, i)' + ShareOf(w, p, q, i) = SharedOf(q, i) + ShareOf(w, r, q, i)
                     /\ ShareOf(w, p, q, i) <= SharedOf(q, i)
    BY <1>1, <1>4, <1>5, OneWorkMoves
  <1>8. \A b, q, i : PartOf(w, p, b, i) \in Nat /\ ShareOf(w, p, q, i) \in Nat
    BY <1>2, PartNat
  <1>9. /\ \A b, i : RunIn(b, i)' = RunIn(b, i) - PartOf(w, p, b, i)
        /\ \A q, i : SharedOf(q, i)' = SharedOf(q, i) - ShareOf(w, p, q, i)
    BY <1>6, <1>7, <1>8
  <1>10. \A v \in AllWorks : v # w => work'[v] = work[v]
    BY <1>1, <1>4 DEF OneMoves, WorksInv
  <1>11. work'[w] = r
    BY <1>1, <1>4 DEF OneMoves, WorksInv
  <1>12. /\ \A q \in AllGroups : group'[q].state = group[q].state /\ group'[q].at = group[q].at
         /\ GroupsInv'
         /\ \A q \in AllGroups : /\ DOMAIN group'[q].used = DOMAIN group[q].used
                                 /\ \A i \in DOMAIN group[q].used :
                                      group'[q].used[i] = group[q].used[i] - ShareOf(w, p, q, i)
    <2>1. CASE p.via # "group"
      <3>1. group' = group
        BY <2>1 DEF GroupsWithout
      <3>2. \A q, i : ShareOf(w, p, q, i) = 0
        BY <2>1 DEF ShareOf
      <3>3. \A q \in AllGroups : \A i \in DOMAIN group[q].used : group[q].used[i] \in Nat
        BY <1>1 DEF GroupsInv, GroupRecords
      <3>. QED  BY <1>1, <3>1, <3>2, <3>3 DEF GroupsInv
    <2>2. CASE p.via = "group"
      <3>1. g \in AllGroups /\ p.state = "RUNNING"
        BY <1>1, <1>2, <2>2 DEF SharesInv, InItsGroup, WorkInv
      <3> DEFINE u == group[g].used
                 d == [i \in DOMAIN u |-> IF i <= Work[w].replicas THEN u[i] - Work[w].need ELSE u[i]]
                 q0 == [group[g] EXCEPT !.used = d]
      <3>2. group' = [group EXCEPT ![g] = q0]
        BY <1>1, <2>2, <3>1 DEF GroupsWithout, GroupsInv, GroupRecords
      <3>3. /\ u \in Seq(Nat) /\ DOMAIN u = 1 .. Len(u) /\ Len(u) \in Nat
            /\ group[g] \in GroupRecords /\ GroupInv(g, group[g])
        BY <1>1, <3>1 DEF GroupsInv, GroupRecords
      <3>4. \A i \in DOMAIN u : d[i] = u[i] - ShareOf(w, p, g, i) /\ d[i] \in Nat /\ d[i] <= u[i]
        <4>1. ASSUME NEW i \in DOMAIN u
              PROVE  d[i] = u[i] - ShareOf(w, p, g, i) /\ d[i] \in Nat /\ d[i] <= u[i]
          <5>1. u[i] = SharedOf(g, i) /\ u[i] \in Nat
            BY <1>1, <3>1, <3>3 DEF SharesInv
          <5>2. ShareOf(w, p, g, i) = IF i <= Work[w].replicas THEN Work[w].need ELSE 0
            BY <2>2, <3>1 DEF ShareOf
          <5>3. d[i] = IF i <= Work[w].replicas THEN u[i] - Work[w].need ELSE u[i]
            OBVIOUS
          <5>4. ShareOf(w, p, g, i) \in Nat /\ ShareOf(w, p, g, i) <= SharedOf(g, i)
            BY <1>7, <1>8
          <5> HIDE DEF d, u
          <5>. QED  BY <5>1, <5>2, <5>3, <5>4
        <4>. QED  BY <4>1
      <3>5. d \in Seq(Nat) /\ Len(d) = Len(u) /\ DOMAIN d = DOMAIN u
        <4>1. d \in [1 .. Len(u) -> Nat]
          BY <3>3, <3>4
        <4>. QED  BY <3>3, <4>1, IsSeq
      <3> HIDE DEF d
      <3>6. /\ q0 \in GroupRecords /\ q0.state = group[g].state /\ q0.at = group[g].at /\ q0.used = d
        BY <3>3, <3>5 DEF GroupRecords
      <3> HIDE DEF q0
      <3>7. GroupInv(g, q0)
        <4>1. \A i \in DOMAIN d : d[i] <= Group[g].bundles[i]
          <5>1. ASSUME NEW i \in DOMAIN d
                PROVE  d[i] <= Group[g].bundles[i]
            <6>1. u[i] <= Group[g].bundles[i] /\ u[i] \in Nat /\ d[i] \in Nat /\ d[i] <= u[i]
              <7>1. i \in DOMAIN u
                BY <3>5
              <7>2. u[i] <= Group[g].bundles[i]
                BY <3>3, <7>1 DEF GroupInv
              <7>3. u[i] \in Nat
                BY <3>3, <7>1
              <7>. QED  BY <3>4, <7>1, <7>2, <7>3
            <6>2. Group[g].bundles[i] \in Nat
              <7>1. Group[g].bundles \in Seq(Nat) /\ i \in DOMAIN Group[g].bundles
                <8>1. Len(u) \in {0, Len(Group[g].bundles)}
                  BY <3>3 DEF GroupInv
                <8>2. Group[g].bundles \in Seq(Nat)
                  BY <3>1, WorkFacts
                <8>3. i \in 1 .. Len(u)
                  BY <3>3, <3>5
                <8>4. Len(u) = Len(Group[g].bundles)
                  BY <3>3, <8>1, <8>3
                <8>. QED  BY <8>2, <8>3, <8>4
              <7>. QED  BY <7>1
            <6>. QED  BY <6>1, <6>2
          <5>. QED  BY <5>1
        <4>. QED  BY <3>3, <3>5, <3>6, <4>1 DEF GroupInv
      <3>8. GroupsInv' /\ group'[g] = q0 /\ \A q \in AllGroups : q # g => group'[q] = group[q]
        <4>1. GroupsInv
          BY <1>1
        <4> HIDE DEF p
        <4>2. WorksInv /\ g \in AllGroups /\ GroupInv(g, q0)
          BY <1>1, <3>1, <3>7
        <4> HIDE DEF g
        <4>. QED  BY <3>2, <4>1, <4>2, OneGroupMoves
      <3>9. \A q \in AllGroups : q # g => \A i : ShareOf(w, p, q, i) = 0
        BY DEF ShareOf
      <3>10. \A q \in AllGroups : \A i \in DOMAIN group[q].used : group[q].used[i] \in Nat
        BY <1>1 DEF GroupsInv, GroupRecords
      <3> HIDE DEF p, g, u
      <3>11. group'[g].state = group[g].state /\ group'[g].at = group[g].at /\ group'[g].used = d
        BY <3>6, <3>8
      <3>12. \A q \in AllGroups : group'[q].state = group[q].state /\ group'[q].at = group[q].at
        BY <3>8, <3>11
      <3>13. ASSUME NEW q \in AllGroups
             PROVE  /\ DOMAIN group'[q].used = DOMAIN group[q].used
                    /\ \A i \in DOMAIN group[q].used :
                         group'[q].used[i] = group[q].used[i] - ShareOf(w, p, q, i)
        <4>1. CASE q = g
          BY <3>4, <3>5, <3>11, <4>1 DEF u
        <4>2. CASE q # g
          BY <3>8, <3>9, <3>10, <4>2
        <4>. QED  BY <4>1, <4>2
      <3>. QED  BY <3>8, <3>12, <3>13
    <2>. QED  BY <2>1, <2>2
  <1>13. SharesInv'
    <2>1. \A v \in AllWorks : InItsGroup(v, work[v])'
      <3>1. \A v \in AllWorks : InItsGroup(v, work[v])
        BY <1>1 DEF SharesInv
      <3>. QED  BY <1>3, <1>10, <1>11, <1>12, <3>1 DEF InItsGroup
    <2>2. \A q \in AllGroups : \A i \in DOMAIN group[q].used : group[q].used[i] = SharedOf(q, i)
      BY <1>1 DEF SharesInv
    <2>. QED  BY <1>9, <1>12, <2>1, <2>2 DEF SharesInv
  <1>14. \A b, i : ReservedIn(b, i)' = ReservedIn(b, i)
    <2>1. \A q \in AllGroups : \A b, i : ReserveOf(q, group'[q], b, i) = ReserveOf(q, group[q], b, i)
      BY <1>12 DEF ReserveOf
    <2>. QED  BY <1>1, <2>1, GroupsKeep
  <1>15. /\ SlotsInv'
         /\ \A b \in Clusters : \A i \in Places : At(slots'[b], i) = At(slots[b], i) - PartOf(w, p, b, i)
    <2>1. CASE p.via # "normal"
      <3>1. slots' = slots
        BY <2>1 DEF SlotsWithout
      <3>2. \A b, i : PartOf(w, p, b, i) = 0
        BY <2>1 DEF PartOf
      <3>3. \A b \in Clusters : \A i \in Places : At(slots[b], i) \in Nat
        BY <1>1 DEF SlotsInv, At
      <3>. QED  BY <1>1, <3>1, <3>2, <3>3 DEF SlotsInv
    <2>2. CASE p.via = "normal"
      <3>1. c \in Clusters /\ p.state = "RUNNING"
        BY <1>2, <2>2 DEF WorkInv
      <3> DEFINE d == [i \in Places |-> Held(Sizes(w), p.at, i)]
      <3>2. d \in [Places -> Nat] /\ \A i \in Places : d[i] = PartOf(w, p, c, i)
        BY <1>2, <2>2, <3>1, PartNat DEF PartOf
      <3>3. slots' = [slots EXCEPT ![c] = [i \in DOMAIN slots[c] |-> slots[c][i] - d[i]]]
        <4>1. \A i \in DOMAIN slots[c] : i \in Places
          BY <1>1, <3>1 DEF SlotsInv, Places
        <4>2. slots' = [slots EXCEPT ![c] = [i \in DOMAIN slots[c] |-> slots[c][i] - Held(Sizes(w), p.at, i)]]
          BY <1>1, <2>2, <3>1 DEF SlotsWithout, SlotsInv
        <4>3. [i \in DOMAIN slots[c] |-> slots[c][i] - Held(Sizes(w), p.at, i)]
                = [i \in DOMAIN slots[c] |-> slots[c][i] - d[i]]
          BY <4>1
        <4>. QED  BY <4>2, <4>3
      <3> HIDE DEF d
      <3>4. \A i \in Places : d[i] <= At(slots[c], i)
        <4>1. ASSUME NEW i \in Places
              PROVE  d[i] <= At(slots[c], i)
          <5>1. At(slots[c], i) = RunIn(c, i) + ReservedIn(c, i)
            BY <1>1, <3>1 DEF BooksInv
          <5>2. ReservedIn(c, i) \in Nat
            BY <1>1, HoldingsWeigh
          <5>3. d[i] \in Nat /\ d[i] <= RunIn(c, i) /\ RunIn(c, i) \in Nat
            BY <1>7, <3>2
          <5>. QED  BY <5>1, <5>2, <5>3
        <4>. QED  BY <4>1
      <3>5. /\ SlotsInv'
            /\ \A b \in Clusters : \A i \in Places :
                 At(slots'[b], i) = IF b = c THEN At(slots[c], i) - d[i] ELSE At(slots[b], i)
        BY <1>1, <3>1, <3>2, <3>3, <3>4, SlotsGive
      <3>6. \A b, i : b # c => PartOf(w, p, b, i) = 0
        BY DEF PartOf
      <3>7. \A b \in Clusters : \A i \in Places : At(slots[b], i) \in Nat
        BY <1>1 DEF SlotsInv, At
      <3>. QED  BY <3>2, <3>5, <3>6, <3>7
    <2>. QED  BY <2>1, <2>2
  <1>16. BooksInv'
    <2>1. ASSUME NEW b \in Clusters, NEW i \in Places
          PROVE  At(slots'[b], i) = RunIn(b, i)' + ReservedIn(b, i)'
      <3>1. At(slots[b], i) = RunIn(b, i) + ReservedIn(b, i)
        BY <1>1 DEF BooksInv
      <3>2. ReservedIn(b, i) \in Nat /\ RunIn(b, i) \in Nat /\ PartOf(w, p, b, i) \in Nat
        BY <1>1, <1>8, HoldingsWeigh
      <3>. QED  BY <1>9, <1>14, <1>15, <3>1, <3>2
    <2>. QED  BY <2>1 DEF BooksInv
  <1>17. LoopInv' /\ ClustersInv'
    BY <1>1, LoopSame, ClustersSame
  <1>. QED  BY <1>7, <1>12, <1>13, <1>15, <1>16, <1>17 DEF RayInv

\* A workload that fails or is cancelled gives back what it took, wherever it took it.
LEMMA FailStays ==
  ASSUME RayInv, NEW w \in AllWorks, FailWork(w) \/ CancelWork(w)
  PROVE  RayInv'
  <1>1. CASE FailWork(w)
    <2> DEFINE state == IF Retried(w) THEN "QUEUED" ELSE "FAILED"
    <2>1. /\ state \in {"QUEUED", "SUCCEEDED", "FAILED", "CANCELLED"}
          /\ state = "QUEUED" => work[w].attempt <= Work[w].retries
      BY DEF Retried
    <2>2. /\ work[w].state \in {"QUEUED", "BLOCKED", "RUNNING"}
          /\ slots' = SlotsWithout(w) /\ group' = GroupsWithout(w)
          /\ work' = [work EXCEPT ![w] = EndedAs(w, state)]
          /\ UNCHANGED <<cl, pendingFor, idleFor, stage, forgotten>>
      BY <1>1 DEF FailWork
    <2> HIDE DEF state
    <2>. QED  BY <2>1, <2>2, LeaveStays
  <1>2. CASE CancelWork(w)
    BY <1>2, LeaveStays DEF CancelWork
  <1>. QED  BY <1>1, <1>2

\* A released group, which no workload uses, gives its reservations back.
LEMMA ReleaseStays ==
  ASSUME RayInv, NEW g \in AllGroups, ReleaseGroup(g)
  PROVE  RayInv'
  <1> DEFINE p == group[g]
             r == [p EXCEPT !.state = "RELEASED"]
             c == Group[g].cluster
             sizes == Group[g].bundles
             d == [i \in Places |-> Held(sizes, p.at, i)]
  <1>1. WorksInv /\ GroupsInv /\ SharesInv /\ SlotsInv /\ BooksInv /\ LoopInv /\ ClustersInv
    BY DEF RayInv
  <1>2. /\ p.state = "PLACED" /\ ~\E w \in AllWorks : Uses(w, g)
        /\ UNCHANGED <<cl, work, pendingFor, idleFor, stage, forgotten>>
    BY DEF ReleaseGroup
  <1>3. GroupInv(g, p) /\ p \in GroupRecords
    BY <1>1 DEF GroupsInv, GroupInv
  <1>4. r \in GroupRecords /\ r.state = "RELEASED" /\ r.at = p.at /\ r.used = p.used
    BY <1>3 DEF GroupRecords
  <1>5. group' = [group EXCEPT ![g] = r]
    BY <1>1 DEF ReleaseGroup, GroupsInv, GroupRecords
  <1> HIDE DEF r
  <1>6. GroupInv(g, r)
    BY <1>2, <1>3, <1>4 DEF GroupInv
  <1>7. /\ GroupsInv' /\ group'[g] = r /\ \A q \in AllGroups : q # g => group'[q] = group[q]
        /\ \A b, i : /\ ReservedIn(b, i) \in Nat /\ ReservedIn(b, i)' \in Nat
                     /\ ReservedIn(b, i)' + ReserveOf(g, p, b, i) = ReservedIn(b, i) + ReserveOf(g, r, b, i)
                     /\ ReserveOf(g, p, b, i) <= ReservedIn(b, i)
    BY <1>1, <1>5, <1>6, OneGroupMoves
  <1>8. \A b, i : ReserveOf(g, r, b, i) = 0 /\ ReserveOf(g, p, b, i) \in Nat
    BY <1>3, <1>4, ReserveNat DEF ReserveOf
  <1>9. c \in Clusters /\ d \in [Places -> Nat] /\ \A i \in Places : d[i] = ReserveOf(g, p, c, i)
    <2>1. \A i : Held(sizes, p.at, i) \in Nat
      BY <1>3, ReserveNat
    <2>. QED  BY <1>2, <2>1, WorkFacts DEF ReserveOf
  <1>10. slots' = [slots EXCEPT ![c] = [i \in DOMAIN slots[c] |-> slots[c][i] - d[i]]]
    <2>1. \A i \in DOMAIN slots[c] : i \in Places
      BY <1>1, <1>9 DEF SlotsInv, Places
    <2>2. slots' = [slots EXCEPT ![c] = [i \in DOMAIN slots[c] |-> slots[c][i] - Held(sizes, p.at, i)]]
      BY <1>1, <1>9 DEF ReleaseGroup, SlotsInv
    <2>3. [i \in DOMAIN slots[c] |-> slots[c][i] - Held(sizes, p.at, i)]
            = [i \in DOMAIN slots[c] |-> slots[c][i] - d[i]]
      BY <2>1
    <2>. QED  BY <2>2, <2>3
  <1> HIDE DEF d
  <1>11. \A i \in Places : d[i] <= At(slots[c], i)
    <2>1. ASSUME NEW i \in Places
          PROVE  d[i] <= At(slots[c], i)
      <3>1. At(slots[c], i) = RunIn(c, i) + ReservedIn(c, i)
        BY <1>1, <1>9 DEF BooksInv
      <3>2. RunIn(c, i) \in Nat
        BY <1>1, HoldingsWeigh
      <3>3. d[i] \in Nat /\ d[i] <= ReservedIn(c, i) /\ ReservedIn(c, i) \in Nat
        BY <1>7, <1>9
      <3>. QED  BY <3>1, <3>2, <3>3
    <2>. QED  BY <2>1
  <1>12. /\ SlotsInv'
         /\ \A b \in Clusters : \A i \in Places :
              At(slots'[b], i) = IF b = c THEN At(slots[c], i) - d[i] ELSE At(slots[b], i)
    BY <1>1, <1>9, <1>10, <1>11, SlotsGive
  <1>13. (\A b, i : RunIn(b, i)' = RunIn(b, i)) /\ (\A q, i : SharedOf(q, i)' = SharedOf(q, i))
    BY <1>2, WorksKeep
  <1>14. BooksInv'
    <2>1. ASSUME NEW b \in Clusters, NEW i \in Places
          PROVE  At(slots'[b], i) = RunIn(b, i)' + ReservedIn(b, i)'
      <3>1. At(slots[b], i) = RunIn(b, i) + ReservedIn(b, i)
        BY <1>1 DEF BooksInv
      <3>2. ReservedIn(b, i) \in Nat /\ RunIn(b, i) \in Nat
        BY <1>1, HoldingsWeigh
      <3>3. ReservedIn(b, i)' = ReservedIn(b, i) - ReserveOf(g, p, b, i)
        BY <1>7, <1>8
      <3>4. b # c => ReserveOf(g, p, b, i) = 0
        BY DEF ReserveOf
      <3>5. At(slots'[b], i) = At(slots[b], i) - ReserveOf(g, p, b, i)
        <4>1. CASE b = c
          BY <1>9, <1>12, <4>1
        <4>2. CASE b # c
          BY <1>12, <3>1, <3>2, <3>4, <4>2
        <4>. QED  BY <4>1, <4>2
      <3>. QED  BY <1>8, <1>13, <3>1, <3>2, <3>3, <3>5
    <2>. QED  BY <2>1 DEF BooksInv
  <1>15. SharesInv'
    <2>1. \A w \in AllWorks : work[w].via = "group" => Work[w].group # g
      BY <1>1, <1>2 DEF Uses, WorksInv, WorkInv
    <2>2. \A w \in AllWorks : InItsGroup(w, work[w])
      BY <1>1 DEF SharesInv
    <2>3. \A w \in AllWorks : InItsGroup(w, work[w])'
      BY <1>2, <1>7, <2>1, <2>2 DEF InItsGroup
    <2>4. \A q \in AllGroups : group'[q].used = group[q].used
      BY <1>4, <1>7
    <2>. QED  BY <1>1, <1>13, <2>3, <2>4 DEF SharesInv
  <1>16. WorksInv' /\ LoopInv' /\ ClustersInv'
    BY <1>1, <1>2, LoopSame, ClustersSame DEF WorksInv
  <1>. QED  BY <1>7, <1>12, <1>14, <1>15, <1>16 DEF RayInv

\* What a placement fills.
LEMMA FilledTakes ==
  ASSUME SlotsInv, NEW c \in Clusters, NEW sizes \in Seq(Nat), NEW at \in Seq(Places),
         Len(at) = Len(sizes), \A k \in DOMAIN at : at[k] \in DOMAIN slots[c],
         \A i \in DOMAIN slots[c] : slots[c][i] + Held(sizes, at, i) <= SlotSize(i),
         slots' = Filled(c, sizes, at)
  PROVE  /\ SlotsInv'
         /\ \A b \in Clusters : \A i \in Places :
              At(slots'[b], i) = IF b = c THEN At(slots[c], i) + Held(sizes, at, i) ELSE At(slots[b], i)
  <1> DEFINE d == [i \in Places |-> Held(sizes, at, i)]
  <1>1. Len(at) <= Len(sizes)
    OBVIOUS
  <1>2. d \in [Places -> Nat] /\ \A i \in Places : d[i] = Held(sizes, at, i)
    BY <1>1, HeldNat
  <1>3. \A i \in DOMAIN slots[c] : i \in Places
    BY DEF SlotsInv, Places
  <1>4. slots' = [slots EXCEPT ![c] = [i \in DOMAIN slots[c] |-> slots[c][i] + d[i]]]
    <2>1. slots' = [slots EXCEPT ![c] = [i \in DOMAIN slots[c] |-> slots[c][i] + Held(sizes, at, i)]]
      BY DEF Filled, SlotsInv
    <2>2. [i \in DOMAIN slots[c] |-> slots[c][i] + Held(sizes, at, i)]
            = [i \in DOMAIN slots[c] |-> slots[c][i] + d[i]]
      BY <1>3
    <2>. QED  BY <2>1, <2>2
  <1>5. \A i \in Places : i \notin DOMAIN slots[c] => d[i] = 0
    <2>1. ASSUME NEW i \in Places, i \notin DOMAIN slots[c]
          PROVE  d[i] = 0
      <3>1. \A k \in DOMAIN at : at[k] # i
        BY <2>1
      <3>2. Held(sizes, at, i) = 0
        BY <1>1, <3>1, HeldNat
      <3>. QED  BY <3>2
    <2>. QED  BY <2>1
  <1> HIDE DEF d
  <1>6. \A i \in DOMAIN slots[c] : slots[c][i] + d[i] <= SlotSize(i)
    BY <1>2, <1>3
  <1>7. /\ SlotsInv'
        /\ \A b \in Clusters : \A i \in Places :
             At(slots'[b], i) = IF b = c THEN At(slots[c], i) + d[i] ELSE At(slots[b], i)
    BY <1>2, <1>4, <1>5, <1>6, SlotsTake
  <1>. QED  BY <1>2, <1>7

\* Placing a group reserves what its bundles need.
LEMMA TryStays ==
  ASSUME RayInv, NEW g \in AllGroups, TryGroup(g)
  PROVE  RayInv'
  <1>1. WorksInv /\ GroupsInv /\ SharesInv /\ SlotsInv /\ BooksInv /\ LoopInv /\ ClustersInv
    BY DEF RayInv
  <1>2. UNCHANGED <<cl, work, pendingFor, idleFor, stage, forgotten>>
    BY DEF TryGroup
  <1>3. WorksInv' /\ LoopInv' /\ ClustersInv'
    BY <1>1, <1>2, LoopSame, ClustersSame DEF WorksInv
  <1>4. CASE UNCHANGED <<slots, group>>
    BY <1>2, <1>3, <1>4, BooksStay
  <1>5. CASE /\ group[g].state = "QUEUED"
             /\ \E at \in BundlePlacements(g) :
                  /\ slots' = Filled(Group[g].cluster, Group[g].bundles, at)
                  /\ group' = [group EXCEPT ![g].state = "PLACED", ![g].at = at]
    <2> DEFINE p == group[g]
               c == Group[g].cluster
               sizes == Group[g].bundles
    <2>1. PICK at \in BundlePlacements(g) :
            /\ slots' = Filled(c, sizes, at)
            /\ group' = [group EXCEPT ![g].state = "PLACED", ![g].at = at]
      BY <1>5
    <2> DEFINE r == [p EXCEPT !.state = "PLACED", !.at = at]
    <2>2. c \in Clusters /\ sizes \in Seq(Nat)
      BY WorkFacts
    <2>3. /\ at \in Seq(Places) /\ Len(at) = Len(sizes) /\ \A k \in DOMAIN at : at[k] \in DOMAIN slots[c]
          /\ \A i \in DOMAIN slots[c] : slots[c][i] + Held(sizes, at, i) <= SlotSize(i)
          /\ Group[g].strategy = "STRICT_SPREAD" => IsInjective(at)
      <3>1. CASE Group[g].strategy = "STRICT_PACK"
        <4>1. at \in PackedPlacements(g, c)
          BY <3>1 DEF BundlePlacements
        <4>. QED  BY <1>1, <2>2, <3>1, <4>1, PackingFits
      <3>2. CASE Group[g].strategy # "STRICT_PACK"
        <4>1. at \in Placements(c, sizes, Group[g].strategy)
          BY <3>2 DEF BundlePlacements
        <4>. QED  BY <1>1, <2>2, <4>1, PlacementFits
      <3>. QED  BY <3>1, <3>2
    <2>4. GroupInv(g, p) /\ p \in GroupRecords
      BY <1>1 DEF GroupsInv, GroupInv
    <2>5. r \in GroupRecords /\ r.state = "PLACED" /\ r.at = at /\ r.used = p.used
      BY <2>3, <2>4 DEF GroupRecords
    <2>6. group' = [group EXCEPT ![g] = r]
      BY <1>1, <2>1 DEF GroupsInv, GroupRecords
    <2> HIDE DEF r
    <2>7. GroupInv(g, r)
      <3>1. Len(at) <= Len(sizes)
        BY <2>2, <2>3
      <3>. QED  BY <1>5, <2>3, <2>4, <2>5, <3>1 DEF GroupInv
    <2>8. /\ GroupsInv' /\ group'[g] = r /\ \A q \in AllGroups : q # g => group'[q] = group[q]
          /\ \A b, i : /\ ReservedIn(b, i) \in Nat /\ ReservedIn(b, i)' \in Nat
                       /\ ReservedIn(b, i)' + ReserveOf(g, p, b, i) = ReservedIn(b, i) + ReserveOf(g, r, b, i)
                       /\ ReserveOf(g, p, b, i) <= ReservedIn(b, i)
      BY <1>1, <2>6, <2>7, OneGroupMoves
    <2>9. /\ \A b, i : ReserveOf(g, p, b, i) = 0 /\ ReserveOf(g, r, b, i) \in Nat
          /\ \A i : ReserveOf(g, r, c, i) = Held(sizes, at, i)
          /\ \A b, i : b # c => ReserveOf(g, r, b, i) = 0
      <3>1. \A b, i : ReserveOf(g, r, b, i) \in Nat
        BY <2>7, ReserveNat
      <3>. QED  BY <1>5, <2>5, <3>1 DEF ReserveOf
    <2>10. /\ SlotsInv'
           /\ \A b \in Clusters : \A i \in Places :
                At(slots'[b], i) = IF b = c THEN At(slots[c], i) + Held(sizes, at, i) ELSE At(slots[b], i)
      BY <1>1, <2>1, <2>2, <2>3, FilledTakes
    <2>11. (\A b, i : RunIn(b, i)' = RunIn(b, i)) /\ (\A q, i : SharedOf(q, i)' = SharedOf(q, i))
      BY <1>2, WorksKeep
    <2>12. BooksInv'
      <3>1. ASSUME NEW b \in Clusters, NEW i \in Places
            PROVE  At(slots'[b], i) = RunIn(b, i)' + ReservedIn(b, i)'
        <4>1. At(slots[b], i) = RunIn(b, i) + ReservedIn(b, i)
          BY <1>1 DEF BooksInv
        <4>2. ReservedIn(b, i) \in Nat /\ RunIn(b, i) \in Nat
          BY <1>1, HoldingsWeigh
        <4>3. ReservedIn(b, i)' = ReservedIn(b, i) + ReserveOf(g, r, b, i)
          BY <2>8, <2>9
        <4>4. At(slots'[b], i) = At(slots[b], i) + ReserveOf(g, r, b, i)
          <5>1. CASE b = c
            BY <2>9, <2>10, <5>1
          <5>2. CASE b # c
            BY <2>9, <2>10, <4>1, <4>2, <5>2
          <5>. QED  BY <5>1, <5>2
        <4>. QED  BY <2>9, <2>11, <4>1, <4>2, <4>3, <4>4
      <3>. QED  BY <3>1 DEF BooksInv
    <2>13. SharesInv'
      <3>1. \A w \in AllWorks : InItsGroup(w, work[w])
        BY <1>1 DEF SharesInv
      <3>2. \A w \in AllWorks : InItsGroup(w, work[w])'
        BY <1>2, <2>5, <2>8, <3>1 DEF InItsGroup
      <3>3. \A q \in AllGroups : group'[q].used = group[q].used
        BY <2>5, <2>8
      <3>. QED  BY <1>1, <2>11, <3>2, <3>3 DEF SharesInv
    <2>. QED  BY <1>3, <2>8, <2>10, <2>12, <2>13 DEF RayInv
  <1>. QED  BY <1>4, <1>5 DEF TryGroup

\* A workload that starts on slots of its own.
LEMMA StartNormalStays ==
  ASSUME RayInv, NEW w \in AllWorks, StartNormal(w)
  PROVE  RayInv'
  <1> DEFINE c == WorkCandidate(w, Min(WorkCandidates(w)))
             p == work[w]
             sizes == Sizes(w)
  <1>1. WorksInv /\ GroupsInv /\ SharesInv /\ SlotsInv /\ BooksInv /\ LoopInv /\ ClustersInv
    BY DEF RayInv
  <1>2. UNCHANGED <<cl, group, pendingFor, idleFor, stage, forgotten>> /\ p.state \in {"QUEUED", "BLOCKED"}
    BY DEF StartNormal, Looked, Pending
  <1>3. c \in Clusters
    <2>1. WorkCandidates(w) \in SUBSET Nat /\ WorkCandidates(w) # {}
      BY DEF StartNormal, WorkCandidates
    <2>2. Min(WorkCandidates(w)) \in WorkCandidates(w)
      BY <2>1, LeastNat
    <2>3. Min(WorkCandidates(w)) \in 0 .. Len(Work[w].spill)
      BY <2>2 DEF WorkCandidates
    <2>. QED  BY <2>3, WorkFacts DEF WorkCandidate
  <1>4. PICK at \in NormalPlacements(w, c) : slots' = Filled(c, sizes, at) /\ Runs(w, c, at, "normal")
    BY DEF StartNormal
  <1> DEFINE r == [state |-> "RUNNING", on |-> c, at |-> at, via |-> "normal",
                   attempt |-> p.attempt + 1, left |-> Work[w].duration]
  <1>5. OneMoves(w, r)
    BY <1>4 DEF Runs, OneMoves
  <1>6. slots' = Filled(c, sizes, at) /\ sizes \in Seq(Nat) /\ Len(sizes) = Work[w].replicas
    BY <1>4, WorkFacts
  <1>7. at \in Placements(c, sizes, "PACK")
    BY <1>4 DEF NormalPlacements
  <1> HIDE DEF c
  <1>8. /\ at \in Seq(Places) /\ Len(at) = Len(sizes) /\ \A k \in DOMAIN at : at[k] \in DOMAIN slots[c]
        /\ \A i \in DOMAIN slots[c] : slots[c][i] + Held(sizes, at, i) <= SlotSize(i)
    BY <1>1, <1>3, <1>6, <1>7, PlacementFits
  <1>9. /\ SlotsInv'
        /\ \A b \in Clusters : \A i \in Places :
             At(slots'[b], i) = IF b = c THEN At(slots[c], i) + Held(sizes, at, i) ELSE At(slots[b], i)
    BY <1>1, <1>3, <1>6, <1>8, FilledTakes
  <1>10. WorkInv(w, p) /\ p \in WorkRecords
    BY <1>1 DEF WorksInv, WorkInv
  <1>11. WorkInv(w, r)
    <2>1. p.attempt \in Nat /\ p.attempt <= Work[w].retries /\ Work[w].retries \in Nat
          /\ Work[w].duration \in Nat /\ Work[w].replicas \in Nat
      BY <1>2, <1>10, WorkFacts DEF WorkInv, WorkRecords
    <2>2. r \in WorkRecords
      BY <1>3, <1>8, <2>1 DEF WorkRecords
    <2>3. r.attempt <= Work[w].retries + 1 /\ Len(r.at) <= Work[w].replicas
      BY <1>6, <1>8, <2>1
    <2>. QED  BY <1>3, <2>2, <2>3 DEF WorkInv
  <1>12. /\ \A b, q, i : PartOf(w, p, b, i) = 0 /\ ShareOf(w, p, q, i) = 0
         /\ \A q, i : ShareOf(w, r, q, i) = 0
         /\ \A i : PartOf(w, r, c, i) = Held(sizes, at, i)
         /\ \A b, i : b # c => PartOf(w, r, b, i) = 0
    BY <1>2 DEF PartOf, ShareOf
  <1>13. r.via = "normal"
    OBVIOUS
  <1> HIDE DEF r
  <1>14. \A b, i : PartOf(w, r, b, i) \in Nat
    BY <1>11, PartNat
  <1>15. /\ WorksInv'
         /\ \A b, i : /\ RunIn(b, i) \in Nat /\ RunIn(b, i)' \in Nat
                      /\ RunIn(b, i)' + PartOf(w, p, b, i) = RunIn(b, i) + PartOf(w, r, b, i)
                      /\ PartOf(w, p, b, i) <= RunIn(b, i)
         /\ \A q, i : /\ SharedOf(q, i) \in Nat /\ SharedOf(q, i)' \in Nat
                      /\ SharedOf(q, i)' + ShareOf(w, p, q, i) = SharedOf(q, i) + ShareOf(w, r, q, i)
                      /\ ShareOf(w, p, q, i) <= SharedOf(q, i)
    BY <1>1, <1>5, <1>11, OneWorkMoves
  <1>16. /\ \A b, i : RunIn(b, i)' = RunIn(b, i) + PartOf(w, r, b, i)
         /\ \A q, i : SharedOf(q, i)' = SharedOf(q, i)
    BY <1>12, <1>14, <1>15
  <1>17. \A b, i : ReservedIn(b, i)' = ReservedIn(b, i)
    BY <1>1, <1>2, GroupsKeep
  <1>18. BooksInv'
    <2>1. ASSUME NEW b \in Clusters, NEW i \in Places
          PROVE  At(slots'[b], i) = RunIn(b, i)' + ReservedIn(b, i)'
      <3>1. At(slots[b], i) = RunIn(b, i) + ReservedIn(b, i)
        BY <1>1 DEF BooksInv
      <3>2. ReservedIn(b, i) \in Nat /\ RunIn(b, i) \in Nat
        BY <1>1, HoldingsWeigh
      <3>3. At(slots'[b], i) = At(slots[b], i) + PartOf(w, r, b, i)
        <4>1. CASE b = c
          BY <1>9, <1>12, <4>1
        <4>2. CASE b # c
          BY <1>9, <1>12, <3>1, <3>2, <4>2
        <4>. QED  BY <4>1, <4>2
      <3>. QED  BY <1>14, <1>16, <1>17, <3>1, <3>2, <3>3
    <2>. QED  BY <2>1 DEF BooksInv
  <1>19. SharesInv'
    <2>1. \A v \in AllWorks : v # w => work'[v] = work[v]
      BY <1>1, <1>5 DEF OneMoves, WorksInv
    <2>2. work'[w] = r
      BY <1>1, <1>5 DEF OneMoves, WorksInv
    <2>3. \A v \in AllWorks : InItsGroup(v, work[v])
      BY <1>1 DEF SharesInv
    <2>4. \A v \in AllWorks : InItsGroup(v, work[v])'
      BY <1>2, <1>13, <2>1, <2>2, <2>3 DEF InItsGroup
    <2>. QED  BY <1>1, <1>2, <1>16, <2>4 DEF SharesInv
  <1>20. GroupsInv' /\ LoopInv' /\ ClustersInv'
    BY <1>1, <1>2, LoopSame, ClustersSame DEF GroupsInv
  <1>. QED  BY <1>9, <1>15, <1>18, <1>19, <1>20 DEF RayInv

\* A workload that starts in the bundles of its group.
LEMMA StartInGroupStays ==
  ASSUME RayInv, NEW w \in AllWorks, StartInGroup(w)
  PROVE  RayInv'
  <1> DEFINE g == Work[w].group
             n == Work[w].replicas
             p == work[w]
             a == SubSeq(group[g].at, 1, n)
             u == group[g].used
             d == [i \in DOMAIN u |-> IF i <= n THEN u[i] + Work[w].need ELSE u[i]]
             r == [state |-> "RUNNING", on |-> Group[g].cluster, at |-> a, via |-> "group",
                   attempt |-> p.attempt + 1, left |-> Work[w].duration]
             q0 == [group[g] EXCEPT !.used = d]
  <1>1. WorksInv /\ GroupsInv /\ SharesInv /\ SlotsInv /\ BooksInv /\ LoopInv /\ ClustersInv
    BY DEF RayInv
  <1>2. /\ UNCHANGED <<cl, slots, pendingFor, idleFor, stage, forgotten>>
        /\ p.state \in {"QUEUED", "BLOCKED"} /\ g # NoGroup /\ group[g].state = "PLACED"
        /\ n <= Len(Group[g].bundles)
        /\ \A i \in 1 .. n : u[i] + Work[w].need <= Group[g].bundles[i]
    BY DEF StartInGroup, Looked, Pending, GroupPlaced, InGroupFits
  <1>3. /\ g \in AllGroups /\ n \in Nat /\ Group[g].cluster \in Clusters /\ Group[g].bundles \in Seq(Nat)
        /\ Work[w].need \in Nat /\ Work[w].retries \in Nat /\ Work[w].duration \in Nat
    BY <1>2, WorkFacts
  <1>4. /\ GroupInv(g, group[g]) /\ group[g] \in GroupRecords
        /\ group[g].at \in Seq(Places) /\ Len(group[g].at) = Len(Group[g].bundles)
        /\ u \in Seq(Nat) /\ Len(u) = Len(Group[g].bundles)
    BY <1>1, <1>2, <1>3 DEF GroupsInv, GroupInv, GroupRecords
  <1>5. OneMoves(w, r)
    BY DEF StartInGroup, Runs, OneMoves
  <1>6. group' = [group EXCEPT ![g] = q0]
    BY <1>1, <1>3 DEF StartInGroup, GroupsInv, GroupRecords
  <1>7. a \in Seq(Places) /\ Len(a) = n
    <2>1. \A s \in Seq(Places) : \A m \in Nat : m <= Len(s) =>
             SubSeq(s, 1, m) \in Seq(Places) /\ Len(SubSeq(s, 1, m)) = m
      OBVIOUS
    <2>2. n <= Len(group[g].at)
      BY <1>2, <1>4
    <2>. QED  BY <1>3, <1>4, <2>1, <2>2
  <1>8. WorkInv(w, p) /\ p \in WorkRecords
    BY <1>1 DEF WorksInv, WorkInv
  <1> HIDE DEF a, u
  <1>9. WorkInv(w, r)
    <2>1. p.attempt \in Nat /\ p.attempt <= Work[w].retries
      BY <1>2, <1>8 DEF WorkInv, WorkRecords
    <2>2. r \in WorkRecords
      BY <1>3, <1>7, <2>1 DEF WorkRecords
    <2>3. r.attempt <= Work[w].retries + 1 /\ Len(r.at) <= n
      BY <1>3, <1>7, <2>1
    <2>. QED  BY <2>2, <2>3 DEF WorkInv
  <1>10. /\ \A b, q, i : PartOf(w, p, b, i) = 0 /\ ShareOf(w, p, q, i) = 0
         /\ \A b, i : PartOf(w, r, b, i) = 0
         /\ \A i : ShareOf(w, r, g, i) = IF i <= n THEN Work[w].need ELSE 0
         /\ \A q, i : q # g => ShareOf(w, r, q, i) = 0
    BY <1>2 DEF PartOf, ShareOf
  <1> HIDE DEF r
  <1>11. \A q, i : ShareOf(w, r, q, i) \in Nat
    BY <1>9, PartNat
  <1>12. /\ WorksInv'
         /\ \A b, i : /\ RunIn(b, i) \in Nat /\ RunIn(b, i)' \in Nat
                      /\ RunIn(b, i)' + PartOf(w, p, b, i) = RunIn(b, i) + PartOf(w, r, b, i)
                      /\ PartOf(w, p, b, i) <= RunIn(b, i)
         /\ \A q, i : /\ SharedOf(q, i) \in Nat /\ SharedOf(q, i)' \in Nat
                      /\ SharedOf(q, i)' + ShareOf(w, p, q, i) = SharedOf(q, i) + ShareOf(w, r, q, i)
                      /\ ShareOf(w, p, q, i) <= SharedOf(q, i)
    BY <1>1, <1>5, <1>9, OneWorkMoves
  <1>13. /\ \A b, i : RunIn(b, i)' = RunIn(b, i)
         /\ \A q, i : SharedOf(q, i)' = SharedOf(q, i) + ShareOf(w, r, q, i)
    BY <1>10, <1>11, <1>12
  <1>14. DOMAIN u = 1 .. Len(u) /\ Len(u) \in Nat /\ \A i \in DOMAIN u : u[i] \in Nat
    BY <1>4
  <1>15. \A i \in DOMAIN u : /\ d[i] = u[i] + ShareOf(w, r, g, i)
                             /\ d[i] \in Nat /\ d[i] <= Group[g].bundles[i]
    <2>1. ASSUME NEW i \in DOMAIN u
          PROVE  /\ d[i] = u[i] + ShareOf(w, r, g, i)
                 /\ d[i] \in Nat /\ d[i] <= Group[g].bundles[i]
      <3>1. u[i] \in Nat /\ i \in Nat /\ i >= 1
        BY <1>14
      <3>2. u[i] <= Group[g].bundles[i]
        BY <1>4 DEF GroupInv, u
      <3>3. CASE i <= n
        <4>1. i \in 1 .. n
          BY <1>3, <3>1, <3>3
        <4>2. d[i] = u[i] + Work[w].need /\ ShareOf(w, r, g, i) = Work[w].need
          BY <1>10, <3>3
        <4>3. u[i] + Work[w].need <= Group[g].bundles[i]
          BY <1>2, <4>1 DEF u
        <4>. QED  BY <1>3, <3>1, <4>2, <4>3
      <3>4. CASE ~(i <= n)
        <4>1. d[i] = u[i] /\ ShareOf(w, r, g, i) = 0
          BY <1>10, <3>4
        <4>. QED  BY <3>1, <3>2, <4>1
      <3>. QED  BY <3>3, <3>4
    <2>. QED  BY <2>1
  <1>16. d \in Seq(Nat) /\ Len(d) = Len(u) /\ DOMAIN d = DOMAIN u
    <2>1. d \in [1 .. Len(u) -> Nat]
      BY <1>14, <1>15
    <2>. QED  BY <1>14, <2>1, IsSeq
  <1> HIDE DEF d
  <1>17. q0 \in GroupRecords /\ q0.state = "PLACED" /\ q0.at = group[g].at /\ q0.used = d
    BY <1>2, <1>4, <1>16 DEF GroupRecords
  <1> HIDE DEF q0
  <1>18. GroupInv(g, q0)
    BY <1>2, <1>4, <1>15, <1>16, <1>17 DEF GroupInv
  <1>19. GroupsInv' /\ group'[g] = q0 /\ \A q \in AllGroups : q # g => group'[q] = group[q]
    BY <1>1, <1>3, <1>6, <1>18, OneGroupMoves
  <1>20. \A b, i : ReservedIn(b, i)' = ReservedIn(b, i)
    <2>1. \A q \in AllGroups : \A b, i : ReserveOf(q, group'[q], b, i) = ReserveOf(q, group[q], b, i)
      BY <1>2, <1>17, <1>19 DEF ReserveOf
    <2>. QED  BY <1>1, <2>1, GroupsKeep
  <1>21. SlotsInv' /\ BooksInv'
    <2>1. SlotsInv' /\ \A b \in Clusters : \A i \in Places : At(slots'[b], i) = At(slots[b], i)
      BY <1>1, <1>2 DEF SlotsInv
    <2>. QED  BY <1>1, <1>13, <1>20, <2>1, BooksFollow
  <1>22. SharesInv'
    <2>1. \A v \in AllWorks : v # w => work'[v] = work[v]
      BY <1>1, <1>5 DEF OneMoves, WorksInv
    <2>2. \A v \in AllWorks : InItsGroup(v, work[v])
      BY <1>1 DEF SharesInv
    <2>3. ASSUME NEW v \in AllWorks
          PROVE  InItsGroup(v, work[v])'
      <3>1. CASE v = w
        BY <1>2, <1>3, <1>17, <1>19, <3>1 DEF InItsGroup
      <3>2. CASE v # w
        BY <1>2, <1>17, <1>19, <2>1, <2>2, <3>2 DEF InItsGroup
      <3>. QED  BY <3>1, <3>2
    <2>4. ASSUME NEW q \in AllGroups, NEW i \in DOMAIN group'[q].used
          PROVE  group'[q].used[i] = SharedOf(q, i)'
      <3>1. CASE q = g
        <4>1. i \in DOMAIN u /\ group'[g].used[i] = d[i]
          BY <1>16, <1>17, <1>19, <2>4, <3>1
        <4>2. u[i] = SharedOf(g, i)
          BY <1>1, <1>3, <4>1 DEF SharesInv, u
        <4>. QED  BY <1>13, <1>15, <3>1, <4>1, <4>2
      <3>2. CASE q # g
        <4>1. group'[q].used = group[q].used
          BY <1>19, <3>2
        <4>2. group[q].used[i] = SharedOf(q, i)
          BY <1>1, <2>4, <4>1 DEF SharesInv
        <4>3. SharedOf(q, i) \in Nat
          BY <1>12
        <4>. QED  BY <1>10, <1>13, <3>2, <4>1, <4>2, <4>3
      <3>. QED  BY <3>1, <3>2
    <2>. QED  BY <2>3, <2>4 DEF SharesInv
  <1>23. LoopInv' /\ ClustersInv'
    BY <1>1, <1>2, LoopSame, ClustersSame
  <1>. QED  BY <1>12, <1>19, <1>21, <1>22, <1>23 DEF RayInv

\* What the running workloads of a set free of a slot, or use of a bundle, is what they hold.
LEMMA FreedParts ==
  ASSUME WorksInv, NEW S \in SUBSET AllWorks, \A w \in S : work[w].state = "RUNNING", NEW c, NEW i
  PROVE  FreedBy(S, c, i) = Total([w \in AllWorks |-> PartOf(w, work[w], c, i)], S)
  <1> DEFINE f == [w \in AllWorks |-> PartOf(w, work[w], c, i)]
             h == [w \in AllWorks |-> Held(Sizes(w), work[w].at, i)]
             T == {w \in S : work[w].on = c /\ work[w].via = "normal"}
  <1>1. \A w \in AllWorks : f[w] \in Nat /\ h[w] \in Nat
    BY PartNat DEF WorksInv
  <1>2. (\A w \in T : f[w] = h[w]) /\ (\A w \in S \ T : f[w] = 0)
    BY DEF PartOf
  <1>3. FreedBy(S, c, i) = Total(h, T)
    BY DEF FreedBy
  <1>4. T \in SUBSET S
    OBVIOUS
  <1> HIDE DEF f, h, T
  <1>5. IsFiniteSet(S) /\ IsFiniteSet(T)
    BY <1>4, WorkFacts, FS_Subset
  <1>6. Weighs(f, S) /\ Weighs(h, T)
    BY <1>1, <1>4, <1>5 DEF Weighs
  <1>7. Total(f, T) = Total(f, S)
    BY <1>2, <1>4, <1>6, TotalWithout
  <1>8. Total(f, T) = Total(h, T)
    BY <1>2, <1>6, TotalSame
  <1>. QED  BY <1>3, <1>7, <1>8 DEF f
\* What a set of running workloads uses of a bundle is their part of what is used of it.
LEMMA UsedParts ==
  ASSUME WorksInv, NEW S \in SUBSET AllWorks, \A w \in S : work[w].state = "RUNNING", NEW g, NEW i
  PROVE  UsedBy(S, g, i) = Total([w \in AllWorks |-> ShareOf(w, work[w], g, i)], S)
  <1> DEFINE f == [w \in AllWorks |-> ShareOf(w, work[w], g, i)]
             h == [w \in AllWorks |-> Work[w].need]
             T == {w \in S : work[w].via = "group" /\ Work[w].group = g /\ i <= Work[w].replicas}
  <1>1. \A w \in AllWorks : f[w] \in Nat /\ h[w] \in Nat
    BY PartNat, WorkFacts DEF WorksInv
  <1>2. (\A w \in T : f[w] = h[w]) /\ (\A w \in S \ T : f[w] = 0)
    BY DEF ShareOf
  <1>3. UsedBy(S, g, i) = Total(h, T)
    BY DEF UsedBy
  <1>4. T \in SUBSET S
    OBVIOUS
  <1> HIDE DEF f, h, T
  <1>5. IsFiniteSet(S) /\ IsFiniteSet(T)
    BY <1>4, WorkFacts, FS_Subset
  <1>6. Weighs(f, S) /\ Weighs(h, T)
    BY <1>1, <1>4, <1>5 DEF Weighs
  <1>7. Total(f, T) = Total(f, S)
    BY <1>2, <1>4, <1>6, TotalWithout
  <1>8. Total(f, T) = Total(h, T)
    BY <1>2, <1>6, TotalSame
  <1>. QED  BY <1>3, <1>7, <1>8 DEF f

\* The workloads that have come to their end give back what they hold, all at once.
LEMMA ProgressStays == RayInv /\ Progress => RayInv'
  <1> SUFFICES ASSUME RayInv, Progress
               PROVE  RayInv'
    OBVIOUS
  <1> DEFINE F == Finished
             part(c, i) == [w \in AllWorks |-> PartOf(w, work[w], c, i)]
             share(g, i) == [w \in AllWorks |-> ShareOf(w, work[w], g, i)]
  <1>1. WorksInv /\ GroupsInv /\ SharesInv /\ SlotsInv /\ BooksInv /\ LoopInv /\ ClustersInv
    BY DEF RayInv
  <1>2. UNCHANGED <<cl, pendingFor, idleFor, forgotten>> /\ stage' \in Stages
    BY DEF Progress, Stages
  <1>3. F \in SUBSET AllWorks /\ \A w \in F : work[w].state = "RUNNING"
    BY DEF Finished
  <1>4. \A w \in AllWorks : WorkInv(w, work[w]) /\ work[w] \in WorkRecords
    BY <1>1 DEF WorksInv, WorkInv
  <1>5. ASSUME NEW w \in F
        PROVE  work'[w] = [work[w] EXCEPT !.state = "SUCCEEDED", !.at = <<>>, !.via = "none"]
    BY <1>3, <1>5 DEF Progress, EndedAs
  <1>6. ASSUME NEW w \in AllWorks \ F
        PROVE  work'[w] = IF work[w].state = "RUNNING" THEN [work[w] EXCEPT !.left = work[w].left - 1] ELSE work[w]
    BY <1>4, <1>6 DEF Progress, WorkRecords
  <1>7. ASSUME NEW w \in F
        PROVE  /\ WorkInv(w, work'[w]) /\ work'[w].state = "SUCCEEDED" /\ work'[w].via = "none"
    <2>1. w \in AllWorks
      BY <1>3
    <2> DEFINE r == work'[w]
               p == work[w]
    <2>2. p \in WorkRecords /\ WorkInv(w, p) /\ r = [p EXCEPT !.state = "SUCCEEDED", !.at = <<>>, !.via = "none"]
      BY <1>4, <1>5, <2>1
    <2>3. <<>> \in Seq(Places) /\ Len(<<>>) = 0 /\ 0 <= Work[w].replicas
      BY <2>1, WorkFacts
    <2> HIDE DEF r, p
    <2>4. /\ r \in WorkRecords /\ r.state = "SUCCEEDED" /\ r.via = "none" /\ r.attempt = p.attempt /\ r.at = <<>>
      BY <2>2, <2>3 DEF WorkRecords
    <2>5. WorkInv(w, r)
      BY <2>2, <2>3, <2>4 DEF WorkInv
    <2>. QED  BY <2>4, <2>5 DEF r
  <1>8. ASSUME NEW w \in AllWorks \ F
        PROVE  /\ WorkInv(w, work'[w]) /\ work'[w].state = work[w].state /\ work'[w].via = work[w].via
               /\ work'[w].on = work[w].on /\ work'[w].at = work[w].at
    <2> DEFINE r == work'[w]
               p == work[w]
    <2>1. p \in WorkRecords /\ WorkInv(w, p)
      BY <1>4
    <2>2. CASE p.state = "RUNNING"
      <3>1. r = [p EXCEPT !.left = p.left - 1]
        BY <1>6, <2>2
      <3>2. ~(p.left <= 1) /\ p.left \in Nat
        BY <2>1, <2>2 DEF Finished, WorkRecords
      <3>3. p.left - 1 \in Nat
        BY <3>2
      <3> HIDE DEF r, p
      <3>4. /\ r \in WorkRecords /\ r.state = p.state /\ r.via = p.via /\ r.attempt = p.attempt
            /\ r.at = p.at /\ r.on = p.on
        BY <2>1, <3>1, <3>3 DEF WorkRecords
      <3>5. WorkInv(w, r)
        BY <2>1, <3>4 DEF WorkInv
      <3>. QED  BY <3>4, <3>5 DEF r, p
    <2>3. CASE p.state # "RUNNING"
      BY <1>6, <2>1, <2>3
    <2>. QED  BY <2>2, <2>3
  <1>9. WorksInv'
    <2>1. \A w \in AllWorks : WorkInv(w, work'[w])
      BY <1>7, <1>8
    <2>2. work' = [w \in AllWorks |-> work'[w]]
      BY DEF Progress
    <2>3. \A w \in AllWorks : work'[w] \in WorkRecords
      BY <2>1 DEF WorkInv
    <2>. QED  BY <2>1, <2>2, <2>3 DEF WorksInv
  <1>10. ASSUME NEW c, NEW i
         PROVE  /\ RunIn(c, i) \in Nat /\ RunIn(c, i)' \in Nat /\ FreedBy(F, c, i) \in Nat
                /\ RunIn(c, i)' + FreedBy(F, c, i) = RunIn(c, i)
    <2> DEFINE f == part(c, i)
               h == [w \in AllWorks |-> PartOf(w, work'[w], c, i)]
    <2>1. Weighs(f, AllWorks)
      BY <1>1, HoldingsWeigh
    <2>2. (\A w \in F : h[w] = 0) /\ (\A w \in AllWorks \ F : h[w] = f[w])
      BY <1>3, <1>7, <1>8 DEF PartOf
    <2>3. FreedBy(F, c, i) = Total(f, F)
      BY <1>1, <1>3, FreedParts
    <2>4. RunIn(c, i) = Total(f, AllWorks) /\ RunIn(c, i)' = Total(h, AllWorks)
      BY DEF RunIn
    <2> HIDE DEF f, h
    <2>5. SomeLeave(f, h, AllWorks, F)
      BY <1>3, <2>1, <2>2 DEF SomeLeave
    <2>6. /\ Total(f, AllWorks) \in Nat /\ Total(h, AllWorks) \in Nat /\ Total(f, F) \in Nat
          /\ Total(h, AllWorks) + Total(f, F) = Total(f, AllWorks)
      BY <2>5, TotalParted
    <2>. QED  BY <2>3, <2>4, <2>6
  <1>11. ASSUME NEW g, NEW i
         PROVE  /\ SharedOf(g, i) \in Nat /\ SharedOf(g, i)' \in Nat /\ UsedBy(F, g, i) \in Nat
                /\ SharedOf(g, i)' + UsedBy(F, g, i) = SharedOf(g, i)
    <2> DEFINE f == share(g, i)
               h == [w \in AllWorks |-> ShareOf(w, work'[w], g, i)]
    <2>1. Weighs(f, AllWorks)
      BY <1>1, HoldingsWeigh
    <2>2. (\A w \in F : h[w] = 0) /\ (\A w \in AllWorks \ F : h[w] = f[w])
      BY <1>3, <1>7, <1>8 DEF ShareOf
    <2>3. UsedBy(F, g, i) = Total(f, F)
      BY <1>1, <1>3, UsedParts
    <2>4. SharedOf(g, i) = Total(f, AllWorks) /\ SharedOf(g, i)' = Total(h, AllWorks)
      BY DEF SharedOf
    <2> HIDE DEF f, h
    <2>5. SomeLeave(f, h, AllWorks, F)
      BY <1>3, <2>1, <2>2 DEF SomeLeave
    <2>6. /\ Total(f, AllWorks) \in Nat /\ Total(h, AllWorks) \in Nat /\ Total(f, F) \in Nat
          /\ Total(h, AllWorks) + Total(f, F) = Total(f, AllWorks)
      BY <2>5, TotalParted
    <2>. QED  BY <2>3, <2>4, <2>6
  <1>12. /\ SlotsInv'
         /\ \A c \in Clusters : \A i \in Places : At(slots'[c], i) = At(slots[c], i) - FreedBy(F, c, i)
    <2> DEFINE d == [c \in Clusters |-> [i \in Places |-> FreedBy(F, c, i)]]
    <2>1. d \in [Clusters -> [Places -> Nat]] /\ \A c \in Clusters : \A i \in Places : d[c][i] = FreedBy(F, c, i)
      BY <1>10
    <2>2. slots' = [c \in Clusters |-> [i \in DOMAIN slots[c] |-> slots[c][i] - d[c][i]]]
      <3>1. \A c \in Clusters : \A i \in DOMAIN slots[c] : i \in Places
        BY <1>1 DEF SlotsInv, Places
      <3>2. slots' = [c \in Clusters |-> [i \in DOMAIN slots[c] |-> slots[c][i] - FreedBy(F, c, i)]]
        BY DEF Progress
      <3>. QED  BY <3>1, <3>2
    <2> HIDE DEF d
    <2>3. \A c \in Clusters : \A i \in Places : d[c][i] <= At(slots[c], i)
      <3>1. ASSUME NEW c \in Clusters, NEW i \in Places
            PROVE  d[c][i] <= At(slots[c], i)
        <4>1. At(slots[c], i) = RunIn(c, i) + ReservedIn(c, i)
          BY <1>1 DEF BooksInv
        <4>2. ReservedIn(c, i) \in Nat
          BY <1>1, HoldingsWeigh
        <4>3. d[c][i] = FreedBy(F, c, i)
          BY <2>1
        <4>. QED  BY <1>10, <4>1, <4>2, <4>3
      <3>. QED  BY <3>1
    <2>4. /\ SlotsInv'
          /\ \A c \in Clusters : \A i \in Places : At(slots'[c], i) = At(slots[c], i) - d[c][i]
      BY <1>1, <2>1, <2>2, <2>3, SlotsGiveAll
    <2>. QED  BY <2>1, <2>4
  <1>13. ASSUME NEW g \in AllGroups
         PROVE  /\ GroupInv(g, group'[g]) /\ group'[g] \in GroupRecords
                /\ group'[g].state = group[g].state /\ group'[g].at = group[g].at
                /\ DOMAIN group'[g].used = DOMAIN group[g].used
                /\ \A i \in DOMAIN group[g].used : group'[g].used[i] = group[g].used[i] - UsedBy(F, g, i)
    <2> DEFINE u == group[g].used
               d == [i \in DOMAIN u |-> UsedBy(F, g, i)]
               t == [i \in DOMAIN u |-> u[i] - UsedBy(F, g, i)]
    <2>1. GroupInv(g, group[g]) /\ group[g] \in GroupRecords /\ u \in Seq(Nat)
      BY <1>1 DEF GroupsInv, GroupInv, GroupRecords
    <2>2. group'[g] = [group[g] EXCEPT !.used = t]
      BY <2>1 DEF Progress, GroupRecords
    <2>3. \A i \in DOMAIN u : d[i] = UsedBy(F, g, i) /\ d[i] \in Nat /\ d[i] <= u[i]
      <3>1. ASSUME NEW i \in DOMAIN u
            PROVE  d[i] = UsedBy(F, g, i) /\ d[i] \in Nat /\ d[i] <= u[i]
        <4>1. u[i] = SharedOf(g, i)
          BY <1>1 DEF SharesInv
        <4>2. d[i] = UsedBy(F, g, i)
          OBVIOUS
        <4> HIDE DEF u, d
        <4>. QED  BY <1>11, <4>1, <4>2
      <3>. QED  BY <3>1
    <2>4. t = [i \in DOMAIN u |-> u[i] - d[i]]
      OBVIOUS
    <2> HIDE DEF d, t
    <2>5. /\ t \in Seq(Nat) /\ Len(t) = Len(u) /\ DOMAIN t = DOMAIN u
          /\ \A i \in DOMAIN u : t[i] = u[i] - d[i] /\ t[i] <= u[i]
      <3>1. u \in Seq(Nat) /\ \A i \in DOMAIN u : d[i] \in Nat /\ d[i] <= u[i]
        BY <2>1, <2>3
      <3> HIDE DEF u
      <3>. QED  BY <2>4, <3>1, SeqGives
    <2> DEFINE r == group'[g]
    <2>6. r \in GroupRecords /\ r.state = group[g].state /\ r.at = group[g].at /\ r.used = t
      BY <2>1, <2>2, <2>5 DEF GroupRecords
    <2>7. \A i \in DOMAIN t : t[i] <= Group[g].bundles[i]
      <3>1. ASSUME NEW i \in DOMAIN t
            PROVE  t[i] <= Group[g].bundles[i]
        <4>1. i \in DOMAIN u /\ t[i] \in Nat /\ u[i] \in Nat /\ t[i] <= u[i] /\ u[i] <= Group[g].bundles[i]
          BY <2>1, <2>5 DEF GroupInv
        <4>2. Group[g].bundles[i] \in Nat
          <5>1. Group[g].bundles \in Seq(Nat)
            BY WorkFacts
          <5>2. i \in 1 .. Len(u) /\ Len(u) \in Nat
            BY <2>1, <2>5
          <5>3. Len(u) \in {0, Len(Group[g].bundles)}
            BY <2>1 DEF GroupInv
          <5>4. Len(u) = Len(Group[g].bundles)
            BY <5>2, <5>3
          <5>. QED  BY <5>1, <5>2, <5>4
        <4>. QED  BY <4>1, <4>2
      <3>. QED  BY <3>1
    <2> HIDE DEF r
    <2>8. GroupInv(g, r)
      BY <2>1, <2>5, <2>6, <2>7 DEF GroupInv
    <2>. QED  BY <2>3, <2>5, <2>6, <2>8 DEF r
  <1>14. GroupsInv'
    <2>1. group' = [g \in AllGroups |-> group'[g]]
      BY DEF Progress
    <2>2. \A g \in AllGroups : GroupInv(g, group'[g]) /\ group'[g] \in GroupRecords
      BY <1>13
    <2>. QED  BY <2>1, <2>2 DEF GroupsInv
  <1>15. \A c, i : ReservedIn(c, i)' = ReservedIn(c, i)
    <2>1. \A g \in AllGroups : \A c, i : ReserveOf(g, group'[g], c, i) = ReserveOf(g, group[g], c, i)
      BY <1>13 DEF ReserveOf
    <2>. QED  BY <1>1, <2>1, GroupsKeep
  <1>16. BooksInv'
    <2>1. ASSUME NEW c \in Clusters, NEW i \in Places
          PROVE  At(slots'[c], i) = RunIn(c, i)' + ReservedIn(c, i)'
      <3>1. At(slots[c], i) = RunIn(c, i) + ReservedIn(c, i)
        BY <1>1 DEF BooksInv
      <3>2. ReservedIn(c, i) \in Nat
        BY <1>1, HoldingsWeigh
      <3>3. At(slots'[c], i) = At(slots[c], i) - FreedBy(F, c, i)
        BY <1>12
      <3>. QED  BY <1>10, <1>15, <3>1, <3>2, <3>3
    <2>. QED  BY <2>1 DEF BooksInv
  <1>17. SharesInv'
    <2>1. \A w \in AllWorks : InItsGroup(w, work[w])
      BY <1>1 DEF SharesInv
    <2>2. ASSUME NEW w \in AllWorks
          PROVE  InItsGroup(w, work[w])'
      <3>1. CASE w \in F
        BY <1>7, <3>1 DEF InItsGroup
      <3>2. CASE w \notin F
        <4>1. work'[w].via = work[w].via
          BY <1>8, <3>2
        <4>. QED  BY <1>13, <2>1, <4>1 DEF InItsGroup
      <3>. QED  BY <3>1, <3>2
    <2>3. ASSUME NEW g \in AllGroups, NEW i \in DOMAIN group'[g].used
          PROVE  group'[g].used[i] = SharedOf(g, i)'
      <3>1. i \in DOMAIN group[g].used /\ group'[g].used[i] = group[g].used[i] - UsedBy(F, g, i)
        BY <1>13
      <3>2. group[g].used[i] = SharedOf(g, i)
        BY <1>1, <3>1 DEF SharesInv
      <3>. QED  BY <1>11, <3>1, <3>2
    <2>. QED  BY <2>2, <2>3 DEF SharesInv
  <1>18. LoopInv' /\ ClustersInv'
    BY <1>1, <1>2, ClustersSame DEF LoopInv
  <1>. QED  BY <1>9, <1>12, <1>14, <1>16, <1>17, <1>18 DEF RayInv

\* A worker that fails takes only slots away that hold nothing.
LEMMA FailedWorkerStays == RayInv /\ WorkerFails => RayInv'
  <1> SUFFICES ASSUME RayInv, WorkerFails
               PROVE  RayInv'
    OBVIOUS
  <1> DEFINE c == Autoscaled
             r == WorkerLost(cl[c])
             s == slots[c]
             busy == {i \in DOMAIN s : i > r.registered + 1 /\ s[i] > 0}
             kept == IF busy = {} THEN r.registered + 1 ELSE Max(busy)
             m == Min({kept, Len(s)})
             t == SubSeq(s, 1, m)
  <1>1. WorksInv /\ GroupsInv /\ SharesInv /\ SlotsInv /\ BooksInv /\ LoopInv /\ ClustersInv
    BY DEF RayInv
  <1>2. UNCHANGED <<work, group, pendingFor, idleFor, stage, forgotten>>
    BY DEF WorkerFails
  <1>3. ClustersInv'
    BY <1>1, FailureKeeps DEF LoopInv
  <1>4. c \in Clusters
    BY ClustersAssumption, PolicyAssumption
  <1>5. slots' = slots \/ slots' = [slots EXCEPT ![c] = t]
    BY <1>1, <1>4 DEF WorkerFails, SlotsInv
  <1>6. s \in Seq(Nat) /\ \A i \in DOMAIN s : s[i] <= SlotSize(i)
    BY <1>1, <1>4 DEF SlotsInv
  <1>7. r.registered + 1 \in Nat
    <2>1. RecordInv(c, cl[c], forgotten) /\ forgotten \in BOOLEAN /\ cl[c].registered >= 1
      BY <1>1, <1>4 DEF ClustersInv, LoopInv, WorkerFails
    <2>2. RecordInv(c, r, forgotten)
      BY <1>4, <2>1, LossKeeps
    <2> HIDE DEF r
    <2>3. r.registered \in Nat
      BY <2>2 DEF RecordInv, ClusterRecords
    <2>. QED  BY <2>3
  <1> HIDE DEF r, s
  <1>8. kept \in Nat /\ \A i \in DOMAIN s : i > kept => s[i] = 0
    BY <1>6, <1>7, NoneBeyond
  <1> HIDE DEF kept
  <1>9. m \in Nat /\ m <= Len(s) /\ (m = kept \/ m = Len(s)) /\ Len(s) \in Nat
    <2> DEFINE two == {kept, Len(s)}
    <2>1. two \in SUBSET Nat /\ two # {}
      BY <1>6, <1>8
    <2>2. Min(two) \in two /\ \A x \in two : Min(two) <= x
      BY <2>1, LeastNat
    <2>. QED  BY <1>6, <1>8, <2>2
  <1> HIDE DEF m
  <1>10. t \in Seq(Nat) /\ DOMAIN t = 1 .. m /\ \A i \in 1 .. m : t[i] = s[i] /\ i \in DOMAIN s
    BY <1>6, <1>9
  <1> HIDE DEF t
  <1>11. \A i \in Places : At(t, i) = At(s, i)
    <2>1. ASSUME NEW i \in Places
          PROVE  At(t, i) = At(s, i)
      <3>1. CASE i \in 1 .. m
        BY <1>10, <3>1 DEF At
      <3>2. CASE i \notin 1 .. m
        <4>1. At(t, i) = 0
          BY <1>10, <3>2 DEF At
        <4>2. i \in DOMAIN s => i > kept
          BY <1>6, <1>9, <3>2 DEF Places
        <4>. QED  BY <1>8, <4>1, <4>2 DEF At
      <3>. QED  BY <3>1, <3>2
    <2>. QED  BY <2>1
  <1>12. SlotsInv' /\ \A b \in Clusters : \A i \in Places : At(slots'[b], i) = At(slots[b], i)
    <2>1. CASE slots' = slots
      BY <1>1, <2>1 DEF SlotsInv
    <2>2. CASE slots' = [slots EXCEPT ![c] = t]
      <3>1. slots' \in [Clusters -> Seq(Nat)] /\ slots'[c] = t /\ \A b \in Clusters : b # c => slots'[b] = slots[b]
        BY <1>1, <1>4, <1>10, <2>2 DEF SlotsInv
      <3>2. \A i \in DOMAIN t : t[i] <= SlotSize(i)
        BY <1>6, <1>10
      <3>3. SlotsInv'
        BY <1>1, <3>1, <3>2 DEF SlotsInv
      <3>. QED  BY <1>11, <3>1, <3>3 DEF s
    <2>. QED  BY <1>5, <2>1, <2>2
  <1>13. (\A b, i : RunIn(b, i)' = RunIn(b, i)) /\ (\A g, i : SharedOf(g, i)' = SharedOf(g, i))
    BY <1>2, WorksKeep
  <1>14. \A b, i : ReservedIn(b, i)' = ReservedIn(b, i)
    BY <1>1, <1>2, GroupsKeep
  <1>15. BooksInv'
    BY <1>1, <1>12, <1>13, <1>14, BooksFollow
  <1>16. WorksInv' /\ GroupsInv' /\ SharesInv'
    BY <1>1, <1>2, <1>13 DEF WorksInv, GroupsInv, SharesInv, InItsGroup
  <1>17. LoopInv'
    BY <1>1, <1>2, LoopSame
  <1>. QED  BY <1>3, <1>12, <1>15, <1>16, <1>17 DEF RayInv

-----------------------------------------------------------------------------
(* Ray workloads: the invariant and the theorem.                             *)

\* The invariant holds at first.
LEMMA RayStarts == RayInit => RayInv
  <1> SUFFICES ASSUME RayInit
               PROVE  RayInv
    OBVIOUS
  <1>1. ClustersInv
    <2>1. \A c \in Clusters : cl[c] = Unknown
      BY DEF RayInit, ClustersInit
    <2>2. Unknown \in ClusterRecords
      <3>1. <<>> \in Seq(ScaleRecords)
        OBVIOUS
      <3>. QED  BY <3>1 DEF Unknown, ClusterRecords, Lives
    <2>3. /\ Unknown.life = "UNKNOWN" /\ Unknown.request = "none" /\ Unknown.allocation = FALSE
          /\ Unknown.started = 0 /\ Unknown.registered = 0 /\ Unknown.allocated = 0
          /\ Unknown.reuse = 0 /\ Unknown.scales = <<>>
      BY DEF Unknown
    <2> DEFINE u == Unknown
    <2> HIDE DEF u
    <2>4. \A c \in Clusters : \A excused : RecordInv(c, Unknown, excused)
      <3>1. ASSUME NEW c \in Clusters, NEW excused
            PROVE  RecordInv(c, Unknown, excused)
        <4>1. MaxWorkers[c] \in Nat
          BY ClusterFacts
        <4>2. /\ Count(Unknown.scales, Removable) = 0 /\ Count(Unknown.scales, Adding) = 0
              /\ Count(Unknown.scales, Reusing) = 0
          BY <2>3, CountNone
        <4>3. /\ Count(Unknown.scales, Removable) <= Unknown.allocated
              /\ Unknown.allocated + Count(Unknown.scales, Adding) <= MaxWorkers[c]
              /\ Unknown.registered + Unknown.reuse + Count(Unknown.scales, Reusing) <= Unknown.allocated
          BY <2>3, <4>1, <4>2
        <4>. QED  BY <2>2, <2>3, <4>3 DEF RecordInv
      <3>. QED  BY <3>1
    <2>5. cl \in [Clusters -> ClusterRecords]
      BY <2>2 DEF RayInit, ClustersInit
    <2>. QED  BY <2>1, <2>4, <2>5 DEF ClustersInv
  <1>2. WorksInv
    <2>1. \A w \in AllWorks : WorkInv(w, NotSubmitted) /\ NotSubmitted \in WorkRecords
      <3>1. <<>> \in Seq(Places) /\ Len(<<>>) = 0
        OBVIOUS
      <3>2. NotSubmitted \in WorkRecords
        BY <3>1 DEF NotSubmitted, WorkRecords
      <3>. QED  BY <3>1, <3>2, WorkFacts DEF WorkInv, NotSubmitted
    <2>. QED  BY <2>1 DEF RayInit, WorksInv
  <1>3. \A w \in AllWorks : work[w].state = "NEW" /\ work[w].via = "none"
    BY DEF RayInit, NotSubmitted
  <1>4. \A g \in AllGroups : group[g].state = "NEW" /\ group[g].used = <<>>
    BY DEF RayInit
  <1>5. GroupsInv
    <2> DEFINE r == [state |-> "NEW", at |-> <<>>, used |-> <<>>]
    <2>1. r \in GroupRecords /\ Len(r.at) = 0 /\ Len(r.used) = 0 /\ DOMAIN r.used = {}
      <3>1. <<>> \in Seq(Places) /\ <<>> \in Seq(Nat)
        OBVIOUS
      <3>. QED  BY <3>1 DEF GroupRecords
    <2>2. r.state = "NEW"
      OBVIOUS
    <2>3. group = [g \in AllGroups |-> r]
      BY DEF RayInit
    <2> HIDE DEF r
    <2>4. \A g \in AllGroups : GroupInv(g, r)
      <3>1. \A g \in AllGroups : 0 <= Len(Group[g].bundles)
        BY WorkFacts
      <3>. QED  BY <2>1, <2>2, <3>1 DEF GroupInv
    <2>. QED  BY <2>1, <2>3, <2>4 DEF GroupsInv
  <1>6. SharesInv
    BY <1>3, <1>4 DEF SharesInv, InItsGroup
  <1>7. SlotsInv
    BY DEF RayInit, SlotsInv
  <1>8. BooksInv
    <2>1. ASSUME NEW c \in Clusters, NEW i \in Places
          PROVE  At(slots[c], i) = RunIn(c, i) + ReservedIn(c, i)
      <3> DEFINE f == [w \in AllWorks |-> PartOf(w, work[w], c, i)]
                 h == [g \in AllGroups |-> ReserveOf(g, group[g], c, i)]
      <3>1. (\A w \in AllWorks : f[w] = 0) /\ (\A g \in AllGroups : h[g] = 0)
        BY <1>3, <1>4 DEF PartOf, ReserveOf
      <3> HIDE DEF f, h
      <3>2. Total(f, AllWorks) = 0 /\ Total(h, AllGroups) = 0
        BY <3>1, WorkFacts, TotalNothing
      <3>3. RunIn(c, i) = 0 /\ ReservedIn(c, i) = 0
        BY <3>2 DEF RunIn, ReservedIn, f, h
      <3>4. At(slots[c], i) = 0
        BY DEF RayInit, At
      <3>. QED  BY <3>3, <3>4
    <2>. QED  BY <2>1 DEF BooksInv
  <1>9. LoopInv
    <2>1. ScaleUpDelay \in Nat /\ IdleDelay \in Nat
      BY PolicyAssumption
    <2>2. Never \in Never .. ScaleUpDelay /\ Never \in Never .. IdleDelay
      BY <2>1 DEF Never
    <2>. QED  BY <2>2 DEF RayInit, LoopInv, Stages
  <1>. QED  BY <1>1, <1>2, <1>5, <1>6, <1>7, <1>8, <1>9 DEF RayInv

\* Every step keeps the invariant.
LEMMA RayStays == RayInv /\ [RayNext]_rayVars => RayInv'
  <1> SUFFICES ASSUME RayInv, [RayNext]_rayVars
               PROVE  RayInv'
    OBVIOUS
  <1>1. CASE Step
    <2>1. CASE Placing
      <3>1. CASE \E g \in AllGroups : TryGroup(g)
        BY <3>1, TryStays
      <3>2. CASE \E w \in AllWorks : StartNormal(w) \/ StartInGroup(w) \/ KeepWaiting(w)
        BY <3>2, StartNormalStays, StartInGroupStays, WaitingStays
      <3>3. CASE EndPlacing
        BY <3>3, EndPlacingStays
      <3>. QED  BY <2>1, <3>1, <3>2, <3>3 DEF Placing
    <2>. QED  BY <1>1, <2>1, AdvanceStays, SyncStays, ProgressStays, ReconcileStays DEF Step
  <1>2. CASE ClusterRequest \/ WorkerFails
    BY <1>2, RequestStays, FailedWorkerStays
  <1>3. CASE \E g \in AllGroups : SubmitGroup(g) \/ ReleaseGroup(g)
    BY <1>3, SubmitGroupStays, ReleaseStays
  <1>4. CASE \E w \in AllWorks : SubmitWork(w) \/ FailWork(w) \/ CancelWork(w)
    BY <1>4, SubmitWorkStays, FailStays
  <1>5. CASE UNCHANGED rayVars
    <2>1. UNCHANGED <<work, slots, group, cl, pendingFor, idleFor, stage, forgotten>>
      BY <1>5 DEF rayVars, execVars
    <2>2. ClustersInv' /\ LoopInv'
      BY <2>1, ClustersSame, LoopSame DEF RayInv
    <2>. QED  BY <2>1, <2>2, BooksStay
  <1>. QED  BY <1>1, <1>2, <1>3, <1>4, <1>5 DEF RayNext

\* The invariant of the Ray model, for any clusters, workloads, groups and delays.
LEMMA RayInvariance == RaySpec => []RayInv
  <1>. QED  BY RayStarts, RayStays, PTL DEF RaySpec

\* The books of the invariant are those of the property.
LEMMA BooksRead ==
  ASSUME RayInv
  PROVE  HoldingsAgree
  <1>1. WorksInv /\ GroupsInv /\ SharesInv /\ SlotsInv /\ BooksInv /\ LoopInv /\ ClustersInv
    BY DEF RayInv
  <1>2. RayTypeOK
    <2>1. \A c \in Clusters : cl[c] \in ClusterRecords
      BY <1>1 DEF ClustersInv
    <2>2. \A w \in AllWorks : work[w] \in WorkRecords /\ work[w].attempt \in 0 .. Work[w].retries + 1
      <3>1. ASSUME NEW w \in AllWorks
            PROVE  work[w] \in WorkRecords /\ work[w].attempt \in 0 .. Work[w].retries + 1
        <4>1. work[w] \in WorkRecords /\ work[w].attempt \in Nat /\ work[w].attempt <= Work[w].retries + 1
              /\ Work[w].retries \in Nat
          BY <1>1, WorkFacts DEF WorksInv, WorkInv, WorkRecords
        <4>. QED  BY <4>1
      <3>. QED  BY <3>1
    <2>3. \A g \in AllGroups : group[g] \in GroupRecords
      BY <1>1 DEF GroupsInv
    <2>. QED  BY <1>1, <2>1, <2>2, <2>3 DEF RayTypeOK, ClusterRecords, Lives, WorkRecords, GroupRecords, LoopInv
  <1>3. ASSUME NEW c \in Clusters, NEW i
        PROVE  FreedBy(RunningOn(c), c, i) = RunIn(c, i)
    <2> DEFINE f == [w \in AllWorks |-> PartOf(w, work[w], c, i)]
    <2>1. RunningOn(c) \in SUBSET AllWorks /\ \A w \in RunningOn(c) : work[w].state = "RUNNING"
      BY DEF RunningOn
    <2>2. FreedBy(RunningOn(c), c, i) = Total(f, RunningOn(c))
      BY <1>1, <2>1, FreedParts
    <2>3. \A w \in AllWorks \ RunningOn(c) : f[w] = 0
      BY DEF RunningOn, PartOf
    <2>4. Weighs(f, AllWorks)
      BY <1>1, HoldingsWeigh
    <2>5. RunIn(c, i) = Total(f, AllWorks)
      BY DEF RunIn
    <2> HIDE DEF f
    <2>6. Total(f, RunningOn(c)) = Total(f, AllWorks)
      BY <2>1, <2>3, <2>4, TotalWithout
    <2>. QED  BY <2>2, <2>5, <2>6
  <1>4. ASSUME NEW c \in Clusters, NEW i
        PROVE  Total([g \in AllGroups |-> Held(Group[g].bundles, group[g].at, i)], PlacedOn(c)) = ReservedIn(c, i)
    <2> DEFINE f == [g \in AllGroups |-> ReserveOf(g, group[g], c, i)]
               h == [g \in AllGroups |-> Held(Group[g].bundles, group[g].at, i)]
               T == PlacedOn(c)
    <2>1. T \in SUBSET AllGroups
      BY DEF PlacedOn
    <2>2. (\A g \in T : h[g] = f[g]) /\ (\A g \in AllGroups \ T : f[g] = 0)
      BY DEF PlacedOn, ReserveOf
    <2>3. Weighs(f, AllGroups)
      BY <1>1, HoldingsWeigh
    <2>4. ReservedIn(c, i) = Total(f, AllGroups)
      BY DEF ReservedIn
    <2> HIDE DEF f, h, T
    <2>5. Total(f, T) = Total(f, AllGroups)
      BY <2>1, <2>2, <2>3, TotalWithout
    <2>6. Weighs(f, T)
      BY <2>1, <2>3, FS_Subset DEF Weighs
    <2>7. Total(h, T) = Total(f, T)
      BY <2>2, <2>6, TotalSame
    <2>. QED  BY <2>4, <2>5, <2>7 DEF h, T
  <1>5. ASSUME NEW g \in AllGroups, NEW i
        PROVE  UsedBy({w \in AllWorks : work[w].state = "RUNNING"}, g, i) = SharedOf(g, i)
    <2> DEFINE f == [w \in AllWorks |-> ShareOf(w, work[w], g, i)]
               T == {w \in AllWorks : work[w].state = "RUNNING"}
    <2>1. T \in SUBSET AllWorks /\ \A w \in T : work[w].state = "RUNNING"
      OBVIOUS
    <2>2. UsedBy(T, g, i) = Total(f, T)
      BY <1>1, <2>1, UsedParts
    <2>3. \A w \in AllWorks \ T : f[w] = 0
      BY DEF ShareOf
    <2>4. Weighs(f, AllWorks)
      BY <1>1, HoldingsWeigh
    <2>5. SharedOf(g, i) = Total(f, AllWorks)
      BY DEF SharedOf
    <2> HIDE DEF f, T
    <2>6. Total(f, T) = Total(f, AllWorks)
      BY <2>1, <2>3, <2>4, TotalWithout
    <2>. QED  BY <2>2, <2>5, <2>6 DEF T
  <1>6. SlotsAccounted
    <2>1. ASSUME NEW c \in Clusters, NEW i \in DOMAIN slots[c]
          PROVE  slots[c][i] = RunIn(c, i) + ReservedIn(c, i) /\ slots[c][i] <= SlotSize(i)
      <3>1. i \in Places
        BY <1>1 DEF SlotsInv, Places
      <3>2. At(slots[c], i) = RunIn(c, i) + ReservedIn(c, i) /\ At(slots[c], i) = slots[c][i]
        BY <1>1, <3>1 DEF BooksInv, At
      <3>. QED  BY <1>1, <3>2 DEF SlotsInv
    <2>. QED  BY <1>3, <1>4, <2>1 DEF SlotsAccounted
  <1>7. ReservationsHold
    <2>1. \A w \in AllWorks : work[w].state = "RUNNING" /\ work[w].via = "group" =>
            group[Work[w].group].state = "PLACED"
      BY <1>1 DEF SharesInv, InItsGroup
    <2>2. \A g \in AllGroups : \A i \in DOMAIN group[g].used :
            group[g].used[i] <= Group[g].bundles[i] /\ group[g].used[i] = SharedOf(g, i)
      BY <1>1 DEF GroupsInv, GroupInv, SharesInv
    <2>. QED  BY <1>5, <2>1, <2>2 DEF ReservationsHold
  <1>8. SpreadApart
    BY <1>1 DEF SpreadApart, GroupsInv, GroupInv
  <1>9. AllocationsKept
    <2>1. ASSUME NEW c \in Clusters
          PROVE  /\ cl[c].allocated <= MaxWorkers[c]
                 /\ cl[c].registered <= cl[c].allocated \/ (c = Autoscaled /\ forgotten)
                 /\ cl[c].life \in {"TERMINATED", "FAILED"} /\ cl[c].allocation => cl[c].request = "none"
      <3> DEFINE r == cl[c]
                 excused == IF c = Autoscaled THEN forgotten ELSE FALSE
      <3>1. RecordInv(c, r, excused)
        BY <1>1 DEF ClustersInv
      <3>2. excused => c = Autoscaled /\ forgotten
        OBVIOUS
      <3> HIDE DEF r, excused
      <3>3. r.scales \in Seq(ScaleRecords) /\ r.registered \in Nat /\ r.allocated \in Nat /\ r.reuse \in Nat
        BY <3>1 DEF RecordInv, ClusterRecords
      <3>4. Count(r.scales, Adding) \in Nat /\ Count(r.scales, Reusing) \in Nat
        BY <3>3, RecordCounts
      <3>5. MaxWorkers[c] \in Nat
        BY ClusterFacts
      <3>6. r.allocated <= MaxWorkers[c]
        <4>1. r.allocated + Count(r.scales, Adding) <= MaxWorkers[c]
          BY <3>1 DEF RecordInv
        <4>. QED  BY <3>3, <3>4, <3>5, <4>1
      <3>7. excused \/ r.registered <= r.allocated
        <4>1. ASSUME ~excused
              PROVE  r.registered <= r.allocated
          <5>1. r.registered + r.reuse + Count(r.scales, Reusing) <= r.allocated
            BY <3>1, <4>1 DEF RecordInv
          <5>. QED  BY <3>3, <3>4, <5>1
        <4>. QED  BY <4>1
      <3>8. r.life \in {"TERMINATED", "FAILED"} /\ r.allocation => r.request = "none"
        BY <3>1 DEF RecordInv
      <3>. QED  BY <3>2, <3>6, <3>7, <3>8 DEF r
    <2>. QED  BY <2>1 DEF AllocationsKept, WorkersWithinAllocation, AllocationGivenBack
  <1>. QED  BY <1>2, <1>6, <1>7, <1>8, <1>9 DEF HoldingsAgree

\* Slots, placement groups, workloads and allocations always agree on who holds what: for
\* any number of clusters, workloads and groups, any bundles, retries and policy.
THEOREM HoldingsBalance == RaySpec => []HoldingsAgree
  <1>1. RayInv => HoldingsAgree
    BY BooksRead
  <1>. QED  BY <1>1, RayInvariance, PTL

=============================================================================
