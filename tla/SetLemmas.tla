----------------------------- MODULE SetLemmas ------------------------------
(***************************************************************************)
(* Lemmas shared by the proofs, about finite sets.                         *)
(*                                                                         *)
(* The ranks of the members of a finite set of numbers: by rank            *)
(* SlurmScheduler takes the first nodes, DieselFleet the first standbys,   *)
(* WorkloadTimeline writes the changes of a cluster in order, and          *)
(* TurbineCommitment finds the ends of its roster.                         *)
(*                                                                         *)
(* The total weight of a finite set, Total(w, S), is a fold.  Its lemmas   *)
(* rest on the order of the subsets of a finite set being well founded     *)
(* (a fact about sets, so a leaf can use it, where an induction theorem    *)
(* would need an operator): a smallest subset that violates a claim does   *)
(* not exist.                                                              *)
(***************************************************************************)
EXTENDS Totals, FiniteSetTheorems, TLAPS

Below(S, u) == {v \in S : v < u}

\* A rank is unique, grows with the member, and none is left out.
LEMMA Ranks ==
  ASSUME NEW S \in SUBSET Int, IsFiniteSet(S)
  PROVE  /\ Cardinality(S) \in Nat
         /\ \A u \in S : Cardinality(Below(S, u)) \in 0..(Cardinality(S) - 1)
         /\ \A u, w \in S : u < w <=> Cardinality(Below(S, u)) < Cardinality(Below(S, w))
         /\ \A t \in 0..(Cardinality(S) - 1) : \E u \in S : Cardinality(Below(S, u)) = t
  <1> DEFINE n == Cardinality(S)
             B(u) == Below(S, u)
             rank == [u \in S |-> Cardinality(B(u))]
  <1>1. n \in Nat
    BY FS_CardinalityType
  <1>2. \A u \in S : B(u) \subseteq S /\ B(u) # S /\ IsFiniteSet(B(u))
    BY FS_Subset DEF Below
  <1>3. \A u \in S : Cardinality(B(u)) \in 0..(n - 1)
    <2>1. SUFFICES ASSUME NEW u \in S
                   PROVE  Cardinality(B(u)) \in 0..(n - 1)
      OBVIOUS
    <2>2. Cardinality(B(u)) <= n /\ Cardinality(B(u)) # n
      BY <1>1, <1>2, FS_Subset
    <2>3. Cardinality(B(u)) \in Nat
      BY <1>2, FS_CardinalityType
    <2>. QED  BY <2>2, <2>3, <1>1
  <1>4. \A u, w \in S : u < w => Cardinality(B(u)) < Cardinality(B(w))
    <2>1. SUFFICES ASSUME NEW u \in S, NEW w \in S, u < w
                   PROVE  Cardinality(B(u)) < Cardinality(B(w))
      OBVIOUS
    <2>2. B(u) \subseteq B(w) /\ u \in B(w) /\ u \notin B(u)
      <3>1. u \in Int /\ w \in Int /\ \A v \in S : v \in Int
        OBVIOUS
      <3>2. \A v \in S : v < u => v < w
        BY <2>1, <3>1
      <3>3. ~(u < u)
        BY <3>1
      <3>. QED  BY <2>1, <3>2, <3>3 DEF Below
    <2>3. /\ Cardinality(B(u)) <= Cardinality(B(w))
          /\ Cardinality(B(u)) # Cardinality(B(w))
      BY <2>2, <1>2, FS_Subset
    <2>. QED  BY <2>3, <1>3, <1>1
  <1>5. \A u, w \in S : u < w <=> Cardinality(B(u)) < Cardinality(B(w))
    <2>1. SUFFICES ASSUME NEW u \in S, NEW w \in S, ~(u < w)
                   PROVE  ~(Cardinality(B(u)) < Cardinality(B(w)))
      BY <1>4
    <2>2. w < u \/ w = u
      BY <2>1
    <2> HIDE DEF B
    <2>. QED  BY <2>2, <1>1, <1>3, <1>4
  <1>6. /\ rank \in [S -> 0..(n - 1)]
        /\ \A u \in S : rank[u] = Cardinality(B(u))
    BY <1>3
  <1>7. rank \in Injection(S, 0..(n - 1))
    <2>1. \A u, w \in S : rank[u] = rank[w] => u = w
      <3>1. SUFFICES ASSUME NEW u \in S, NEW w \in S, rank[u] = rank[w], u # w
                     PROVE  FALSE
        OBVIOUS
      <3>2. u < w \/ w < u
        BY <3>1
      <3>3. rank[u] \in Int /\ rank[w] \in Int
        BY <1>1, <1>3, <1>6
      <3> HIDE DEF rank, B
      <3>. QED  BY <1>5, <1>6, <3>1, <3>2, <3>3
    <2> HIDE DEF rank
    <2>. QED  BY <1>6, <2>1 DEF Injection, IsInjective
  <1>8. IsFiniteSet(0..(n - 1)) /\ Cardinality(0..(n - 1)) = n
    <2>1. 0 \in Int /\ n - 1 \in Int
      BY <1>1
    <2>2. /\ IsFiniteSet(0..(n - 1))
          /\ Cardinality(0..(n - 1)) = IF 0 > n - 1 THEN 0 ELSE (n - 1) - 0 + 1
      BY <2>1, FS_Interval
    <2>. QED  BY <2>2, <1>1
  <1>9. \A t \in 0..(n - 1) : \E u \in S : Cardinality(B(u)) = t
    <2>1. Cardinality(S) = Cardinality(0..(n - 1)) /\ IsFiniteSet(0..(n - 1))
      BY <1>8
    <2>2. rank \in Surjection(S, 0..(n - 1))
      BY <1>7, <2>1, FS_Injection
    <2>. QED  BY <2>2, <1>6 DEF Surjection
  <1>. QED  BY <1>1, <1>3, <1>5, <1>9

\* The first k members are k members, or all when there are fewer.
LEMMA FirstOfSet ==
  ASSUME NEW S \in SUBSET Int, IsFiniteSet(S), NEW k \in Nat
  PROVE  LET First == {u \in S : Cardinality({v \in S : v < u}) < k} IN
         /\ Cardinality(First) <= k
         /\ k <= Cardinality(S) => Cardinality(First) = k
         /\ Cardinality(S) <= k => First = S
  <1> DEFINE n == Cardinality(S)
             r(u) == Cardinality(Below(S, u))
             First == {u \in S : r(u) < k}
             low == [u \in First |-> r(u)]
  <1>1. /\ n \in Nat
        /\ \A u \in S : r(u) \in 0..(n - 1)
        /\ \A u, w \in S : u < w <=> r(u) < r(w)
        /\ \A t \in 0..(n - 1) : \E u \in S : r(u) = t
    BY Ranks
  <1>2. IsFiniteSet(0..(k - 1)) /\ Cardinality(0..(k - 1)) = k
    <2>1. 0 \in Int /\ k - 1 \in Int
      OBVIOUS
    <2>2. /\ IsFiniteSet(0..(k - 1))
          /\ Cardinality(0..(k - 1)) = IF 0 > k - 1 THEN 0 ELSE (k - 1) - 0 + 1
      BY <2>1, FS_Interval
    <2>. QED  BY <2>2
  <1> HIDE DEF r
  <1>3. low \in Injection(First, 0..(k - 1))
    <2>1. \A u \in First : r(u) \in 0..(k - 1)
      BY <1>1
    <2>2. \A u, w \in First : r(u) = r(w) => u = w
      <3>1. SUFFICES ASSUME NEW u \in First, NEW w \in First, r(u) = r(w), u # w
                     PROVE  FALSE
        OBVIOUS
      <3>2. u < w \/ w < u
        BY <3>1
      <3>. QED  BY <1>1, <2>1, <3>1, <3>2
    <2>. QED  BY <2>1, <2>2 DEF Injection, IsInjective
  <1>4. Cardinality(First) <= k
    <2> HIDE DEF First, low
    <2>. QED  BY <1>2, <1>3, FS_Injection
  <1>5. ASSUME k <= n
        PROVE  Cardinality(First) = k
    <2>1. \A t \in 0..(k - 1) : \E u \in First : low[u] = t
      <3>1. SUFFICES ASSUME NEW t \in 0..(k - 1)
                     PROVE  \E u \in First : low[u] = t
        OBVIOUS
      <3>2. t \in 0..(n - 1) /\ t < k
        BY <1>5, <1>1
      <3>3. PICK u \in S : r(u) = t
        BY <3>2, <1>1
      <3>. QED  BY <3>2, <3>3
    <2>2. low \in Surjection(First, 0..(k - 1))
      BY <2>1, <1>3 DEF Injection, Surjection
    <2> HIDE DEF First, low
    <2>. QED  BY <2>2, <1>2, <1>3, FS_Injection
  <1>6. ASSUME n <= k
        PROVE  First = S
    <2>1. \A u \in S : r(u) < k
      <3>1. SUFFICES ASSUME NEW u \in S PROVE r(u) < k
        OBVIOUS
      <3>2. r(u) \in 0..(n - 1)
        BY <1>1
      <3> HIDE DEF n
      <3>. QED  BY <3>2, <1>1, <1>6
    <2>. QED  BY <2>1
  <1>7. First = {u \in S : Cardinality({v \in S : v < u}) < k}
    BY DEF r, Below
  <1> HIDE DEF First
  <1>. QED  BY <1>4, <1>5, <1>6, <1>7

\* A set of numbers 1..n that has each member's predecessors is an initial
\* stretch of them.
LEMMA InitialStretch ==
  ASSUME NEW n \in Nat, NEW S \in SUBSET (1..n),
         \A i \in S : \A k \in 1..n : k <= i => k \in S
  PROVE  /\ Cardinality(S) \in 0..n
         /\ \A i \in 1..n : i \in S <=> i <= Cardinality(S)
  <1>1. \A m \in 0..n : IsFiniteSet(1..m) /\ Cardinality(1..m) = m
    <2>1. SUFFICES ASSUME NEW m \in 0..n
                   PROVE  IsFiniteSet(1..m) /\ Cardinality(1..m) = m
      OBVIOUS
    <2>2. /\ IsFiniteSet(1..m)
          /\ Cardinality(1..m) = IF 1 > m THEN 0 ELSE m - 1 + 1
      <3>1. 1 \in Int /\ m \in Int
        OBVIOUS
      <3>. QED  BY <3>1, FS_Interval
    <2>. QED  BY <2>2
  <1>2. n \in 0..n
    OBVIOUS
  <1>3. IsFiniteSet(S) /\ Cardinality(S) \in Nat /\ Cardinality(S) <= n
    <2>1. IsFiniteSet(1..n) /\ Cardinality(1..n) = n
      BY <1>1, <1>2
    <2>2. IsFiniteSet(S) /\ Cardinality(S) <= Cardinality(1..n)
      BY <2>1, FS_Subset
    <2>. QED  BY <2>1, <2>2, FS_CardinalityType
  <1>4. ASSUME NEW i \in 1..n, i \in S
        PROVE  i <= Cardinality(S)
    <2>1. 1..i \in SUBSET S
      BY <1>4
    <2>2. Cardinality(1..i) <= Cardinality(S)
      BY <2>1, <1>3, FS_Subset
    <2>3. i \in 0..n
      OBVIOUS
    <2>. QED  BY <1>1, <2>2, <2>3
  <1>5. ASSUME NEW i \in 1..n, i \notin S
        PROVE  ~(i <= Cardinality(S))
    <2>1. S \in SUBSET (1..(i - 1))
      <3>1. SUFFICES ASSUME NEW k \in S PROVE k \in 1..(i - 1)
        OBVIOUS
      <3>2. ~(i <= k)
        BY <1>5
      <3>. QED  BY <3>2
    <2>2. i - 1 \in 0..n
      OBVIOUS
    <2>3. Cardinality(S) <= i - 1
      <3>1. IsFiniteSet(1..(i - 1)) /\ Cardinality(1..(i - 1)) = i - 1
        BY <2>2, <1>1
      <3>2. Cardinality(S) <= Cardinality(1..(i - 1))
        BY <2>1, <3>1, FS_Subset
      <3>. QED  BY <3>1, <3>2
    <2>. QED  BY <2>3, <1>3
  <1>. QED  BY <1>3, <1>4, <1>5

-----------------------------------------------------------------------------
(* Totals. *)

\* Among subsets of a finite set there is a smallest one.
LEMMA SubsetMin ==
  ASSUME NEW S, IsFiniteSet(S), NEW B \in SUBSET (SUBSET S), B # {}
  PROVE  \E m \in B : \A s \in SUBSET m : s # m => s \notin B
  <1>1. IsWellFoundedOn(StrictSubsetOrdering(S), SUBSET S)
    BY FS_StrictSubsetOrderingWellFounded, FS_FiniteSubsetsOfFinite
  <1>2. \E m \in B : \A s \in B : ~ (<<s, m>> \in StrictSubsetOrdering(S))
    BY <1>1, WFMin
  <1>. QED  BY <1>2 DEF StrictSubsetOrdering

\* What the fold takes out of a set next.
Taken(s) == CHOOSE x \in s : TRUE

\* h adds the weights of every subset of S, in the order of the fold.
Adds(h, w, S) ==
  /\ h \in [SUBSET S -> Nat]
  /\ \A s \in SUBSET S :
       h[s] = IF s = {} THEN 0 ELSE w[Taken(s)] + h[s \ {Taken(s)}]

\* It takes a member.
LEMMA TakenIn == \A s : s # {} => Taken(s) \in s
  BY DEF Taken

\* Two such functions agree where both are defined.
LEMMA AddsAgree ==
  ASSUME NEW w, NEW S, IsFiniteSet(S), NEW T, NEW g, Adds(g, w, S), NEW h, Adds(h, w, T)
  PROVE  \A s \in (SUBSET S) \cap (SUBSET T) : g[s] = h[s]
  <1> DEFINE B == {s \in (SUBSET S) \cap (SUBSET T) : g[s] # h[s]}
  <1>1. SUFFICES ASSUME B # {} PROVE FALSE
    OBVIOUS
  <1>2. PICK m \in B : \A s \in SUBSET m : s # m => s \notin B
    <2>1. B \in SUBSET (SUBSET S)
      OBVIOUS
    <2> HIDE DEF B
    <2>. QED  BY <1>1, <2>1, SubsetMin
  <1>3. m # {}
    BY <1>2 DEF Adds
  <1>4. g[m \ {Taken(m)}] = h[m \ {Taken(m)}]
    BY <1>2, <1>3, TakenIn
  <1>. QED  BY <1>2, <1>3, <1>4 DEF Adds

\* There is one for every finite set of numbers.
LEMMA AddsExists ==
  ASSUME NEW S, IsFiniteSet(S), NEW w, \A x \in S : w[x] \in Nat
  PROVE  \E h : Adds(h, w, S)
  <1> DEFINE B == {s \in SUBSET S : ~ \E h : Adds(h, w, s)}
  <1>1. SUFFICES ASSUME B # {} PROVE FALSE
    OBVIOUS
  <1>2. PICK m \in B : \A s \in SUBSET m : s # m => s \notin B
    <2>1. B \in SUBSET (SUBSET S)
      OBVIOUS
    <2> HIDE DEF B
    <2>. QED  BY <1>1, <2>1, SubsetMin
  <1> DEFINE of(s) == CHOOSE h : Adds(h, w, s)
             rest == m \ {Taken(m)}
             g == [s \in SUBSET m |->
                     IF s # m THEN of(s)[s]
                     ELSE IF m = {} THEN 0 ELSE w[Taken(m)] + of(rest)[rest]]
  <1>3. \A s \in SUBSET m : s # m => Adds(of(s), w, s)
    BY <1>2
  <1>4. \A s \in SUBSET m : IsFiniteSet(s)
    BY FS_Subset
  <1>5. m # {} => rest \in SUBSET m /\ rest # m
    BY TakenIn
  <1>6. \A s \in SUBSET m : s # m => of(s)[s] \in Nat
    <2> HIDE DEF of
    <2>. QED  BY <1>3 DEF Adds
  <1>7. g \in [SUBSET m -> Nat]
    <2>1. ASSUME NEW s \in SUBSET m PROVE g[s] \in Nat
      <3>1. m # {} => w[Taken(m)] \in Nat
        BY TakenIn
      <3> HIDE DEF rest, of
      <3>. QED BY <3>1, <1>5, <1>6
    <2> HIDE DEF rest, of
    <2>. QED BY <2>1
  <1>8. ASSUME NEW s \in SUBSET m, s # {}
        PROVE  g[s] = w[Taken(s)] + g[s \ {Taken(s)}]
    <2> DEFINE r == s \ {Taken(s)}
    <2>1. r \in SUBSET s /\ r # s /\ r # m /\ r \in SUBSET m
      BY <1>8, TakenIn
    <2>2. CASE s = m
      <3> HIDE DEF of
      <3>. QED BY <2>1, <2>2, <1>8
    <2>3. CASE s # m
      <3>1. of(s)[s] = w[Taken(s)] + of(s)[r]
        <4>1. Adds(of(s), w, s) /\ s \in SUBSET s
          BY <2>3, <1>3
        <4> HIDE DEF of
        <4>. QED  BY <4>1, <1>8 DEF Adds
      <3>2. of(s)[r] = of(r)[r]
        <4> HIDE DEF of, r
        <4>. QED BY <2>1, <2>3, <1>3, <1>4, AddsAgree
      <3>3. g[s] = of(s)[s] /\ g[r] = of(r)[r]
        <4> HIDE DEF of, r, rest
        <4>. QED BY <2>1, <2>3
      <3>. QED BY <3>1, <3>2, <3>3
    <2>. QED BY <2>2, <2>3
  <1>9. g[{}] = 0
    <2>1. CASE m = {}
      BY <2>1
    <2>2. CASE m # {}
      <3>1. Adds(of({}), w, {})
        BY <2>2, <1>3
      <3> HIDE DEF of
      <3>. QED BY <2>2, <3>1 DEF Adds
    <2>. QED BY <2>1, <2>2
  <1>10. Adds(g, w, m)
    <2> HIDE DEF g
    <2>. QED BY <1>7, <1>8, <1>9 DEF Adds
  <1>. QED BY <1>2, <1>10

\* The fold computes it.
LEMMA TotalAdds ==
  ASSUME NEW S, IsFiniteSet(S), NEW w, \A x \in S : w[x] \in Nat, NEW h, Adds(h, w, S)
  PROVE  Total(w, S) = h[S]
  <1> DEFINE iter == CHOOSE g : g = [s \in SUBSET S |-> IF s = {} THEN 0 ELSE
                w[Taken(s)] + g[s \ {Taken(s)}]]
  <1>1. Total(w, S) = iter[S]
    BY DEF Total, MapThenSumSet, MapThenFoldSet, Taken
  <1>2. h = [s \in SUBSET S |-> IF s = {} THEN 0 ELSE w[Taken(s)] + h[s \ {Taken(s)}]]
    BY DEF Adds
  <1>3. iter = [s \in SUBSET S |-> IF s = {} THEN 0 ELSE w[Taken(s)] + iter[s \ {Taken(s)}]]
    BY <1>2
  <1> HIDE DEF iter
  <1> DEFINE B == {s \in SUBSET S : iter[s] # h[s]}
  <1>4. B = {}
    <2>1. SUFFICES ASSUME B # {} PROVE FALSE
      OBVIOUS
    <2>2. PICK m \in B : \A s \in SUBSET m : s # m => s \notin B
      <3>1. B \in SUBSET (SUBSET S)
        OBVIOUS
      <3> HIDE DEF B
      <3>. QED  BY <2>1, <3>1, SubsetMin
    <2>3. m # {} => m \ {Taken(m)} \in SUBSET m /\ m \ {Taken(m)} # m
      BY TakenIn
    <2>4. m # {} => iter[m \ {Taken(m)}] = h[m \ {Taken(m)}]
      BY <2>2, <2>3
    <2>5. m \in SUBSET S
      OBVIOUS
    <2>6. iter[m] = IF m = {} THEN 0 ELSE w[Taken(m)] + iter[m \ {Taken(m)}]
      BY <1>3, <2>5
    <2>. QED  BY <1>2, <2>2, <2>4, <2>6 DEF Adds
  <1>. QED BY <1>1, <1>4

\* The weights of a finite set: numbers.
Weighs(w, S) == IsFiniteSet(S) /\ \A x \in S : w[x] \in Nat

\* One function computes the totals of all subsets.
LEMMA TotalOfSubset ==
  ASSUME NEW w, NEW S, Weighs(w, S), NEW h, Adds(h, w, S), NEW T \in SUBSET S
  PROVE  Total(w, T) = h[T] /\ Weighs(w, T)
  <1>1. Weighs(w, T)
    BY FS_Subset DEF Weighs
  <1>2. PICK g : Adds(g, w, T)
    BY <1>1, AddsExists DEF Weighs
  <1>3. Total(w, T) = g[T]
    BY <1>1, <1>2, TotalAdds DEF Weighs
  <1>4. g[T] = h[T]
    <2>1. T \in (SUBSET S) \cap (SUBSET T) /\ IsFiniteSet(T)
      BY <1>1 DEF Weighs
    <2>. QED  BY <1>2, <2>1, AddsAgree
  <1>. QED  BY <1>1, <1>3, <1>4

\* Nothing weighs nothing.
LEMMA TotalEmpty == \A w : Total(w, {}) = 0
  <1>1. SUFFICES ASSUME NEW w PROVE Total(w, {}) = 0
    OBVIOUS
  <1>2. Weighs(w, {})
    BY FS_EmptySet DEF Weighs
  <1>3. PICK h : Adds(h, w, {})
    BY <1>2, AddsExists DEF Weighs
  <1>4. h[{}] = 0
    BY <1>3 DEF Adds
  <1>. QED  BY <1>2, <1>3, <1>4, TotalOfSubset

\* Whichever member is taken out, the others weigh the rest.
LEMMA TotalRemove ==
  ASSUME NEW w, NEW S, Weighs(w, S), NEW x \in S
  PROVE  /\ Total(w, S) \in Nat /\ Total(w, S \ {x}) \in Nat
         /\ Total(w, S) = w[x] + Total(w, S \ {x})
  <1>1. PICK h : Adds(h, w, S)
    BY AddsExists DEF Weighs
  <1> DEFINE B == {s \in SUBSET S : \E y \in s : h[s] # w[y] + h[s \ {y}]}
  <1>2. B = {}
    <2>1. SUFFICES ASSUME B # {} PROVE FALSE
      OBVIOUS
    <2>2. PICK m \in B : \A s \in SUBSET m : s # m => s \notin B
      <3>1. B \in SUBSET (SUBSET S) /\ IsFiniteSet(S)
        BY DEF Weighs
      <3> HIDE DEF B
      <3>. QED  BY <2>1, <3>1, SubsetMin
    <2>3. PICK y \in m : h[m] # w[y] + h[m \ {y}]
      BY <2>2
    <2> DEFINE t == Taken(m)
    <2>4. t \in m /\ m # {} /\ m \in SUBSET S
      BY <2>3, TakenIn
    <2> HIDE DEF t
    <2>5. h[m] = w[t] + h[m \ {t}]
      BY <1>1, <2>4 DEF Adds, t
    <2>6. t # y
      BY <2>3, <2>5
    <2>7. h[m \ {t}] = w[y] + h[(m \ {t}) \ {y}]
      <3>1. m \ {t} \in SUBSET m /\ m \ {t} # m /\ y \in m \ {t}
        BY <2>3, <2>4, <2>6
      <3>. QED  BY <2>2, <2>4, <3>1
    <2>8. h[m \ {y}] = w[t] + h[(m \ {y}) \ {t}]
      <3>1. m \ {y} \in SUBSET m /\ m \ {y} # m /\ t \in m \ {y}
        BY <2>3, <2>4, <2>6
      <3>. QED  BY <2>2, <2>4, <3>1
    <2>9. (m \ {t}) \ {y} = (m \ {y}) \ {t}
      OBVIOUS
    <2>10. w[t] \in Nat /\ w[y] \in Nat /\ h[(m \ {t}) \ {y}] \in Nat
      <3>1. (m \ {t}) \ {y} \in SUBSET S
        BY <2>4
      <3>2. h[(m \ {t}) \ {y}] \in Nat
        BY <1>1, <3>1 DEF Adds
      <3>3. t \in S /\ y \in S
        BY <2>3, <2>4
      <3>4. \A z \in S : w[z] \in Nat
        BY DEF Weighs
      <3>. QED  BY <3>2, <3>3, <3>4
    <2>11. h[m] = w[t] + (w[y] + h[(m \ {t}) \ {y}])
      BY <2>5, <2>7
    <2>12. h[m \ {y}] = w[t] + h[(m \ {t}) \ {y}]
      BY <2>8, <2>9
    <2> DEFINE rest == h[(m \ {t}) \ {y}]
    <2> HIDE DEF rest, B
    <2>13. w[t] + (w[y] + rest) = w[y] + (w[t] + rest)
      BY <2>10 DEF rest
    <2>. QED  BY <2>3, <2>11, <2>12, <2>13 DEF rest
  <1>3. h[S] = w[x] + h[S \ {x}]
    BY <1>2
  <1>4. Total(w, S) = h[S] /\ Total(w, S \ {x}) = h[S \ {x}]
    BY <1>1, TotalOfSubset
  <1>5. h[S] \in Nat /\ h[S \ {x}] \in Nat
    BY <1>1 DEF Adds
  <1>. QED  BY <1>3, <1>4, <1>5

\* A total is a number.
LEMMA TotalNat ==
  ASSUME NEW w, NEW S, Weighs(w, S)
  PROVE  Total(w, S) \in Nat
  <1>1. CASE S = {}
    BY <1>1, TotalEmpty
  <1>2. CASE S # {}
    BY <1>2, TotalRemove
  <1>. QED  BY <1>1, <1>2

\* A new member adds its weight.
LEMMA TotalAdd ==
  ASSUME NEW w, NEW S, Weighs(w, S), NEW x, x \notin S, w[x] \in Nat
  PROVE  /\ Weighs(w, S \cup {x})
         /\ Total(w, S \cup {x}) = w[x] + Total(w, S)
  <1>1. Weighs(w, S \cup {x})
    BY FS_AddElement DEF Weighs
  <1>2. (S \cup {x}) \ {x} = S
    OBVIOUS
  <1>. QED  BY <1>1, <1>2, TotalRemove

\* A property of sets that is kept by adding an element holds of a finite set:
\* stated for a set of sets, which a leaf can instantiate.
LEMMA SetGrows ==
  ASSUME NEW S, IsFiniteSet(S), NEW G, {} \in G,
         \A s \in SUBSET S : \A x \in S \ s : s \in G => s \cup {x} \in G
  PROVE  S \in G
  <1> DEFINE B == (SUBSET S) \ G
  <1>1. SUFFICES ASSUME B # {} PROVE FALSE
    OBVIOUS
  <1>2. PICK m \in B : \A s \in SUBSET m : s # m => s \notin B
    <2>1. B \in SUBSET (SUBSET S)
      OBVIOUS
    <2> HIDE DEF B
    <2>. QED  BY <1>1, <2>1, SubsetMin
  <1>3. PICK x \in m : TRUE
    BY <1>2
  <1>4. /\ m \ {x} \in SUBSET S /\ x \in S \ (m \ {x})
        /\ (m \ {x}) \cup {x} = m /\ m \ {x} \in G
    BY <1>2, <1>3
  <1>. QED  BY <1>2, <1>4

\* A part weighs no more than the whole.
LEMMA TotalMonotone ==
  ASSUME NEW w, NEW S, Weighs(w, S), NEW T \in SUBSET S
  PROVE  Total(w, T) <= Total(w, S)
  <1> DEFINE G == {s \in SUBSET S : Total(w, s \cap T) <= Total(w, s)}
  <1>1. \A s \in SUBSET S : Weighs(w, s)
    BY FS_Subset DEF Weighs
  <1>2. {} \in G
    BY TotalEmpty
  <1>3. ASSUME NEW s \in SUBSET S, NEW x \in S \ s, s \in G
        PROVE  s \cup {x} \in G
    <2>1. /\ w[x] \in Nat /\ Weighs(w, s) /\ Weighs(w, s \cap T)
          /\ Total(w, s) \in Nat /\ Total(w, s \cap T) \in Nat
      BY <1>1, TotalNat DEF Weighs
    <2>2. Total(w, s \cup {x}) = w[x] + Total(w, s)
      BY <2>1, TotalAdd
    <2>3. CASE x \in T
      <3>1. (s \cup {x}) \cap T = (s \cap T) \cup {x} /\ x \notin s \cap T
        BY <2>3
      <3>2. Total(w, (s \cap T) \cup {x}) = w[x] + Total(w, s \cap T)
        BY <2>1, <3>1, TotalAdd
      <3>. QED  BY <1>3, <2>1, <2>2, <3>1, <3>2
    <2>4. CASE x \notin T
      <3>1. (s \cup {x}) \cap T = s \cap T
        BY <2>4
      <3>. QED  BY <1>3, <2>1, <2>2, <3>1
    <2>. QED  BY <2>3, <2>4
  <1>4. S \in G
    <2>1. IsFiniteSet(S)
      BY DEF Weighs
    <2> HIDE DEF G
    <2>. QED  BY <1>2, <1>3, <2>1, SetGrows
  <1>5. S \cap T = T
    OBVIOUS
  <1>. QED  BY <1>4, <1>5

\* Only the weights of the members count.
LEMMA TotalSame ==
  ASSUME NEW w, NEW v, NEW S, Weighs(w, S), \A x \in S : v[x] = w[x]
  PROVE  Total(v, S) = Total(w, S)
  <1> DEFINE G == {s \in SUBSET S : Total(v, s) = Total(w, s)}
  <1>1. \A s \in SUBSET S : Weighs(w, s) /\ Weighs(v, s)
    BY FS_Subset DEF Weighs
  <1>2. {} \in G
    BY TotalEmpty
  <1>3. ASSUME NEW s \in SUBSET S, NEW x \in S \ s, s \in G
        PROVE  s \cup {x} \in G
    <2>1. w[x] \in Nat /\ v[x] = w[x]
      BY DEF Weighs
    <2>2. /\ Total(w, s \cup {x}) = w[x] + Total(w, s)
          /\ Total(v, s \cup {x}) = v[x] + Total(v, s)
      BY <1>1, <2>1, TotalAdd
    <2>. QED  BY <1>3, <2>1, <2>2
  <1>4. S \in G
    <2>1. IsFiniteSet(S)
      BY DEF Weighs
    <2> HIDE DEF G
    <2>. QED  BY <1>2, <1>3, <2>1, SetGrows
  <1>. QED  BY <1>4

\* Disjoint finite sets have as many elements together as one by one.
LEMMA TotalOfParts ==
  ASSUME NEW S, IsFiniteSet(S), NEW part,
         \A x \in S : IsFiniteSet(part[x]),
         \A x, y \in S : x # y => part[x] \cap part[y] = {},
         NEW w, \A x \in S : w[x] = Cardinality(part[x])
  PROVE  /\ IsFiniteSet(UNION {part[x] : x \in S})
         /\ Cardinality(UNION {part[x] : x \in S}) = Total(w, S)
         /\ Weighs(w, S)
  <1> DEFINE all(s) == UNION {part[x] : x \in s}
             G == {s \in SUBSET S : /\ IsFiniteSet(all(s))
                                    /\ Cardinality(all(s)) = Total(w, s)}
  <1>1. \A s \in SUBSET S : Weighs(w, s)
    BY FS_Subset, FS_CardinalityType DEF Weighs
  <1>2. {} \in G
    <2>1. all({}) = {}
      OBVIOUS
    <2>. QED  BY <2>1, TotalEmpty, FS_EmptySet
  <1>3. ASSUME NEW s \in SUBSET S, NEW x \in S \ s, s \in G
        PROVE  s \cup {x} \in G
    <2>1. all(s \cup {x}) = all(s) \cup part[x] /\ all(s) \cap part[x] = {}
      OBVIOUS
    <2>2. IsFiniteSet(all(s)) /\ IsFiniteSet(part[x])
          /\ Cardinality(all(s)) = Total(w, s)
      BY <1>3
    <2> HIDE DEF all
    <2>3. /\ IsFiniteSet(all(s) \cup part[x])
          /\ Cardinality(all(s) \cup part[x]) = Cardinality(all(s)) + Cardinality(part[x])
      <3>1. Cardinality(all(s) \cap part[x]) = 0
        BY <2>1, FS_EmptySet
      <3>2. /\ IsFiniteSet(all(s) \cup part[x])
            /\ Cardinality(all(s) \cup part[x]) =
                 Cardinality(all(s)) + Cardinality(part[x]) - Cardinality(all(s) \cap part[x])
        BY <2>2, FS_Union
      <3>3. Cardinality(all(s)) \in Nat /\ Cardinality(part[x]) \in Nat
        BY <2>2, FS_CardinalityType
      <3>. QED  BY <3>1, <3>2, <3>3
    <2>4. Total(w, s \cup {x}) = w[x] + Total(w, s)
      BY <1>1, FS_CardinalityType, TotalAdd
    <2>5. w[x] = Cardinality(part[x]) /\ w[x] \in Nat /\ Total(w, s) \in Nat
      BY <1>1, FS_CardinalityType, TotalNat
    <2>6. /\ s \cup {x} \in SUBSET S
          /\ IsFiniteSet(all(s \cup {x}))
          /\ Cardinality(all(s \cup {x})) = Total(w, s \cup {x})
      <3>1. IsFiniteSet(all(s \cup {x}))
        BY <2>1, <2>3
      <3>2. Cardinality(all(s \cup {x})) = Cardinality(all(s)) + Cardinality(part[x])
        BY <2>1, <2>3
      <3>3. Total(w, s \cup {x}) = Cardinality(all(s)) + Cardinality(part[x])
        BY <2>2, <2>4, <2>5
      <3>. QED  BY <3>1, <3>2, <3>3
    <2>. QED  BY <2>6
  <1>4. S \in G
    <2> HIDE DEF G
    <2>. QED  BY <1>2, <1>3, SetGrows
  <1>5. IsFiniteSet(all(S)) /\ Cardinality(all(S)) = Total(w, S)
    <2> HIDE DEF all
    <2>. QED  BY <1>4
  <1>. QED  BY <1>1, <1>5

\* A finite set of numbers has a least one.
LEMMA LeastOf ==
  ASSUME NEW S \in SUBSET Int, IsFiniteSet(S), S # {}
  PROVE  \E m \in S : \A s \in S : m <= s
  <1>1. Cardinality(S) \in Nat /\ Cardinality(S) # 0
    BY FS_CardinalityType, FS_EmptySet
  <1>2. 0 \in 0 .. Cardinality(S) - 1
    BY <1>1
  <1>3. PICK m \in S : Cardinality(Below(S, m)) = 0
    BY <1>2, Ranks
  <1>4. Below(S, m) \subseteq S
    BY DEF Below
  <1>5. IsFiniteSet(Below(S, m))
    BY <1>4, FS_Subset
  <1>6. Below(S, m) = {}
    BY <1>3, <1>5, FS_EmptySet
  <1>. QED  BY <1>6 DEF Below

Cut(n) == IF n > 0 THEN n ELSE 0

Above(K, num, x) == {c \in K : num[c] > num[x]}

\* When R is taken from numbered weights, the highest number first, as much as
\* they have, R is missing from their total.
LEMMA HighestFirst ==
  ASSUME NEW K, NEW w, Weighs(w, K), NEW num, \A x \in K : num[x] \in Nat,
         \A x, y \in K : num[x] = num[y] => x = y, NEW R \in Nat, NEW v,
         \A x \in K : v[x] = Cut(w[x] - Cut(R - Total(w, Above(K, num, x))))
  PROVE  Weighs(v, K) /\ Total(v, K) = Cut(Total(w, K) - R)
  <1> DEFINE higher(x) == Above(K, num, x)
             B == {U \in SUBSET K : /\ \A x \in U : higher(x) \subseteq U
                                    /\ Total(v, U) # Cut(Total(w, U) - R)}
  <1>1. \A U \in SUBSET K : Weighs(w, U) /\ Total(w, U) \in Nat /\ IsFiniteSet(U)
    <2>1. \A U \in SUBSET K : Weighs(w, U)
      BY FS_Subset DEF Weighs
    <2>. QED  BY <2>1, TotalNat DEF Weighs
  <1>2. \A x \in K : /\ w[x] \in Nat /\ higher(x) \in SUBSET K /\ x \notin higher(x)
                     /\ v[x] = Cut(w[x] - Cut(R - Total(w, higher(x))))
    BY DEF Weighs, Above
  <1> HIDE DEF higher
  <1>3. \A x \in K : v[x] \in Nat
    <2>1. SUFFICES ASSUME NEW x \in K PROVE v[x] \in Nat
      OBVIOUS
    <2>2. Total(w, higher(x)) \in Nat
      BY <1>1, <1>2
    <2>. QED  BY <1>2, <2>2 DEF Cut
  <1>4. \A U \in SUBSET K : Weighs(v, U)
    BY <1>1, <1>3 DEF Weighs
  <1>5. SUFFICES B = {}
    <2>1. K \in SUBSET K /\ \A x \in K : higher(x) \subseteq K
      BY <1>2
    <2>. QED  BY <1>4, <1>5, <2>1
  <1>6. SUFFICES ASSUME B # {} PROVE FALSE
    OBVIOUS
  <1>7. PICK U \in B : \A s \in SUBSET U : s # U => s \notin B
    <2>1. B \in SUBSET (SUBSET K) /\ IsFiniteSet(K)
      BY DEF Weighs
    <2> HIDE DEF B
    <2>. QED  BY <1>6, <2>1, SubsetMin
  <1>8. U # {}
    <2>1. SUFFICES ASSUME U = {} PROVE Total(v, U) = Cut(Total(w, U) - R)
      BY <1>7
    <2>2. Total(v, U) = 0 /\ Total(w, U) = 0
      BY <2>1, TotalEmpty
    <2>. QED  BY <2>2 DEF Cut
  <1>9. PICK x \in U : \A y \in U : num[x] <= num[y]
    <2> DEFINE S == {num[y] : y \in U}
    <2>1. IsFiniteSet(S)
      <3>1. [y \in U |-> num[y]] \in Surjection(U, S)
        BY DEF Surjection
      <3>. QED  BY <1>1, <1>7, <3>1, FS_Surjection
    <2>2. S \in SUBSET Int /\ S # {}
      BY <1>7, <1>8
    <2> HIDE DEF S
    <2>3. PICK m \in S : \A s \in S : m <= s
      BY <2>1, <2>2, LeastOf
    <2>. QED  BY <2>3 DEF S
  <1>10. x \in K /\ U \in SUBSET K /\ U \ {x} \in SUBSET U /\ U \ {x} # U
    BY <1>7, <1>9
  <1>11. higher(x) = U \ {x}
    <2>1. higher(x) \subseteq U \ {x}
      BY <1>2, <1>7, <1>9, <1>10
    <2>2. ASSUME NEW y \in U \ {x} PROVE y \in higher(x)
      <3>1. num[x] <= num[y] /\ num[x] # num[y] /\ y \in K
        BY <1>9, <1>10, <2>2
      <3>2. num[x] \in Nat /\ num[y] \in Nat
        BY <1>10, <3>1
      <3>. QED  BY <3>1, <3>2 DEF higher, Above
    <2>. QED  BY <2>1, <2>2
  <1>12. Total(v, U \ {x}) = Cut(Total(w, U \ {x}) - R)
    <2>1. ASSUME NEW y \in U \ {x} PROVE higher(y) \subseteq U \ {x}
      <3>1. num[x] <= num[y] /\ y \in K /\ num[x] \in Nat /\ num[y] \in Nat
        BY <1>9, <1>10, <2>1
      <3>2. \A c \in higher(y) : num[c] > num[y]
        BY DEF higher, Above
      <3>3. x \notin higher(y)
        BY <3>1, <3>2
      <3>4. higher(y) \subseteq U
        BY <1>7, <2>1
      <3>. QED  BY <3>3, <3>4
    <2>. QED  BY <1>7, <1>10, <2>1
  <1>13. /\ Total(v, U) = v[x] + Total(v, U \ {x})
         /\ Total(w, U) = w[x] + Total(w, U \ {x})
    BY <1>1, <1>4, <1>10, <1>9, TotalRemove
  <1>14. v[x] = Cut(w[x] - Cut(R - Total(w, U \ {x})))
    BY <1>2, <1>10, <1>11
  <1>15. w[x] \in Nat /\ Total(w, U \ {x}) \in Nat
    BY <1>1, <1>2, <1>10
  <1>16. Total(v, U) = Cut(Total(w, U) - R)
    <2> DEFINE n == Total(w, U \ {x})
    <2>1. /\ Total(v, U) = Cut(w[x] - Cut(R - n)) + Cut(n - R)
          /\ Total(w, U) = w[x] + n /\ n \in Nat /\ w[x] \in Nat
      BY <1>12, <1>13, <1>14, <1>15
    <2> HIDE DEF n
    <2>. QED  BY <2>1 DEF Cut
  <1>. QED  BY <1>7, <1>16

\* What carries no weight may be left out.
LEMMA TotalWithout ==
  ASSUME NEW w, NEW S, Weighs(w, S), NEW T \in SUBSET S, \A x \in S \ T : w[x] = 0
  PROVE  Total(w, T) = Total(w, S)
  <1> DEFINE G == {s \in SUBSET (S \ T) : Total(w, T \cup s) = Total(w, T)}
  <1>1. \A U \in SUBSET S : Weighs(w, U)
    BY FS_Subset DEF Weighs
  <1>2. {} \in G
    <2>1. T \cup {} = T
      OBVIOUS
    <2>. QED  BY <2>1
  <1>3. ASSUME NEW s \in SUBSET (S \ T), NEW x \in (S \ T) \ s, s \in G
        PROVE  s \cup {x} \in G
    <2> DEFINE U == T \cup s
    <2>1. Weighs(w, U) /\ x \notin U /\ w[x] = 0 /\ Total(w, U) = Total(w, T)
      BY <1>1, <1>3
    <2>2. U \cup {x} = T \cup (s \cup {x})
      OBVIOUS
    <2> HIDE DEF U
    <2>n. w[x] \in Nat
      BY <2>1
    <2>3. Total(w, U \cup {x}) = w[x] + Total(w, U) /\ Total(w, U) \in Nat
      BY <2>1, <2>n, TotalAdd, TotalNat
    <2>4. Total(w, U \cup {x}) = Total(w, T)
      BY <2>1, <2>3
    <2>5. Total(w, T \cup (s \cup {x})) = Total(w, T)
      BY <2>2, <2>4, Zenon
    <2>. QED  BY <1>3, <2>5
  <1>4. IsFiniteSet(S \ T)
    BY FS_Subset DEF Weighs
  <1> HIDE DEF G
  <1>5. (S \ T) \in G
    BY <1>2, <1>3, <1>4, SetGrows
  <1>6. T \cup (S \ T) = S
    OBVIOUS
  <1>. QED  BY <1>5, <1>6 DEF G
=============================================================================
