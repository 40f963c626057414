------------------------ MODULE TimeseriesSinkProofs ------------------------
(***************************************************************************)
(* The proofs about TimeseriesSink and Verdict, for any runs, assertions,  *)
(* queue sizes and failing writes.  A tick of a run is in its rows, in the *)
(* queue, in the hands of the drain task, or counted as lost, and a run    *)
(* that has joined the queue has none left there (KeptInv); so a verdict   *)
(* looks at all that is left of the run.  Control events are counted by    *)
(* run in the same way (AuditInv).                                         *)
(***************************************************************************)
EXTENDS TimeseriesSink, SetLemmas, SequenceTheorems

LEMMA Sizes ==
  /\ QueueMax \in Nat \ {0} /\ K \in Nat \ {0} /\ EndTick \in [Runs -> Nat \ {0}]
  BY SizesAssumption

-----------------------------------------------------------------------------
(* The verdict. *)

LEMMA StatusOf ==
  ASSUME NEW c \in Checks, NEW R, NEW d, NEW last, NEW m, NEW k
  PROVE  Evaluate(c, R, d, last, m, k) \in Status
  <1>1. Universal(R, d, m) \in Status
    BY DEF Universal, Status
  <1>2. Existential(R, d, m) \in Status
    BY DEF Existential, Status
  <1>3. Final(R, last, m) \in Status
    BY DEF Final, Status
  <1>4. Persistent(R, d, m, k) \in Status
    BY DEF Persistent, Status
  <1>5. Peak(R, m) \in Status
    BY DEF Peak, Status
  <1>. QED  BY <1>1, <1>2, <1>3, <1>4, <1>5 DEF Evaluate, Checks

\* A finite set of numbers has a greatest one, and Max is it.
LEMMA MaxOf ==
  ASSUME NEW n \in Nat, NEW S \in SUBSET (1 .. n), S # {}
  PROVE  Max(S) \in S /\ \A s \in S : s <= Max(S)
  <1> DEFINE U == {u \in 0 .. n : \A s \in S : s <= u}
  <1>1. \E m \in S : \A s \in S : m >= s
    <2>1. IsFiniteSet(0 .. n)
      BY FS_Interval
    <2>2. U \subseteq 0 .. n /\ n \in U
      OBVIOUS
    <2>3. IsFiniteSet(U)
      BY <2>1, <2>2, FS_Subset
    <2>4. PICK m \in U : \A u \in U : m <= u
      <3>1. U \in SUBSET Int /\ U # {}
        BY <2>2
      <3> HIDE DEF U
      <3>. QED  BY <2>3, <3>1, LeastOf
    <2>5. m \in 0 .. n /\ \A s \in S : s \in Int /\ 1 <= s /\ s <= m
      OBVIOUS
    <2>6. m \in S
      <3>1. SUFFICES ASSUME m \notin S PROVE FALSE
        OBVIOUS
      <3>2. \A s \in S : s <= m - 1
        BY <2>5, <3>1
      <3>3. m - 1 \in U
        <4>1. PICK s \in S : TRUE
          OBVIOUS
        <4>2. m - 1 \in 0 .. n
          BY <2>5, <3>1, <4>1
        <4>. QED  BY <3>2, <4>2
      <3>4. m <= m - 1
        BY <2>4, <3>3
      <3>. QED  BY <2>5, <3>4
    <2>. QED  BY <2>5, <2>6
  <1>2. PICK m \in S : \A s \in S : m >= s
    BY <1>1
  <1>3. Max(S) = CHOOSE x \in S : \A y \in S : x >= y
    BY DEF Max
  <1>4. Max(S) \in S /\ \A s \in S : Max(S) >= s
    BY <1>2, <1>3
  <1>. QED  BY <1>4

\* A verdict from some of the ticks is true of all of them, when nothing is missing
\* unless the sink has counted it.
LEMMA EvaluateTruthful ==
  ASSUME NEW c \in Checks, c # "peak", NEW had \in Nat, NEW last \in Nat, had <= last,
         NEW R \in SUBSET (1 .. had), NEW d \in Nat, d = 0 => R = 1 .. had,
         NEW m, NEW k \in Nat
  PROVE  Truthful(Evaluate(c, R, d, last, m, k), c, had, last, m, k)
  <1> DEFINE happened == m \cap 1 .. had
             status == Evaluate(c, R, d, last, m, k)
  <1>1. ~HasGaps(R, d) => R \cap m = happened
    BY DEF HasGaps
  <1>2. R \cap m \subseteq happened
    OBVIOUS
  <1>3. CASE c = "universal"
    <2>1. status = Universal(R, d, m)
      BY <1>3 DEF Evaluate
    <2>2. status = "PASS" => happened = {}
      BY <1>1, <2>1 DEF Universal
    <2>3. status = "FAIL" => happened # {}
      BY <1>2, <2>1 DEF Universal
    <2>. QED  BY <1>3, <2>2, <2>3 DEF Truthful
  <1>4. CASE c = "existential"
    <2>1. status = Existential(R, d, m)
      BY <1>4 DEF Evaluate
    <2>2. status = "PASS" => happened # {}
      BY <1>2, <2>1 DEF Existential
    <2>3. status = "FAIL" => happened = {}
      BY <1>1, <2>1 DEF Existential
    <2>. QED  BY <1>4, <2>2, <2>3 DEF Truthful
  <1>5. CASE c = "final"
    <2>1. status = Final(R, last, m)
      BY <1>5 DEF Evaluate
    <2>2. status # "INCONCLUSIVE" =>
            /\ had = last
            /\ status = "PASS" => last \notin m
            /\ status = "FAIL" => last \in m
      <3>1. CASE R = {}
        BY <2>1, <3>1 DEF Final
      <3>2. CASE R # {}
        <4>1. Max(R) \in 1 .. had
          BY <3>2, MaxOf
        <4>. QED  BY <2>1, <3>2, <4>1 DEF Final
      <3>. QED  BY <3>1, <3>2
    <2>. QED  BY <1>5, <2>2 DEF Truthful
  <1>6. CASE c = "persistent"
    <2>1. status = Persistent(R, d, m, k)
      BY <1>6 DEF Evaluate
    <2>2. Stretch(R \cap m, k) => Stretch(happened, k)
      BY <1>2 DEF Stretch
    <2>3. status = "PASS" => Stretch(happened, k)
      BY <2>1, <2>2 DEF Persistent
    <2>4. status = "FAIL" => ~Stretch(happened, k)
      BY <1>1, <2>1 DEF Persistent
    <2>. QED  BY <1>6, <2>3, <2>4 DEF Truthful
  <1>. QED  BY <1>3, <1>4, <1>5, <1>6 DEF Checks

-----------------------------------------------------------------------------
(* The queues. *)

Queued(r) == {t \in Ticks : \E i \in 1 .. Len(queue) : queue[i] = <<r, t>>}
InHand(r) == {t \in Ticks : writing = <<r, t>>}

\* What is left of the ticks of a run, wherever it is.
Kept(r) == rows[r] \cup Queued(r) \cup InHand(r)

LEMMA Items ==
  ASSUME NEW x \in Item
  PROVE  x[1] \in Runs /\ x[2] \in Ticks /\ x = <<x[1], x[2]>> /\ x # <<>>
  BY DEF Item

LEMMA TickOf ==
  ASSUME NEW r \in Runs, NEW t \in 1 .. EndTick[r]
  PROVE  t \in Ticks /\ t \in Nat /\ <<r, t>> \in Item
  BY Sizes DEF Ticks, Item

\* A tick enters the queue.
LEMMA TickQueued ==
  ASSUME queue \in Seq(Item), NEW r \in Runs, NEW t \in Ticks, queue' = Append(queue, <<r, t>>)
  PROVE  /\ queue' \in Seq(Item) /\ Len(queue') = Len(queue) + 1
         /\ Queued(r)' = Queued(r) \cup {t}
         /\ \A q \in Runs : q # r => Queued(q)' = Queued(q)
  <1> DEFINE n == Len(queue)
  <1>1. n \in Nat /\ <<r, t>> \in Item
    BY DEF Item
  <1>2. /\ queue' \in Seq(Item) /\ Len(queue') = n + 1
        /\ \A i \in 1 .. n : queue'[i] = queue[i]
        /\ queue'[n + 1] = <<r, t>>
    BY <1>1
  <1> HIDE DEF n
  <1>3. \A x : (\E i \in 1 .. n + 1 : queue'[i] = x) <=> (\E i \in 1 .. n : queue[i] = x) \/ x = <<r, t>>
    <2>1. \A i \in 1 .. n + 1 : i \in 1 .. n \/ i = n + 1
      BY <1>1
    <2>2. n + 1 \in 1 .. n + 1 /\ \A i \in 1 .. n : i \in 1 .. n + 1
      BY <1>1
    <2>. QED  BY <1>2, <2>1, <2>2
  <1>4. \A q \in Runs, s \in Ticks :
          s \in Queued(q)' <=> s \in Queued(q) \/ (q = r /\ s = t)
    BY <1>2, <1>3 DEF Queued, n
  <1>5. \A q \in Runs : Queued(q)' \subseteq Ticks /\ Queued(q) \subseteq Ticks
    BY DEF Queued, Ticks
  <1>. QED  BY <1>2, <1>4, <1>5 DEF n

\* The head of the queue goes into the hands of the drain task.
LEMMA TickTaken ==
  ASSUME queue \in Seq(Item), queue # <<>>, queue' = Tail(queue), writing = <<>>,
         writing' = Head(queue)
  PROVE  /\ queue' \in Seq(Item) /\ Len(queue') = Len(queue) - 1 /\ Len(queue) \in Nat
         /\ writing' \in Item /\ writing' # <<>>
         /\ \A r \in Runs : (Queued(r) \cup InHand(r))' = Queued(r) \cup InHand(r)
  <1> DEFINE n == Len(queue)
  <1>1. n \in Nat /\ n > 0 /\ writing' = queue[1] /\ queue[1] \in Item
    OBVIOUS
  <1>2. /\ queue' \in Seq(Item) /\ Len(queue') = n - 1
        /\ \A i \in 1 .. n - 1 : queue'[i] = queue[i + 1]
    BY <1>1
  <1> HIDE DEF n
  <1>3. \A x : (\E i \in 1 .. n : queue[i] = x) <=> (\E i \in 1 .. n - 1 : queue'[i] = x) \/ x = queue[1]
    <2>1. \A i \in 1 .. n : i = 1 \/ (i - 1 \in 1 .. n - 1 /\ (i - 1) + 1 = i)
      BY <1>1
    <2>2. 1 \in 1 .. n /\ \A i \in 1 .. n - 1 : i + 1 \in 1 .. n
      BY <1>1
    <2>. QED  BY <1>2, <2>1, <2>2
  <1>4. \A r \in Runs, s \in Ticks :
          s \in Queued(r) <=> s \in Queued(r)' \/ s \in InHand(r)'
    BY <1>1, <1>2, <1>3 DEF Queued, InHand, n
  <1>5. \A r \in Runs : InHand(r) = {} /\ Queued(r) \subseteq Ticks /\ (Queued(r) \cup InHand(r))' \subseteq Ticks
    BY DEF Queued, InHand, Ticks
  <1>6. writing' \in Item /\ writing' # <<>>
    BY <1>1, Items
  <1>. QED  BY <1>1, <1>2, <1>4, <1>5, <1>6 DEF n

\* The tick in hand is written or forgotten.
LEMMA TickDone ==
  ASSUME writing \in Item, writing' = <<>>
  PROVE  /\ \A r \in Runs : InHand(r)' = {}
         /\ InHand(writing[1]) = {writing[2]}
         /\ \A r \in Runs : r # writing[1] => InHand(r) = {}
  <1>1. /\ writing[1] \in Runs /\ writing[2] \in Ticks /\ writing = <<writing[1], writing[2]>>
    BY Items
  <1>. QED  BY <1>1 DEF InHand

-----------------------------------------------------------------------------
(* What was appended is somewhere.                                           *)

Before == {"running", "joining"}

KeptInv ==
  /\ unfinished = Len(queue) + IF writing = <<>> THEN 0 ELSE 1
  /\ \A r \in Runs :
       /\ Kept(r) \subseteq 1 .. tick[r] /\ lost[r] <= dropped
       /\ r \notin WriteFails => Cardinality(Kept(r)) + lost[r] = tick[r]
       /\ pc[r] \notin Before => Queued(r) = {} /\ InHand(r) = {}

SinkInv == TypeOK /\ KeptInv

LEMMA SinkFields ==
  ASSUME SinkInv
  PROVE  /\ Len(queue) \in Nat /\ unfinished \in Nat /\ dropped \in Nat
         /\ \A r \in Runs : /\ tick[r] \in Nat /\ tick[r] <= EndTick[r] /\ EndTick[r] \in Nat
                            /\ lost[r] \in Nat /\ IsFiniteSet(Kept(r)) /\ Cardinality(Kept(r)) \in Nat
  <1>1. Len(queue) \in Nat /\ unfinished \in Nat /\ dropped \in Nat
    BY DEF SinkInv, TypeOK
  <1>2. ASSUME NEW r \in Runs
        PROVE  /\ tick[r] \in Nat /\ tick[r] <= EndTick[r] /\ EndTick[r] \in Nat
               /\ lost[r] \in Nat /\ IsFiniteSet(Kept(r)) /\ Cardinality(Kept(r)) \in Nat
    <2>1. /\ tick[r] \in Nat /\ tick[r] <= EndTick[r] /\ EndTick[r] \in Nat
          /\ lost[r] \in Nat /\ Kept(r) \subseteq 1 .. tick[r]
      BY Sizes DEF SinkInv, TypeOK, KeptInv
    <2>2. \A n \in Nat : IsFiniteSet(1 .. n)
      BY FS_Interval
    <2>3. IsFiniteSet(Kept(r))
      BY <2>1, <2>2, FS_Subset
    <2>. QED  BY <2>1, <2>3, FS_CardinalityType
  <1>. QED  BY <1>1, <1>2

\* Nothing is unfinished: the queue is empty, and so are the drain task's hands.
LEMMA NothingLeft ==
  ASSUME SinkInv, unfinished = 0, NEW r \in Runs
  PROVE  Queued(r) = {} /\ InHand(r) = {}
  <1>1. Len(queue) = 0 /\ writing = <<>>
    BY SinkFields DEF SinkInv, KeptInv
  <1>2. InHand(r) = {}
    BY <1>1 DEF InHand
  <1>. QED  BY <1>1, <1>2 DEF Queued

\* The steps that leave the ticks alone.
LEMMA KeptSame ==
  ASSUME SinkInv, UNCHANGED <<tick, tickVars>>,
         \A r \in Runs : pc'[r] \notin Before => pc[r] \notin Before \/ unfinished = 0
  PROVE  KeptInv'
  <1>1. \A r \in Runs : /\ Queued(r)' = Queued(r) /\ InHand(r)' = InHand(r) /\ Kept(r)' = Kept(r)
                        /\ tick'[r] = tick[r] /\ lost'[r] = lost[r]
    BY DEF tickVars, Queued, InHand, Kept
  <1>2. UNCHANGED <<unfinished, queue, writing, dropped>>
    BY DEF tickVars
  <1>3. ASSUME NEW r \in Runs
        PROVE  /\ Kept(r)' \subseteq 1 .. tick'[r] /\ lost'[r] <= dropped'
               /\ r \notin WriteFails => Cardinality(Kept(r)') + lost'[r] = tick'[r]
               /\ pc'[r] \notin Before => Queued(r)' = {} /\ InHand(r)' = {}
    BY <1>1, <1>2, NothingLeft DEF SinkInv, KeptInv
  <1>. QED  BY <1>2, <1>3 DEF SinkInv, KeptInv

LEMMA AppendKeeps ==
  ASSUME SinkInv, NEW r \in Runs, AppendTick(r)
  PROVE  SinkInv'
  <1> DEFINE t == tick[r] + 1
  <1>1. /\ pc[r] = "running" /\ pc' = pc /\ t \in Nat /\ t \in Ticks /\ t <= EndTick[r]
        /\ tick' = [tick EXCEPT ![r] = t] /\ tick \in [Runs -> Nat]
        /\ UNCHANGED <<check, marked, writing, rows, ceVars, verdict>>
    <2>1. /\ pc[r] = "running" /\ pc' = pc /\ tick[r] < EndTick[r] /\ tick' = [tick EXCEPT ![r] = @ + 1]
          /\ UNCHANGED <<check, marked, writing, rows, ceVars, verdict>>
      BY DEF AppendTick
    <2>2. tick[r] \in Nat /\ EndTick[r] \in Nat /\ tick \in [Runs -> Nat]
      BY SinkFields DEF SinkInv, TypeOK
    <2>3. t \in 1 .. EndTick[r]
      BY <2>1, <2>2
    <2>4. t \in Ticks
      BY <2>3, TickOf
    <2>. QED  BY <2>1, <2>2, <2>3, <2>4
  <1>2. /\ tick'[r] = t /\ \A q \in Runs : q # r => tick'[q] = tick[q]
        /\ tick' \in [Runs -> Nat] /\ \A q \in Runs : tick'[q] <= EndTick[q]
    BY <1>1 DEF SinkInv, TypeOK
  <1>3. \A q \in Runs : InHand(q)' = InHand(q)
    BY <1>1 DEF InHand
  <1>4. CASE Len(queue) < QueueMax
    <2>1. /\ queue' = Append(queue, <<r, t>>) /\ unfinished' = unfinished + 1
          /\ UNCHANGED <<dropped, lost>>
      BY <1>4 DEF AppendTick
    <2>2. /\ queue' \in Seq(Item) /\ Len(queue') = Len(queue) + 1
          /\ Queued(r)' = Queued(r) \cup {t}
          /\ \A q \in Runs : q # r => Queued(q)' = Queued(q)
      BY <1>1, <2>1, TickQueued DEF SinkInv, TypeOK
    <2>3. /\ Kept(r)' = Kept(r) \cup {t} /\ t \notin Kept(r)
          /\ \A q \in Runs : q # r => Kept(q)' = Kept(q)
      <3>1. t \notin Kept(r)
        BY <1>1, SinkFields DEF SinkInv, KeptInv
      <3>2. Kept(r)' = Kept(r) \cup {t}
        BY <1>1, <1>3, <2>2 DEF Kept
      <3>3. \A q \in Runs : q # r => Kept(q)' = Kept(q)
        BY <1>1, <1>3, <2>2 DEF Kept
      <3>. QED  BY <3>1, <3>2, <3>3
    <2>4. Cardinality(Kept(r)') = Cardinality(Kept(r)) + 1
      BY <2>3, SinkFields, FS_AddElement
    <2>5. unfinished' = Len(queue') + IF writing' = <<>> THEN 0 ELSE 1
      BY <1>1, <2>1, <2>2, SinkFields DEF SinkInv, KeptInv
    <2>6. ASSUME NEW q \in Runs
          PROVE  /\ Kept(q)' \subseteq 1 .. tick'[q] /\ lost'[q] <= dropped'
                 /\ q \notin WriteFails => Cardinality(Kept(q)') + lost'[q] = tick'[q]
                 /\ pc'[q] \notin Before => Queued(q)' = {} /\ InHand(q)' = {}
      <3>1. CASE q = r
        <4>1. Kept(r) \subseteq 1 .. tick[r] /\ tick[r] \in Nat
          BY SinkFields DEF SinkInv, KeptInv
        <4>2. Kept(r)' \subseteq 1 .. t
          BY <2>3, <4>1
        <4>3. r \notin WriteFails => Cardinality(Kept(r)') + lost'[r] = t
          <5>1. /\ r \notin WriteFails => Cardinality(Kept(r)) + lost[r] = tick[r]
                /\ Cardinality(Kept(r)) \in Nat /\ lost[r] \in Nat /\ lost'[r] = lost[r]
            BY <2>1, SinkFields DEF SinkInv, KeptInv
          <5>. QED  BY <2>4, <4>1, <5>1
        <4>. QED  BY <1>1, <1>2, <2>1, <3>1, <4>2, <4>3 DEF Before, SinkInv, KeptInv
      <3>2. CASE q # r
        BY <1>1, <1>2, <1>3, <2>1, <2>2, <2>3, <3>2 DEF SinkInv, KeptInv
      <3>. QED  BY <3>1, <3>2
    <2>7. TypeOK'
      <3>1. Len(queue') <= QueueMax /\ unfinished' \in Nat
        BY <1>4, <2>1, <2>2, SinkFields, Sizes
      <3>. QED  BY <1>1, <1>2, <2>1, <2>2, <3>1 DEF SinkInv, TypeOK, ceVars
    <2>. QED  BY <2>5, <2>6, <2>7 DEF SinkInv, KeptInv
  <1>5. CASE ~(Len(queue) < QueueMax)
    <2>1. /\ dropped' = dropped + 1 /\ lost' = [lost EXCEPT ![r] = @ + 1]
          /\ UNCHANGED <<queue, unfinished>>
      BY <1>5 DEF AppendTick
    <2>2. /\ lost'[r] = lost[r] + 1 /\ \A q \in Runs : q # r => lost'[q] = lost[q]
          /\ lost' \in [Runs -> Nat] /\ dropped' \in Nat
      BY <2>1 DEF SinkInv, TypeOK
    <2>3. \A q \in Runs : Queued(q)' = Queued(q) /\ Kept(q)' = Kept(q)
      BY <1>1, <1>3, <2>1 DEF Queued, Kept
    <2>4. ASSUME NEW q \in Runs
          PROVE  /\ Kept(q)' \subseteq 1 .. tick'[q] /\ lost'[q] <= dropped'
                 /\ q \notin WriteFails => Cardinality(Kept(q)') + lost'[q] = tick'[q]
                 /\ pc'[q] \notin Before => Queued(q)' = {} /\ InHand(q)' = {}
      <3>1. /\ Kept(q) \subseteq 1 .. tick[q] /\ tick[q] \in Nat /\ lost[q] \in Nat /\ dropped \in Nat
            /\ lost[q] <= dropped /\ Cardinality(Kept(q)) \in Nat
            /\ q \notin WriteFails => Cardinality(Kept(q)) + lost[q] = tick[q]
        BY SinkFields DEF SinkInv, KeptInv
      <3>2. CASE q = r
        <4>1. Kept(r)' \subseteq 1 .. t
          BY <2>3, <3>1, <3>2
        <4>2. r \notin WriteFails => Cardinality(Kept(r)') + lost'[r] = t
          BY <2>2, <2>3, <3>1, <3>2
        <4>. QED  BY <1>1, <1>2, <2>1, <2>2, <3>1, <3>2, <4>1, <4>2 DEF Before
      <3>3. CASE q # r
        BY <1>1, <1>2, <1>3, <2>1, <2>2, <2>3, <3>1, <3>3 DEF SinkInv, KeptInv
      <3>. QED  BY <3>2, <3>3
    <2>5. TypeOK'
      BY <1>1, <1>2, <2>1, <2>2 DEF SinkInv, TypeOK, ceVars
    <2>. QED  BY <1>1, <2>1, <2>4, <2>5 DEF SinkInv, KeptInv
  <1>. QED  BY <1>4, <1>5

LEMMA TakeKeeps ==
  ASSUME SinkInv, Take
  PROVE  SinkInv'
  <1>1. /\ writing = <<>> /\ queue # <<>> /\ queue \in Seq(Item)
        /\ writing' = Head(queue) /\ queue' = Tail(queue)
        /\ UNCHANGED <<runVars, pc, unfinished, rows, dropped, lost, ceVars, verdict>>
    BY DEF Take, SinkInv, TypeOK
  <1>2. /\ queue' \in Seq(Item) /\ Len(queue') = Len(queue) - 1 /\ Len(queue) \in Nat
        /\ writing' \in Item /\ writing' # <<>>
        /\ \A r \in Runs : (Queued(r) \cup InHand(r))' = Queued(r) \cup InHand(r)
    BY <1>1, TickTaken
  <1>3. unfinished' = Len(queue') + IF writing' = <<>> THEN 0 ELSE 1
    BY <1>1, <1>2 DEF SinkInv, KeptInv
  <1>4. ASSUME NEW r \in Runs
        PROVE  /\ Kept(r)' = Kept(r)
               /\ Queued(r) = {} /\ InHand(r) = {} => Queued(r)' = {} /\ InHand(r)' = {}
    <2>1. Queued(r)' \cup InHand(r)' = Queued(r) \cup InHand(r)
      BY <1>2
    <2>. QED  BY <1>1, <2>1 DEF Kept
  <1>5. TypeOK'
    <2>1. Len(queue') <= QueueMax
      BY <1>2, Sizes DEF SinkInv, TypeOK
    <2>. QED  BY <1>1, <1>2, <2>1 DEF SinkInv, TypeOK, runVars, ceVars
  <1>. QED  BY <1>1, <1>3, <1>4, <1>5 DEF SinkInv, KeptInv, runVars

\* The tick in hand is done with: it is a row, or its write failed.
LEMMA DoneKeeps ==
  ASSUME SinkInv, Write \/ WriteRaises
  PROVE  SinkInv'
  <1> DEFINE w == writing[1]
  <1>1. /\ writing # <<>> /\ writing \in Item /\ writing' = <<>> /\ TaskDone
        /\ UNCHANGED <<runVars, queue, dropped, lost, ceVars, verdict>>
    BY DEF Write, WriteRaises, SinkInv, TypeOK
  <1>2. /\ \A r \in Runs : InHand(r)' = {}
        /\ InHand(w) = {writing[2]}
        /\ \A r \in Runs : r # w => InHand(r) = {}
        /\ w \in Runs /\ writing[2] \in Ticks
    BY <1>1, TickDone, Items
  <1>3. \/ rows' = [rows EXCEPT ![w] = @ \cup {writing[2]}]
        \/ rows' = rows /\ w \in WriteFails
    BY DEF Write, WriteRaises
  <1>4. \A r \in Runs : Queued(r)' = Queued(r)
    BY <1>1 DEF Queued
  <1>5. rows' \in [Runs -> SUBSET Ticks] /\ rows \in [Runs -> SUBSET Ticks]
    <2>1. rows \in [Runs -> SUBSET Ticks]
      BY DEF SinkInv, TypeOK
    <2>2. rows[w] \cup {writing[2]} \in SUBSET Ticks
      BY <1>2, <2>1
    <2> HIDE DEF w
    <2>. QED  BY <1>3, <2>1, <2>2
  <1> HIDE DEF w
  <1>6. ASSUME NEW r \in Runs
        PROVE  Kept(r)' \subseteq Kept(r) /\ (r \notin WriteFails => Kept(r)' = Kept(r))
    <2>1. CASE r = w
      <3>1. \/ rows'[w] = rows[w] \cup InHand(w)
            \/ rows'[w] = rows[w] /\ w \in WriteFails
        BY <1>2, <1>3, <1>5
      <3>. QED  BY <1>2, <1>4, <2>1, <3>1 DEF Kept
    <2>2. CASE r # w
      <3>1. rows'[r] = rows[r]
        BY <1>2, <1>3, <1>5, <2>2
      <3>. QED  BY <1>2, <1>4, <2>2, <3>1 DEF Kept
    <2>. QED  BY <2>1, <2>2
  <1>7. /\ unfinished' = unfinished - 1 /\ unfinished = Len(queue) + 1
        /\ Len(queue) \in Nat /\ unfinished' \in Nat
    BY <1>1, SinkFields DEF SinkInv, KeptInv, TaskDone
  <1>8. unfinished' = Len(queue') + IF writing' = <<>> THEN 0 ELSE 1
    BY <1>1, <1>7
  <1>9. \A r \in Runs : pc'[r] \notin Before => pc[r] \notin Before \/ Len(queue) = 0
    BY <1>1, <1>7 DEF TaskDone, Before
  <1>10. ASSUME NEW r \in Runs
        PROVE  /\ Kept(r)' \subseteq 1 .. tick'[r] /\ lost'[r] <= dropped'
               /\ r \notin WriteFails => Cardinality(Kept(r)') + lost'[r] = tick'[r]
               /\ pc'[r] \notin Before => Queued(r)' = {} /\ InHand(r)' = {}
    <2>1. Len(queue) = 0 => Queued(r) = {}
      BY DEF Queued
    <2>2. pc'[r] \notin Before => Queued(r)' = {} /\ InHand(r)' = {}
      BY <1>2, <1>4, <1>9, <2>1 DEF SinkInv, KeptInv
    <2>3. UNCHANGED <<tick, lost, dropped>>
      BY <1>1 DEF runVars
    <2>. QED  BY <1>6, <2>2, <2>3 DEF SinkInv, KeptInv
  <1>11. TypeOK'
    <2>1. pc' \in [Runs -> {"running", "joining", "reading", "flushing", "flushed",
                        "flushingCe", "recording", "done"}]
      BY <1>1 DEF TaskDone, SinkInv, TypeOK
    <2>. QED  BY <1>1, <1>5, <1>7, <2>1 DEF SinkInv, TypeOK, runVars, ceVars
  <1>. QED  BY <1>8, <1>10, <1>11 DEF SinkInv, KeptInv

LEMMA EndKeeps ==
  ASSUME SinkInv, NEW r \in Runs, End(r)
  PROVE  SinkInv'
  <1>1. /\ UNCHANGED <<runVars, tickVars, ceVars, verdict>> /\ pc[r] = "running"
        /\ pc' = [pc EXCEPT ![r] = IF unfinished = 0 THEN "reading" ELSE "joining"]
    BY DEF End, Join
  <1>2. \A q \in Runs : pc'[q] \notin Before => pc[q] \notin Before \/ unfinished = 0
    BY <1>1 DEF Before, SinkInv, TypeOK
  <1>3. KeptInv'
    BY <1>1, <1>2, KeptSame DEF runVars
  <1>. QED  BY <1>1, <1>3 DEF SinkInv, TypeOK, runVars, tickVars, ceVars

LEMMA FinishKeeps ==
  ASSUME SinkInv, NEW r \in Runs, Finish(r)
  PROVE  SinkInv'
  <1>1. /\ UNCHANGED <<runVars, tickVars, ceVars>> /\ pc[r] \notin Before
        /\ pc' \in [Runs -> {"running", "joining", "reading", "flushing", "flushed",
                             "flushingCe", "recording", "done"}]
        /\ \A q \in Runs : q # r => pc'[q] = pc[q]
    <2>1. CASE EvaluateVerdict(r)
      BY <2>1 DEF EvaluateVerdict, Join, Before, SinkInv, TypeOK
    <2>2. CASE JoinControlEvents(r)
      BY <2>2 DEF JoinControlEvents, Join, Before, SinkInv, TypeOK
    <2>3. CASE Record(r)
      BY <2>3 DEF Record, Before, SinkInv, TypeOK
    <2>. QED  BY <2>1, <2>2, <2>3 DEF Finish
  <1>2. verdict' \in [Runs -> Status \cup {"none"}]
    <2>1. check[r] \in Checks /\ verdict \in [Runs -> Status \cup {"none"}]
      BY DEF SinkInv, TypeOK
    <2>2. \/ verdict' = verdict
          \/ \E s \in Status : verdict' = [verdict EXCEPT ![r] = s]
      BY <2>1, StatusOf DEF Finish, EvaluateVerdict, JoinControlEvents, Record
    <2>. QED  BY <2>1, <2>2
  <1>3. KeptInv'
    BY <1>1, KeptSame DEF runVars
  <1>. QED  BY <1>1, <1>2, <1>3 DEF SinkInv, TypeOK, runVars, tickVars, ceVars

LEMMA ControlEventKeeps ==
  ASSUME SinkInv, DrainControlEvents \/ \E r \in Runs : AppendControlEvent(r)
  PROVE  SinkInv'
  <1>1. UNCHANGED <<runVars, tickVars, verdict>>
    BY DEF DrainControlEvents, WriteControlEvent, ControlEventRaises, AppendControlEvent
  <1>2. /\ pc' \in [Runs -> {"running", "joining", "reading", "flushing", "flushed",
                             "flushingCe", "recording", "done"}]
        /\ \A r \in Runs : pc'[r] \notin Before => pc[r] \notin Before
    BY DEF DrainControlEvents, WriteControlEvent, ControlEventRaises, CeTaskDone,
           AppendControlEvent, SinkInv, TypeOK, Before
  <1>3. /\ audit' \in [Runs -> Nat] /\ auditRows' \in [Runs -> Nat] /\ ceQueue' \in Seq(Runs)
    <2>1. audit \in [Runs -> Nat] /\ auditRows \in [Runs -> Nat] /\ ceQueue \in Seq(Runs)
      BY DEF SinkInv, TypeOK
    <2>2. CASE DrainControlEvents
      <3>1. ceQueue # <<>> /\ ceQueue' = Tail(ceQueue) /\ audit' = audit
        BY <2>2 DEF DrainControlEvents, WriteControlEvent, ControlEventRaises
      <3>2. Head(ceQueue) \in Runs /\ ceQueue' \in Seq(Runs)
        BY <2>1, <3>1
      <3>3. auditRows' = auditRows \/ auditRows' = [auditRows EXCEPT ![Head(ceQueue)] = @ + 1]
        BY <2>2 DEF DrainControlEvents, WriteControlEvent, ControlEventRaises
      <3>4. ASSUME auditRows' = [auditRows EXCEPT ![Head(ceQueue)] = @ + 1]
            PROVE  auditRows' \in [Runs -> Nat]
        <4>1. auditRows[Head(ceQueue)] + 1 \in Nat
          BY <2>1, <3>2
        <4>. QED  BY <2>1, <3>4, <4>1
      <3>. QED  BY <2>1, <3>1, <3>2, <3>3, <3>4
    <2>3. CASE \E r \in Runs : AppendControlEvent(r)
      BY <2>1, <2>3 DEF AppendControlEvent
    <2>. QED  BY <2>2, <2>3
  <1>4. KeptInv'
    BY <1>1, <1>2, KeptSame DEF runVars
  <1>. QED  BY <1>1, <1>2, <1>3, <1>4 DEF SinkInv, TypeOK, runVars, tickVars

LEMMA SinkStays ==
  ASSUME SinkInv, [Next]_vars
  PROVE  SinkInv'
  <1>1. CASE UNCHANGED vars
    <2>1. KeptInv'
      BY <1>1, KeptSame DEF vars, runVars
    <2>. QED  BY <1>1, <2>1 DEF SinkInv, TypeOK, vars, runVars, tickVars, ceVars
  <1>. QED  BY <1>1, AppendKeeps, EndKeeps, FinishKeeps, TakeKeeps, DoneKeeps, ControlEventKeeps
       DEF Next, Drain

LEMMA InitSink == Init => SinkInv
  <1> SUFFICES ASSUME Init PROVE SinkInv
    OBVIOUS
  <1>1. marked \in [Runs -> SUBSET Ticks]
    <2>1. \A r \in Runs : marked[r] \in Marks[r] /\ Marks[r] \subseteq SUBSET (1 .. EndTick[r])
      BY AssertedAssumption DEF Init
    <2>2. \A r \in Runs : 1 .. EndTick[r] \subseteq Ticks
      BY DEF Ticks
    <2>3. \A r \in Runs : marked[r] \in SUBSET Ticks
      BY <2>1, <2>2
    <2>4. marked \in [Runs -> UNION {Marks[r] : r \in Runs}]
      BY DEF Init
    <2>. QED  BY <2>3, <2>4
  <1>2. \A r \in Runs : tick[r] = 0 /\ lost[r] = 0 /\ EndTick[r] \in Nat /\ 0 <= EndTick[r]
    BY Sizes DEF Init
  <1>3. TypeOK
    <2>1. queue \in Seq(Item) /\ Len(queue) = 0 /\ ceQueue \in Seq(Runs)
      BY DEF Init
    <2>2. check \in [Runs -> Checks]
      BY DEF Init
    <2>3. rows \in [Runs -> SUBSET Ticks] /\ verdict \in [Runs -> Status \cup {"none"}]
      BY DEF Init
    <2>. QED  BY <1>1, <1>2, <2>1, <2>2, <2>3, Sizes DEF Init, TypeOK
  <1>4. \A r \in Runs : Queued(r) = {} /\ InHand(r) = {} /\ Kept(r) = {}
    <2>1. ASSUME NEW r \in Runs PROVE Queued(r) = {} /\ InHand(r) = {}
      BY DEF Init, Queued, InHand
    <2>2. \A r \in Runs : rows[r] = {}
      BY DEF Init
    <2>. QED  BY <2>1, <2>2 DEF Kept
  <1>5. KeptInv
    <2>1. Cardinality({}) = 0
      BY FS_EmptySet
    <2>2. unfinished = Len(queue) + IF writing = <<>> THEN 0 ELSE 1
      BY DEF Init
    <2>3. dropped = 0 /\ \A r \in Runs : pc[r] \in Before
      BY DEF Init, Before
    <2>4. ASSUME NEW r \in Runs
          PROVE  /\ Kept(r) \subseteq 1 .. tick[r] /\ lost[r] <= dropped
                 /\ Cardinality(Kept(r)) + lost[r] = tick[r]
      <3>1. Kept(r) = {} /\ tick[r] = 0 /\ lost[r] = 0
        BY <1>2, <1>4
      <3>. QED  BY <2>1, <2>3, <3>1
    <2>. QED  BY <2>2, <2>3, <2>4 DEF KeptInv
  <1>. QED  BY <1>3, <1>5 DEF SinkInv

-----------------------------------------------------------------------------
(* The control events.                                                       *)

Count(s, r) == Cardinality({i \in 1 .. Len(s) : s[i] = r})

LEMMA CountFacts ==
  ASSUME NEW s \in Seq(Runs), NEW r
  PROVE  /\ IsFiniteSet({i \in 1 .. Len(s) : s[i] = r}) /\ Count(s, r) \in Nat
         /\ Len(s) = 0 => Count(s, r) = 0
  <1> DEFINE S == {i \in 1 .. Len(s) : s[i] = r}
  <1>1. Len(s) \in Nat /\ S \subseteq 1 .. Len(s)
    OBVIOUS
  <1>2. \A n \in Nat : IsFiniteSet(1 .. n)
    BY FS_Interval
  <1>3. IsFiniteSet(S)
    BY <1>1, <1>2, FS_Subset
  <1>4. Len(s) = 0 => S = {}
    OBVIOUS
  <1> HIDE DEF S
  <1>5. Cardinality(S) \in Nat /\ (Len(s) = 0 => Cardinality(S) = 0)
    BY <1>3, <1>4, FS_CardinalityType, FS_EmptySet
  <1>. QED  BY <1>3, <1>5 DEF Count, S

LEMMA CountAppend ==
  ASSUME NEW s \in Seq(Runs), NEW q \in Runs, NEW r
  PROVE  Count(Append(s, q), r) = Count(s, r) + IF q = r THEN 1 ELSE 0
  <1> DEFINE n == Len(s)
             t == Append(s, q)
             S == {i \in 1 .. n : s[i] = r}
             T == {i \in 1 .. n + 1 : t[i] = r}
  <1>1. n \in Nat /\ Len(t) = n + 1 /\ t[n + 1] = q /\ \A i \in 1 .. n : t[i] = s[i]
    OBVIOUS
  <1>2. IsFiniteSet(S) /\ n + 1 \notin S /\ Cardinality(S) \in Nat
    <2>1. n + 1 \notin S
      BY <1>1
    <2>2. IsFiniteSet(S) /\ Cardinality(S) \in Nat
      BY CountFacts DEF Count
    <2>. QED  BY <2>1, <2>2
  <1> HIDE DEF n, t
  <1>3. T = IF q = r THEN S \cup {n + 1} ELSE S
    <2>1. \A i : i \in 1 .. n + 1 <=> i \in 1 .. n \/ i = n + 1
      BY <1>1
    <2>. QED  BY <1>1, <2>1
  <1> HIDE DEF S, T
  <1>4. Cardinality(T) = Cardinality(S) + IF q = r THEN 1 ELSE 0
    <2>1. Cardinality(S \cup {n + 1}) = Cardinality(S) + 1
      BY <1>2, FS_AddElement
    <2>. QED  BY <1>2, <1>3, <2>1
  <1>. QED  BY <1>1, <1>4 DEF Count, S, T, n, t

LEMMA CountTail ==
  ASSUME NEW s \in Seq(Runs), s # <<>>, NEW r
  PROVE  Count(s, r) = Count(Tail(s), r) + IF Head(s) = r THEN 1 ELSE 0
  <1> DEFINE n == Len(s)
             t == Tail(s)
             S == {i \in 1 .. n : s[i] = r}
             T == {i \in 1 .. n - 1 : t[i] = r}
             U == {i \in 2 .. n : s[i] = r}
  <1>1. /\ n \in Nat /\ n > 0 /\ t \in Seq(Runs) /\ Len(t) = n - 1 /\ Head(s) = s[1]
        /\ \A i \in 1 .. n - 1 : t[i] = s[i + 1]
    OBVIOUS
  <1>2. IsFiniteSet(T) /\ Cardinality(T) \in Nat
    BY <1>1, CountFacts DEF Count
  <1> HIDE DEF n, t
  <1>3. ExistsBijection(T, U)
    <2> DEFINE f == [i \in T |-> i + 1]
    <2>1. \A i \in T : i + 1 \in U
      BY <1>1
    <2>2. \A i \in U : i - 1 \in T /\ (i - 1) + 1 = i
      BY <1>1
    <2>3. f \in [T -> U] /\ \A i, k \in T : f[i] = f[k] => i = k
      BY <2>1
    <2>4. \A i \in U : \E k \in T : f[k] = i
      BY <2>2
    <2>5. f \in Bijection(T, U)
      BY <2>3, <2>4 DEF Bijection, Injection, Surjection, IsInjective
    <2>. QED  BY <2>5 DEF ExistsBijection
  <1>4. S = IF Head(s) = r THEN U \cup {1} ELSE U
    <2>1. \A i : i \in 1 .. n <=> i \in 2 .. n \/ i = 1
      BY <1>1
    <2>. QED  BY <1>1, <2>1
  <1>5. 1 \notin U
    OBVIOUS
  <1> HIDE DEF S, T, U
  <1>6. IsFiniteSet(U) /\ Cardinality(U) = Cardinality(T)
    BY <1>2, <1>3, FS_Bijection
  <1>7. Cardinality(S) = Cardinality(T) + IF Head(s) = r THEN 1 ELSE 0
    <2>1. Cardinality(U \cup {1}) = Cardinality(U) + 1
      BY <1>5, <1>6, FS_AddElement
    <2>. QED  BY <1>2, <1>4, <1>6, <2>1
  <1>. QED  BY <1>1, <1>7 DEF Count, S, T, n, t

\* A control event of a run is a row or still in the queue; a run that has joined the
\* queue has none left there.
AuditInv ==
  \A r \in Runs :
    /\ r \notin WriteFails => auditRows[r] + Count(ceQueue, r) = audit[r]
    /\ pc[r] \in {"recording", "done"} => Count(ceQueue, r) = 0

LEMMA EventAppended ==
  ASSUME SinkInv, AuditInv, NEW q \in Runs, AppendControlEvent(q)
  PROVE  AuditInv'
  <1>1. /\ ceQueue \in Seq(Runs) /\ audit \in [Runs -> Nat] /\ auditRows \in [Runs -> Nat]
        /\ pc' = pc /\ auditRows' = auditRows /\ pc[q] = "running"
        /\ audit' = [audit EXCEPT ![q] = @ + 1]
        /\ ceQueue' = Append(ceQueue, q)
    BY DEF AppendControlEvent, SinkInv, TypeOK
  <1>2. ASSUME NEW r \in Runs
        PROVE  /\ Count(ceQueue', r) = Count(ceQueue, r) + IF q = r THEN 1 ELSE 0
               /\ Count(ceQueue, r) \in Nat
               /\ audit'[r] = audit[r] + IF q = r THEN 1 ELSE 0
               /\ auditRows[r] \in Nat
    <2>1. Count(Append(ceQueue, q), r) = Count(ceQueue, r) + IF q = r THEN 1 ELSE 0
      BY <1>1, CountAppend
    <2>2. Count(ceQueue, r) \in Nat
      BY <1>1, CountFacts
    <2>3. audit'[r] = audit[r] + IF q = r THEN 1 ELSE 0
      BY <1>1
    <2>. QED  BY <1>1, <2>1, <2>2, <2>3
  <1>3. ASSUME NEW r \in Runs
        PROVE  /\ r \notin WriteFails => auditRows'[r] + Count(ceQueue', r) = audit'[r]
               /\ pc'[r] \in {"recording", "done"} => Count(ceQueue', r) = 0
    <2>1. /\ r \notin WriteFails => auditRows[r] + Count(ceQueue, r) = audit[r]
          /\ pc[r] \in {"recording", "done"} => Count(ceQueue, r) = 0
      BY DEF AuditInv
    <2>2. q = r => pc[r] \notin {"recording", "done"}
      BY <1>1
    <2> DEFINE c == Count(ceQueue, r)
               d == Count(ceQueue', r)
    <2> HIDE DEF c, d
    <2>3. /\ d = c + (IF q = r THEN 1 ELSE 0) /\ c \in Nat
          /\ r \notin WriteFails => auditRows[r] + c = audit[r]
          /\ pc[r] \in {"recording", "done"} => c = 0
      BY <1>2, <2>1 DEF c, d
    <2>4. /\ auditRows'[r] = auditRows[r] /\ pc'[r] = pc[r]
          /\ audit'[r] = audit[r] + (IF q = r THEN 1 ELSE 0)
          /\ auditRows[r] \in Nat /\ audit[r] \in Nat
      <3>1. audit'[r] = audit[r] + IF q = r THEN 1 ELSE 0
        BY <1>2
      <3>. QED  BY <1>1, <3>1
    <2>5. /\ r \notin WriteFails => auditRows'[r] + d = audit'[r]
          /\ pc'[r] \in {"recording", "done"} => d = 0
      <3>1. CASE q = r
        BY <2>2, <2>3, <2>4, <3>1
      <3>2. CASE q # r
        BY <2>3, <2>4, <3>2
      <3>. QED  BY <3>1, <3>2
    <2>. QED  BY <2>5 DEF d
  <1>. QED  BY <1>3 DEF AuditInv

LEMMA EventDrained ==
  ASSUME SinkInv, AuditInv, DrainControlEvents
  PROVE  AuditInv'
  <1> DEFINE h == Head(ceQueue)
  <1>1. /\ ceQueue \in Seq(Runs) /\ audit \in [Runs -> Nat] /\ auditRows \in [Runs -> Nat]
        /\ ceQueue # <<>> /\ ceQueue' = Tail(ceQueue) /\ audit' = audit /\ CeTaskDone
    BY DEF DrainControlEvents, WriteControlEvent, ControlEventRaises, SinkInv, TypeOK
  <1>2. h \in Runs /\ ceQueue' \in Seq(Runs) /\ Len(ceQueue') = Len(ceQueue) - 1
        /\ Len(ceQueue) \in Nat
    BY <1>1
  <1>3. \/ auditRows' = [auditRows EXCEPT ![h] = @ + 1]
        \/ auditRows' = auditRows /\ h \in WriteFails
    BY DEF DrainControlEvents, WriteControlEvent, ControlEventRaises
  <1> HIDE DEF h
  <1>4. ASSUME NEW r \in Runs
        PROVE  /\ Count(ceQueue, r) = Count(ceQueue', r) + IF h = r THEN 1 ELSE 0
               /\ Count(ceQueue, r) \in Nat /\ Count(ceQueue', r) \in Nat
               /\ Len(ceQueue) = 1 => Count(ceQueue', r) = 0
    <2>1. Count(ceQueue, r) = Count(Tail(ceQueue), r) + IF h = r THEN 1 ELSE 0
      BY <1>1, CountTail DEF h
    <2>2. /\ Count(ceQueue, r) \in Nat /\ Count(ceQueue', r) \in Nat
          /\ Len(ceQueue') = 0 => Count(ceQueue', r) = 0
      BY <1>1, <1>2, CountFacts
    <2>. QED  BY <1>1, <1>2, <2>1, <2>2
  <1>5. ASSUME NEW r \in Runs, r \notin WriteFails
        PROVE  auditRows'[r] + Count(ceQueue', r) = audit'[r]
    <2>1. auditRows'[r] = auditRows[r] + IF h = r THEN 1 ELSE 0
      BY <1>1, <1>3, <1>5
    <2>2. auditRows[r] \in Nat /\ auditRows[r] + Count(ceQueue, r) = audit[r]
      BY <1>1, <1>5 DEF AuditInv
    <2> DEFINE c == Count(ceQueue, r)
               d == Count(ceQueue', r)
    <2>3. c = d + (IF h = r THEN 1 ELSE 0) /\ c \in Nat /\ d \in Nat
      BY <1>4
    <2> HIDE DEF c, d
    <2>4. auditRows[r] + c = audit[r]
      BY <2>2 DEF c
    <2>5. auditRows'[r] + d = audit[r]
      BY <2>1, <2>2, <2>3, <2>4
    <2>. QED  BY <1>1, <2>5 DEF d
  <1>6. ASSUME NEW r \in Runs, pc'[r] \in {"recording", "done"}
        PROVE  Count(ceQueue', r) = 0
    <2>1. Len(ceQueue) = 1 \/ pc[r] \in {"recording", "done"}
      BY <1>1, <1>6 DEF CeTaskDone
    <2>. QED  BY <1>4, <2>1 DEF AuditInv
  <1>. QED  BY <1>5, <1>6 DEF AuditInv

LEMMA AuditStays ==
  ASSUME SinkInv, AuditInv, [Next]_vars
  PROVE  AuditInv'
  <1>1. CASE \E r \in Runs : AppendControlEvent(r)
    BY <1>1, EventAppended
  <1>2. CASE DrainControlEvents
    BY <1>2, EventDrained
  <1>3. ASSUME UNCHANGED ceVars,
               \A r \in Runs : pc'[r] \in {"recording", "done"} =>
                  pc[r] \in {"recording", "done"} \/ ceQueue = <<>>
        PROVE  AuditInv'
    <2>1. \A r : ceQueue = <<>> => Count(ceQueue, r) = 0
      BY CountFacts DEF SinkInv, TypeOK
    <2>. QED  BY <1>3, <2>1 DEF AuditInv, ceVars
  <1>4. CASE \E r \in Runs : AppendTick(r) \/ End(r) \/ Finish(r)
    <2>1. PICK r \in Runs : AppendTick(r) \/ End(r) \/ Finish(r)
      BY <1>4
    <2>2. UNCHANGED ceVars
      BY <2>1 DEF AppendTick, End, Finish, EvaluateVerdict, JoinControlEvents, Record
    <2>3. \A q \in Runs : pc'[q] \in {"recording", "done"} =>
            pc[q] \in {"recording", "done"} \/ ceQueue = <<>>
      BY <2>1 DEF AppendTick, End, Finish, EvaluateVerdict, JoinControlEvents, Record, Join,
                  SinkInv, TypeOK
    <2>. QED  BY <1>3, <2>2, <2>3
  <1>5. CASE Drain
    BY <1>3, <1>5 DEF Drain, Take, Write, WriteRaises, TaskDone
  <1>6. CASE UNCHANGED vars
    BY <1>3, <1>6 DEF vars
  <1>. QED  BY <1>1, <1>2, <1>4, <1>5, <1>6 DEF Next

-----------------------------------------------------------------------------
(* The verdict.                                                              *)

\* A verdict is there once the rows were read, and never before.
VerdictInv ==
  /\ \A r \in Runs : verdict[r] = "none" <=> pc[r] \in Before \cup {"reading"}
  /\ VerdictSound

\* Once the run has joined the queue, its rows are all that is left of it.
LEMMA RowsRead ==
  ASSUME SinkInv, NEW r \in Runs, pc[r] \notin Before
  PROVE  /\ rows[r] = Kept(r) /\ rows[r] \in SUBSET (1 .. tick[r])
         /\ r \notin WriteFails => (dropped = 0 => rows[r] = 1 .. tick[r])
  <1>1. /\ rows[r] = Kept(r) /\ rows[r] \subseteq 1 .. tick[r] /\ tick[r] \in Nat
        /\ lost[r] <= dropped /\ lost[r] \in Nat /\ dropped \in Nat
        /\ Cardinality(Kept(r)) \in Nat
        /\ r \notin WriteFails => Cardinality(Kept(r)) + lost[r] = tick[r]
    BY SinkFields DEF SinkInv, KeptInv, Kept
  <1>2. ASSUME r \notin WriteFails, dropped = 0 PROVE rows[r] = 1 .. tick[r]
    <2>1. Cardinality(rows[r]) = tick[r]
      BY <1>1, <1>2
    <2>2. \A n \in Nat : IsFiniteSet(1 .. n) /\ Cardinality(1 .. n) = n
      <3>1. ASSUME NEW n \in Nat PROVE IsFiniteSet(1 .. n) /\ Cardinality(1 .. n) = n
        BY FS_Interval
      <3>. QED  BY <3>1
    <2>. QED  BY <1>1, <2>1, <2>2, FS_Subset
  <1>. QED  BY <1>1, <1>2

LEMMA VerdictStays ==
  ASSUME SinkInv, VerdictInv, [Next]_vars
  PROVE  VerdictInv'
  <1>1. \A r \in Runs : check[r] \in Checks /\ tick[r] \in Nat /\ EndTick[r] \in Nat
                         /\ tick[r] <= EndTick[r] /\ dropped \in Nat
    BY SinkFields DEF SinkInv, TypeOK
  <1>2. CASE \E r \in Runs : EvaluateVerdict(r)
    <2>1. PICK r \in Runs : EvaluateVerdict(r)
      BY <1>2
    <2> DEFINE v == Evaluate(check[r], rows[r], dropped, EndTick[r], marked[r], K)
    <2>2. /\ pc[r] = "reading" /\ verdict' = [verdict EXCEPT ![r] = v]
          /\ pc' = [pc EXCEPT ![r] = IF unfinished = 0 THEN "flushed" ELSE "flushing"]
          /\ UNCHANGED runVars
      BY <2>1 DEF EvaluateVerdict, Join
    <2>3. v \in Status
      BY <1>1, StatusOf
    <2>4. ASSUME r \notin WriteFails, check[r] # "peak"
          PROVE  Truthful(v, check[r], tick[r], EndTick[r], marked[r], K)
      <3>1. rows[r] \in SUBSET (1 .. tick[r]) /\ (dropped = 0 => rows[r] = 1 .. tick[r])
        BY <2>2, <2>4, RowsRead DEF Before
      <3>. QED  BY <1>1, <2>4, <3>1, Sizes, EvaluateTruthful
    <2> HIDE DEF v
    <2>5. verdict'[r] = v /\ \A q \in Runs : q # r => verdict'[q] = verdict[q] /\ pc'[q] = pc[q]
      BY <2>2 DEF SinkInv, TypeOK
    <2>6. v # "none" /\ pc'[r] \notin Before \cup {"reading"}
      BY <2>2, <2>3 DEF Status, Before, SinkInv, TypeOK
    <2>7. VerdictSound'
      BY <2>2, <2>4, <2>5 DEF VerdictInv, VerdictSound, runVars
    <2>. QED  BY <2>5, <2>6, <2>7 DEF VerdictInv
  <1>3. CASE \E r \in Runs : AppendTick(r)
    <2>1. PICK r \in Runs : AppendTick(r)
      BY <1>3
    <2>2. /\ pc[r] = "running" /\ UNCHANGED <<pc, verdict, check, marked>>
          /\ \A q \in Runs : q # r => tick'[q] = tick[q]
      BY <2>1 DEF AppendTick, SinkInv, TypeOK
    <2>3. verdict[r] = "none"
      BY <2>2 DEF VerdictInv, Before
    <2>4. VerdictSound'
      <3>1. ASSUME NEW q \in Runs \ WriteFails, check[q] # "peak"
            PROVE  Truthful(verdict[q], check[q], tick'[q], EndTick[q], marked[q], K)
        <4>1. CASE q = r
          BY <2>3, <4>1 DEF Truthful
        <4>2. CASE q # r
          BY <2>2, <3>1, <4>2 DEF VerdictInv, VerdictSound
        <4>. QED  BY <4>1, <4>2
      <3>. QED  BY <2>2, <3>1 DEF VerdictSound
    <2>. QED  BY <2>2, <2>4 DEF VerdictInv
  <1>4. ASSUME UNCHANGED <<runVars, verdict>>,
               \A r \in Runs : pc'[r] \in Before \cup {"reading"} <=> pc[r] \in Before \cup {"reading"}
        PROVE  VerdictInv'
    <2>1. VerdictSound'
      BY <1>4 DEF VerdictInv, VerdictSound, runVars
    <2>. QED  BY <1>4, <2>1 DEF VerdictInv
  <1>5. CASE \E r \in Runs : AppendControlEvent(r) \/ End(r) \/ JoinControlEvents(r) \/ Record(r)
    <2>1. PICK r \in Runs : AppendControlEvent(r) \/ End(r) \/ JoinControlEvents(r) \/ Record(r)
      BY <1>5
    <2>2. UNCHANGED <<runVars, verdict>>
      BY <2>1 DEF AppendControlEvent, End, JoinControlEvents, Record
    <2>3. \A q \in Runs : pc'[q] \in Before \cup {"reading"} <=> pc[q] \in Before \cup {"reading"}
      BY <2>1 DEF AppendControlEvent, End, JoinControlEvents, Record, Join, Before, SinkInv, TypeOK
    <2>. QED  BY <1>4, <2>2, <2>3
  <1>6. CASE Drain \/ DrainControlEvents
    <2>1. UNCHANGED <<runVars, verdict>>
      BY <1>6 DEF Drain, Take, Write, WriteRaises, DrainControlEvents, WriteControlEvent, ControlEventRaises
    <2>2. \A q \in Runs : pc'[q] \in Before \cup {"reading"} <=> pc[q] \in Before \cup {"reading"}
      BY <1>6 DEF Drain, Take, Write, WriteRaises, TaskDone, DrainControlEvents,
                  WriteControlEvent, ControlEventRaises, CeTaskDone, Before
    <2>. QED  BY <1>4, <2>1, <2>2
  <1>7. CASE UNCHANGED vars
    BY <1>4, <1>7 DEF vars
  <1>. QED  BY <1>2, <1>3, <1>5, <1>6, <1>7 DEF Next, Finish

-----------------------------------------------------------------------------
(* The theorems. *)

LEMMA SinkInvariance == Spec => [](SinkInv /\ AuditInv /\ VerdictInv)
  <1>1. Init => AuditInv /\ VerdictInv
    <2> SUFFICES ASSUME Init PROVE AuditInv /\ VerdictInv
      OBVIOUS
    <2>1. ceQueue = <<>> /\ ceQueue \in Seq(Runs)
      BY DEF Init
    <2>2. \A r \in Runs : audit[r] = 0 /\ auditRows[r] = 0 /\ pc[r] = "running" /\ verdict[r] = "none"
      BY DEF Init
    <2>3. \A r : Count(ceQueue, r) = 0
      BY <2>1, CountFacts
    <2>4. VerdictSound
      BY <2>2 DEF VerdictSound, Truthful
    <2>. QED  BY <2>2, <2>3, <2>4 DEF AuditInv, VerdictInv, Before
  <1>. QED  BY <1>1, InitSink, SinkStays, AuditStays, VerdictStays, PTL DEF Spec

\* Whatever is dropped at the queue, whichever run ends or crashes first and whichever
\* writes fail for others, a verdict says of the ticks a run had only what is true
\* (get_eval_rows, evaluate_verdict).
THEOREM VerdictsAreTrue == Spec => []VerdictSound
  <1>1. VerdictInv => VerdictSound
    BY DEF VerdictInv
  <1>. QED  BY <1>1, SinkInvariance, PTL

\* When a run is finalized, its ticks and control events are rows, but for the
\* ticks that were dropped and counted (append, _drain_loop, finalize).
THEOREM FinalizedDurably == Spec => []NothingVanishes
  <1>1. SinkInv /\ AuditInv /\ VerdictInv => NothingVanishes
    <2> SUFFICES ASSUME SinkInv, AuditInv, VerdictInv, NEW r \in Runs \ WriteFails, pc[r] = "done"
                 PROVE  /\ Cardinality(rows[r]) + lost[r] = tick[r]
                        /\ auditRows[r] = audit[r]
                        /\ verdict[r] \in Status
      BY DEF NothingVanishes, FinalizedIsDurable, SinkInv
    <2>1. Cardinality(rows[r]) + lost[r] = tick[r]
      <3>1. rows[r] = Kept(r)
        BY RowsRead DEF Before
      <3>. QED  BY <3>1 DEF SinkInv, KeptInv
    <2>2. auditRows[r] = audit[r]
      <3>1. auditRows[r] \in Nat /\ Count(ceQueue, r) = 0 /\ auditRows[r] + Count(ceQueue, r) = audit[r]
        BY DEF AuditInv, SinkInv, TypeOK
      <3>. QED  BY <3>1
    <2>3. verdict[r] \in Status
      BY DEF VerdictInv, Before, SinkInv, TypeOK
    <2>. QED  BY <2>1, <2>2, <2>3
  <1>. QED  BY <1>1, SinkInvariance, PTL
=============================================================================
