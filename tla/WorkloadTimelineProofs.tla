----------------------- MODULE WorkloadTimelineProofs -----------------------
(***************************************************************************)
(* The proofs about WorkloadTimeline and GpuLoad, for any jobs, scripts,   *)
(* times and snapshots.  IInv is about the event list and its cursor,      *)
(* whatever the events do; LoadInv about the load, whatever the events     *)
(* are; ScriptInv and EngineInv say that the load is what the events ask   *)
(* for, for the scripted cluster and for the internal jobs.                *)
(***************************************************************************)
EXTENDS WorkloadTimeline, SequenceTheorems, SetLemmas

Stages == {"idle", "submit", "finish", "schedule", "apply", "raised"}

TimelineType ==
  /\ events \in Seq(TimelineEvent) /\ cursor \in 0 .. Len(events)
  /\ simTime \in Nat /\ stage \in Stages /\ ticking \in BOOLEAN
  /\ specs \subseteq DOMAIN Arrival
  /\ known \in [External -> Snapshots \cup {"NONE"}]
  /\ engine \in [Internal -> {"NEW", "PENDING", "RUNNING", "ENDED"}]
  /\ endAt \in [Internal -> Nat]

Ordered(es) == \A i, k \in 1 .. Len(es) : i <= k => es[i].at <= es[k].at

\* The cursor lies between what the last tick has seen and what comes later.
ListInv ==
  /\ Ordered(events)
  /\ \A i \in 1 .. cursor :
       events[i].at <= IF stage = "apply" THEN simTime ELSE simTime - Dt
  /\ \A i \in cursor + 1 .. Len(events) : events[i].at > simTime - Dt

\* What will be written later is later than the last tick: the arrivals that
\* are still to be submitted, and the ends of the running jobs.
AheadInv ==
  /\ \A j \in specs :
       /\ Arrival[j] > simTime - Dt
       /\ \/ stage \in {"finish", "schedule"} /\ ticking
          \/ stage = "apply"
          => Arrival[j] > simTime
  /\ \A j \in Internal :
       engine[j] = "RUNNING" =>
         /\ endAt[j] > simTime - Dt
         /\ stage \in {"schedule", "apply"} => endAt[j] > simTime

\* The events of external jobs are of the past, and an end is remembered.
ExternalInv ==
  /\ \A i \in 1 .. Len(events) :
       events[i].job \in External =>
         /\ events[i].at <= simTime
         /\ Rank(events[i].kind) = 2 => Rank(known[events[i].job]) = 2
  /\ TerminalIsLast

IInv == TimelineType /\ ListInv /\ AheadInv /\ ExternalInv

-----------------------------------------------------------------------------
(* The list. *)

LEMMA Times ==
  /\ Duration \in Nat \ {0} /\ Dt \in Nat \ {0} /\ EndTime \in Nat \ {0}
  BY TimesAssumption

LEMMA EventFields ==
  ASSUME NEW e \in TimelineEvent
  PROVE  e.at \in Nat /\ e.job \in Jobs /\ e.kind \in EventKinds
  BY DEF TimelineEvent

LEMMA ListFields ==
  ASSUME NEW es \in Seq(TimelineEvent)
  PROVE  /\ Len(es) \in Nat /\ DOMAIN es = 1 .. Len(es)
         /\ \A i \in 1 .. Len(es) :
              /\ es[i] \in TimelineEvent /\ es[i].at \in Nat
              /\ es[i].job \in Jobs /\ es[i].kind \in EventKinds
  <1>1. \A i \in 1 .. Len(es) : es[i] \in TimelineEvent
    OBVIOUS
  <1>. QED  BY <1>1, EventFields

\* What inserting an event behind the first b of a list makes of it.
Inserted(es, new, e, b) ==
  /\ new \in Seq(TimelineEvent) /\ Len(new) = Len(es) + 1
  /\ \A i \in 1 .. b : new[i] = es[i]
  /\ new[b + 1] = e
  /\ \A i \in b + 2 .. Len(es) + 1 : new[i] = es[i - 1]

\* The event goes behind those that are not later.
LEMMA InsertFacts ==
  ASSUME events \in Seq(TimelineEvent), Ordered(events), NEW e \in TimelineEvent
  PROVE  \E b \in 0 .. Len(events) :
           /\ \A i \in 1 .. Len(events) : i <= b <=> events[i].at <= e.at
           /\ Inserted(events, Insert(e), e, b)
  <1> DEFINE n == Len(events)
             S == {i \in DOMAIN events : events[i].at <= e.at}
             b == Cardinality(S)
  <1>1. n \in Nat /\ DOMAIN events = 1 .. n /\ e.at \in Nat
        /\ \A i \in 1 .. n : events[i] \in TimelineEvent /\ events[i].at \in Nat
    BY ListFields, EventFields
  <1>2. S \in SUBSET (1 .. n) /\ \A i \in S : \A k \in 1 .. n : k <= i => k \in S
    <2>1. SUFFICES ASSUME NEW i \in S, NEW k \in 1 .. n, k <= i
                   PROVE  events[k].at <= e.at
      BY <1>1
    <2>2. events[k].at <= events[i].at /\ events[i].at <= e.at /\ i \in 1 .. n
      BY <2>1, <1>1 DEF Ordered
    <2>. QED  BY <2>2, <1>1
  <1>3. b \in 0 .. n /\ \A i \in 1 .. n : i \in S <=> i <= b
    <2> HIDE DEF n, S
    <2>. QED  BY <1>1, <1>2, InitialStretch
  <1>4. \A i \in 1 .. n : i <= b <=> events[i].at <= e.at
    BY <1>1, <1>3
  <1>bounds. n \in Nat /\ b \in Nat /\ b <= n
    BY <1>1, <1>3
  <1> HIDE DEF S
  <1> DEFINE left == SubSeq(events, 1, b)
             right == SubSeq(events, b + 1, n)
  <1>5. /\ left \in Seq(TimelineEvent) /\ Len(left) = b
        /\ \A i \in 1 .. b : left[i] = events[i]
    BY <1>1, <1>3
  <1>6. /\ right \in Seq(TimelineEvent) /\ Len(right) = n - b
        /\ \A i \in 1 .. n - b : right[i] = events[b + i]
    <2>1. right \in Seq(TimelineEvent) /\ Len(right) = n - b
      BY <1>1, <1>3
    <2>2. \A i \in 1 .. n - b : right[i] = events[b + 1 + i - 1]
      BY <1>1, <1>3
    <2>3. SUFFICES ASSUME NEW i \in 1 .. n - b PROVE right[i] = events[b + i]
      BY <2>1
    <2>4. b + 1 + i - 1 = b + i
      BY <1>1, <1>3
    <2>. QED  BY <2>2, <2>4
  <1>7. Insert(e) = left \o <<e>> \o right
    BY DEF Insert, S
  <1>8. Inserted(events, Insert(e), e, b)
    <2> DEFINE one == left \o <<e>>
    <2>1. <<e>> \in Seq(TimelineEvent) /\ Len(<<e>>) = 1 /\ <<e>>[1] = e
      OBVIOUS
    <2> HIDE DEF left, right
    <2>2. /\ one \in Seq(TimelineEvent) /\ Len(one) = b + 1
          /\ \A i \in 1 .. b : one[i] = events[i]
          /\ one[b + 1] = e
      BY <1>3, <1>5, <2>1, ConcatProperties
    <2> HIDE DEF one
    <2>3. /\ one \o right \in Seq(TimelineEvent) /\ Len(one \o right) = n + 1
          /\ \A i \in 1 .. n + 1 : (one \o right)[i] =
               IF i <= b + 1 THEN one[i] ELSE right[i - (b + 1)]
      <3>1. (b + 1) + (n - b) = n + 1
        BY <1>1, <1>3
      <3>2. /\ one \o right \in Seq(TimelineEvent)
            /\ Len(one \o right) = Len(one) + Len(right)
            /\ \A i \in 1 .. Len(one) + Len(right) : (one \o right)[i] =
                 IF i <= Len(one) THEN one[i] ELSE right[i - Len(one)]
        BY <1>6, <2>2, ConcatProperties
      <3>. QED  BY <3>1, <3>2, <1>6, <2>2
    <2>4. \A i \in b + 2 .. n + 1 : (one \o right)[i] = events[i - 1]
      <3>1. SUFFICES ASSUME NEW i \in b + 2 .. n + 1
                     PROVE  (one \o right)[i] = events[i - 1]
        OBVIOUS
      <3> HIDE DEF n, b
      <3>behind. i \in 1 .. n + 1 /\ ~(i <= b + 1) /\ i - (b + 1) \in 1 .. n - b
        BY <1>bounds
      <3>2. (one \o right)[i] = right[i - (b + 1)] /\ i - (b + 1) \in 1 .. n - b
        BY <2>3, <3>behind
      <3>3. b + (i - (b + 1)) = i - 1
        BY <1>bounds
      <3>. QED  BY <3>2, <3>3, <1>6
    <2>5. \A i \in 1 .. b + 1 : (one \o right)[i] = one[i]
      BY <1>1, <1>3, <2>3
    <2>6. Insert(e) = one \o right
      BY <1>7 DEF one
    <2>. QED  BY <1>1, <1>3, <2>2, <2>3, <2>4, <2>5, <2>6 DEF Inserted
  <1>. QED  BY <1>3, <1>4, <1>8

\* An event that is later than the last tick goes behind the cursor, and the
\* list stays in order.
LEMMA InsertKeeps ==
  ASSUME TimelineType, ListInv, stage # "apply", stage' # "apply",
         NEW e \in TimelineEvent, e.at > simTime - Dt,
         events' = Insert(e), cursor' = cursor, simTime' = simTime
  PROVE  /\ events' \in Seq(TimelineEvent) /\ cursor' \in 0 .. Len(events')
         /\ ListInv'
         /\ SubSeq(events', 1, cursor) = SubSeq(events, 1, cursor)
  <1>1. PICK b \in 0 .. Len(events) :
          /\ \A i \in 1 .. Len(events) : i <= b <=> events[i].at <= e.at
          /\ Inserted(events, events', e, b)
    BY InsertFacts DEF TimelineType, ListInv
  <1> DEFINE n == Len(events)
  <1>2. /\ n \in Nat /\ cursor \in 0 .. n /\ e.at \in Nat /\ simTime \in Nat
        /\ \A i \in 1 .. n : events[i] \in TimelineEvent /\ events[i].at \in Nat
    BY ListFields, EventFields DEF TimelineType
  <1>3. /\ events' \in Seq(TimelineEvent) /\ Len(events') = n + 1
        /\ \A i \in 1 .. b : events'[i] = events[i]
        /\ events'[b + 1] = e
        /\ \A i \in b + 2 .. n + 1 : events'[i] = events[i - 1]
    BY <1>1 DEF Inserted
  <1>4. cursor <= b
    <2>1. CASE cursor = 0
      BY <1>1, <2>1
    <2>2. CASE cursor > 0
      <3>1. cursor \in 1 .. n /\ events[cursor].at <= simTime - Dt
        BY <1>2, <2>2 DEF ListInv
      <3>2. events[cursor].at <= e.at
        BY <3>1, <1>2, Times
      <3>. QED  BY <3>1, <3>2, <1>1
    <2>. QED  BY <2>1, <2>2, <1>2
  <1>5. \A i \in 1 .. n + 1 :
          \/ i <= b /\ i \in 1 .. n /\ events'[i] = events[i] /\ events[i].at <= e.at
          \/ i = b + 1 /\ events'[i] = e
          \/ i > b + 1 /\ i - 1 \in 1 .. n /\ events'[i] = events[i - 1]
             /\ events[i - 1].at > e.at
    <2>1. SUFFICES ASSUME NEW i \in 1 .. n + 1
                   PROVE
          \/ i <= b /\ i \in 1 .. n /\ events'[i] = events[i] /\ events[i].at <= e.at
          \/ i = b + 1 /\ events'[i] = e
          \/ i > b + 1 /\ i - 1 \in 1 .. n /\ events'[i] = events[i - 1]
             /\ events[i - 1].at > e.at
      OBVIOUS
    <2>2. CASE i <= b
      BY <2>2, <1>1, <1>2, <1>3
    <2>3. CASE i = b + 1
      BY <2>3, <1>3
    <2>4. CASE i > b + 1
      <3>1. i - 1 \in 1 .. n /\ ~(i - 1 <= b) /\ i \in b + 2 .. n + 1
        BY <2>4, <1>1, <1>2
      <3>2. ~(events[i - 1].at <= e.at) /\ events[i - 1].at \in Nat
        BY <3>1, <1>1, <1>2
      <3>. QED  BY <3>1, <3>2, <2>4, <1>2, <1>3
    <2>. QED  BY <2>2, <2>3, <2>4, <1>1, <1>2
  <1>6. Ordered(events')
    <2>1. SUFFICES ASSUME NEW i \in 1 .. n + 1, NEW k \in 1 .. n + 1, i <= k
                   PROVE  events'[i].at <= events'[k].at
      BY <1>3 DEF Ordered
    <2>2. \A p, q \in 1 .. n : p <= q => events[p].at <= events[q].at
      BY DEF ListInv, Ordered
    <2>bounds. b \in Nat /\ b <= n
      BY <1>2
    <2>3. CASE k <= b
      <3>1. /\ i \in 1 .. n /\ k \in 1 .. n
            /\ events'[i] = events[i] /\ events'[k] = events[k]
        BY <2>1, <2>3, <1>1, <1>2, <1>3
      <3>. QED  BY <3>1, <2>1, <2>2
    <2>sides. \A j \in 1 .. n + 1 :
            /\ events'[j].at \in Nat
            /\ j <= b + 1 => events'[j].at <= e.at
            /\ j > b => events'[j].at >= e.at
      <3>1. SUFFICES ASSUME NEW j \in 1 .. n + 1
                     PROVE  /\ events'[j].at \in Nat
                            /\ j <= b + 1 => events'[j].at <= e.at
                            /\ j > b => events'[j].at >= e.at
        OBVIOUS
      <3> HIDE DEF n
      <3>2. CASE j <= b /\ j \in 1 .. n /\ events'[j] = events[j] /\ events[j].at <= e.at
        BY <3>2, <1>2, <2>bounds
      <3>3. CASE j = b + 1 /\ events'[j] = e
        BY <3>3, <1>2, <2>bounds
      <3>4. CASE /\ j > b + 1 /\ j - 1 \in 1 .. n /\ events'[j] = events[j - 1]
                 /\ events[j - 1].at > e.at
        BY <3>4, <1>2, <2>bounds
      <3>. QED  BY <3>2, <3>3, <3>4, <1>5
    <2>4. CASE k > b /\ i <= b + 1
      BY <2>1, <2>4, <2>sides, <1>2
    <2>6. CASE i > b + 1
      <3>1. /\ i - 1 \in 1 .. n /\ k - 1 \in 1 .. n /\ i - 1 <= k - 1
            /\ events'[i] = events[i - 1] /\ events'[k] = events[k - 1]
        BY <2>1, <2>6, <1>1, <1>2, <1>3
      <3>. QED  BY <3>1, <2>2
    <2>. QED  BY <2>1, <2>3, <2>4, <2>6, <2>bounds
  <1>7. \A i \in 1 .. cursor : events'[i] = events[i]
    BY <1>1, <1>2, <1>3, <1>4
  <1>8. \A i \in cursor + 1 .. n + 1 : events'[i].at > simTime - Dt
    <2>1. SUFFICES ASSUME NEW i \in cursor + 1 .. n + 1
                   PROVE  events'[i].at > simTime - Dt
      OBVIOUS
    <2>2. i \in 1 .. n + 1 /\ i >= cursor + 1
      BY <1>2
    <2>3. CASE i <= b /\ i \in 1 .. n /\ events'[i] = events[i]
      BY <2>2, <2>3, <1>2 DEF ListInv
    <2>4. CASE i = b + 1 /\ events'[i] = e
      BY <2>4
    <2>5. CASE i > b + 1 /\ i - 1 \in 1 .. n /\ events'[i] = events[i - 1]
      <3>1. i - 1 \in cursor + 1 .. n
        BY <2>5, <1>1, <1>2, <1>4
      <3>. QED  BY <2>5, <3>1 DEF ListInv
    <2>. QED  BY <2>2, <2>3, <2>4, <2>5, <1>5
  <1>9. SubSeq(events', 1, cursor) = SubSeq(events, 1, cursor)
    BY <1>2, <1>3, <1>7
  <1>10. ListInv'
    BY <1>2, <1>3, <1>6, <1>7, <1>8 DEF ListInv
  <1>. QED  BY <1>2, <1>3, <1>9, <1>10

LEMMA RankRange == \A kind : Rank(kind) \in {-1, 0, 1, 2}
  BY DEF Rank

\* An external event is the last of its job: what an Ingest may write, and
\* what the scheduler's own events leave alone.
FitsExternal(e) ==
  \/ e.job \notin External /\ known' = known
  \/ /\ e.job \in External /\ e.at = simTime
     /\ ~Stale(e.job, e.kind) /\ Rank(e.kind) >= 0
     /\ known' = [known EXCEPT ![e.job] = e.kind]

LEMMA InsertExternal ==
  ASSUME TimelineType, Ordered(events), ExternalInv,
         NEW e \in TimelineEvent, FitsExternal(e),
         events' = Insert(e), simTime' = simTime
  PROVE  ExternalInv'
  <1>1. PICK b \in 0 .. Len(events) :
          /\ \A i \in 1 .. Len(events) : i <= b <=> events[i].at <= e.at
          /\ Inserted(events, events', e, b)
    BY InsertFacts DEF TimelineType
  <1> DEFINE n == Len(events)
             old(i) == IF i <= b THEN i ELSE i - 1
  <1>2. /\ n \in Nat /\ simTime \in Nat /\ e.at \in Nat
        /\ \A i \in 1 .. n : events[i].at \in Nat
        /\ DOMAIN events = 1 .. n
    BY ListFields, EventFields DEF TimelineType
  <1>3. /\ Len(events') = n + 1 /\ DOMAIN events' = 1 .. n + 1
        /\ events'[b + 1] = e
        /\ \A i \in 1 .. n + 1 : i # b + 1 =>
             old(i) \in 1 .. n /\ events'[i] = events[old(i)]
    <2>1. Len(events') = n + 1 /\ events' \in Seq(TimelineEvent)
      BY <1>1 DEF Inserted
    <2>2. DOMAIN events' = 1 .. n + 1
      BY <2>1, ListFields
    <2>3. ASSUME NEW i \in 1 .. n + 1, i # b + 1
          PROVE  old(i) \in 1 .. n /\ events'[i] = events[old(i)]
      <3>1. CASE i <= b
        BY <3>1, <1>1, <1>2 DEF Inserted
      <3>2. CASE ~(i <= b)
        <4>1. i \in b + 2 .. n + 1 /\ i - 1 \in 1 .. n
          BY <2>3, <3>2, <1>1, <1>2
        <4>. QED  BY <4>1, <3>2, <1>1 DEF Inserted
      <3>. QED  BY <3>1, <3>2
    <2>. QED  BY <1>1, <2>1, <2>2, <2>3 DEF Inserted
  <1>4. ASSUME e.job \in External
        PROVE  /\ \A i \in 1 .. n : events[i].job = e.job => Rank(events[i].kind) < 2
               /\ \A i \in 1 .. n : events[i].job = e.job => i <= b
               /\ e.at = simTime /\ known' = [known EXCEPT ![e.job] = e.kind]
    <2>1. e.at = simTime /\ ~Stale(e.job, e.kind) /\ Rank(e.kind) >= 0
          /\ known' = [known EXCEPT ![e.job] = e.kind]
      BY <1>4 DEF FitsExternal
    <2>2. Rank(known[e.job]) # 2
      BY <2>1, RankRange DEF Stale
    <2>3. \A i \in 1 .. n : events[i].job = e.job =>
            Rank(events[i].kind) # 2 /\ events[i].at <= simTime
      BY <1>4, <2>2 DEF ExternalInv
    <2>. QED  BY <2>1, <2>3, <1>1, <1>2, RankRange
  <1>5. known \in [External -> Snapshots \cup {"NONE"}]
    BY DEF TimelineType
  <1>6. ASSUME NEW i \in 1 .. n + 1, events'[i].job \in External
        PROVE  /\ events'[i].at <= simTime
               /\ Rank(events'[i].kind) = 2 => Rank(known'[events'[i].job]) = 2
    <2>1. CASE i = b + 1
      BY <2>1, <1>2, <1>3, <1>4, <1>5, <1>6
    <2>2. CASE i # b + 1
      <3>1. old(i) \in 1 .. n /\ events'[i] = events[old(i)]
        BY <2>2, <1>3
      <3> HIDE DEF old
      <3>2. /\ events[old(i)].at <= simTime
            /\ Rank(events[old(i)].kind) = 2 => Rank(known[events[old(i)].job]) = 2
        BY <3>1, <1>6 DEF ExternalInv
      <3>3. CASE events'[i].job = e.job
        BY <3>1, <3>2, <3>3, <1>4, <1>6
      <3>4. CASE events'[i].job # e.job
        BY <3>1, <3>2, <3>4, <1>5, <1>6 DEF FitsExternal
      <3>. QED  BY <3>3, <3>4
    <2>. QED  BY <2>1, <2>2
  <1>7. ASSUME NEW i \in 1 .. n + 1, NEW k \in 1 .. n + 1, i < k,
               events'[i].job = events'[k].job, events'[i].job \in External
        PROVE  Rank(events'[i].kind) < 2
    <2>1. CASE i = b + 1
      <3>1. k # b + 1 /\ ~(k <= b) /\ old(k) = k - 1 /\ ~(k - 1 <= b)
        BY <2>1, <1>1, <1>2, <1>7
      <3>2. old(k) \in 1 .. n /\ events[old(k)].job = e.job
        BY <2>1, <3>1, <1>3, <1>7
      <3>. QED  BY <2>1, <3>1, <3>2, <1>3, <1>4, <1>7
    <2>2. CASE i # b + 1 /\ k = b + 1
      <3>1. old(i) \in 1 .. n /\ events'[i] = events[old(i)]
        BY <2>2, <1>3
      <3> HIDE DEF old
      <3>. QED  BY <2>2, <3>1, <1>3, <1>4, <1>7
    <2>3. CASE i # b + 1 /\ k # b + 1
      <3>1. /\ old(i) \in 1 .. n /\ events'[i] = events[old(i)]
            /\ old(k) \in 1 .. n /\ events'[k] = events[old(k)]
        BY <2>3, <1>3
      <3>2. old(i) < old(k)
        BY <2>3, <1>1, <1>2, <1>7
      <3> HIDE DEF old
      <3>. QED  BY <3>1, <3>2, <1>2, <1>7 DEF ExternalInv, TerminalIsLast
    <2>. QED  BY <2>1, <2>2, <2>3
  <1>8. TerminalIsLast'
    BY <1>3, <1>7 DEF TerminalIsLast
  <1>. QED  BY <1>3, <1>6, <1>8 DEF ExternalInv

-----------------------------------------------------------------------------
(* The script of a cluster. *)

\* A list has exactly one event of the cluster for each change of its script.
Scripted(es, t) ==
  /\ \A i \in 1 .. Len(es) : es[i].job = Cluster =>
       /\ es[i].at \in Changes(t)
       /\ es[i].kind = Kind(t, es[i].at)
       /\ es[i].nodes = t[es[i].at]
  /\ \A n \in Changes(t) : \E i \in 1 .. Len(es) : es[i].job = Cluster /\ es[i].at = n
  /\ \A i, k \in 1 .. Len(es) :
       (i < k /\ es[i].job = Cluster /\ es[k].job = Cluster) => es[i].at < es[k].at

LEMMA AggregateFacts ==
  ASSUME NEW t \in [0 .. EndTime -> Nat]
  PROVE  /\ Aggregate(t) \in Seq(TimelineEvent) /\ Ordered(Aggregate(t))
         /\ \A i \in 1 .. Len(Aggregate(t)) :
              Aggregate(t)[i].job = Cluster /\ Aggregate(t)[i].at \in Nat
         /\ Scripted(Aggregate(t), t)
  <1> DEFINE C == Changes(t)
             c == Cardinality(C)
             at(i) == Nth(C, i)
  <1>1. C \in SUBSET Int /\ C \subseteq 0 .. EndTime /\ IsFiniteSet(C)
    <2>1. IsFiniteSet(0 .. EndTime)
      BY Times, FS_Interval
    <2>2. C \subseteq 0 .. EndTime
      BY DEF Changes
    <2>. QED  BY <2>1, <2>2, FS_Subset, Times
  <1> HIDE DEF C
  <1>2. /\ c \in Nat
        /\ \A u \in C : Cardinality(Below(C, u)) \in 0 .. c - 1
        /\ \A u, w \in C : u < w <=> Cardinality(Below(C, u)) < Cardinality(Below(C, w))
        /\ \A r \in 0 .. c - 1 : \E u \in C : Cardinality(Below(C, u)) = r
    BY <1>1, Ranks
  <1>3. \A i \in 1 .. c : at(i) \in C /\ Cardinality(Below(C, at(i))) = i - 1
    <2>1. SUFFICES ASSUME NEW i \in 1 .. c
                   PROVE  at(i) \in C /\ Cardinality(Below(C, at(i))) = i - 1
      OBVIOUS
    <2>2. i - 1 \in 0 .. c - 1
      BY <1>2
    <2>3. \E u \in C : Cardinality(Below(C, u)) = i - 1
      BY <1>2, <2>2
    <2>4. at(i) = CHOOSE u \in C : Cardinality(Below(C, u)) = i - 1
      BY DEF Nth, Below
    <2> HIDE DEF at
    <2>. QED  BY <2>3, <2>4
  <1>4. \A i, k \in 1 .. c : i <= k => at(i) <= at(k)
    <2>1. SUFFICES ASSUME NEW i \in 1 .. c, NEW k \in 1 .. c, i <= k
                   PROVE  at(i) <= at(k)
      OBVIOUS
    <2> HIDE DEF at
    <2>2. /\ at(i) \in C /\ at(k) \in C
          /\ Cardinality(Below(C, at(i))) = i - 1
          /\ Cardinality(Below(C, at(k))) = k - 1
      BY <1>3
    <2>3. ~(at(k) < at(i))
      BY <1>2, <2>1, <2>2
    <2>4. at(i) \in Int /\ at(k) \in Int
      BY <1>1, <2>2
    <2>. QED  BY <2>3, <2>4
  <1>5. \A i \in 1 .. c : at(i) \in 0 .. EndTime
    BY <1>1, <1>3
  <1>all. \A n \in C : \E i \in 1 .. c : at(i) = n
    <2>1. SUFFICES ASSUME NEW n \in C PROVE \E i \in 1 .. c : at(i) = n
      OBVIOUS
    <2> DEFINE i == Cardinality(Below(C, n)) + 1
    <2> HIDE DEF at
    <2>2. i \in 1 .. c /\ i - 1 = Cardinality(Below(C, n))
      BY <1>2
    <2>3. at(i) \in C /\ Cardinality(Below(C, at(i))) = Cardinality(Below(C, n))
      BY <1>3, <2>2
    <2> HIDE DEF i
    <2>4. /\ at(i) < n <=> Cardinality(Below(C, at(i))) < Cardinality(Below(C, n))
          /\ n < at(i) <=> Cardinality(Below(C, n)) < Cardinality(Below(C, at(i)))
      BY <1>2, <2>3
    <2>5. at(i) = n
      <3>1. Cardinality(Below(C, n)) \in 0 .. c - 1
        BY <1>2
      <3>2. ~(at(i) < n) /\ ~(n < at(i))
        BY <1>2, <2>3, <2>4, <3>1
      <3>3. at(i) \in Int /\ n \in Int
        BY <1>1, <2>3
      <3>. QED  BY <3>2, <3>3
    <2>. QED  BY <2>2, <2>5
  <1>once. \A i, k \in 1 .. c : i < k => at(i) < at(k)
    <2>1. SUFFICES ASSUME NEW i \in 1 .. c, NEW k \in 1 .. c, i < k
                   PROVE  at(i) < at(k)
      OBVIOUS
    <2> HIDE DEF at
    <2>2. /\ at(i) \in C /\ at(k) \in C
          /\ Cardinality(Below(C, at(i))) = i - 1
          /\ Cardinality(Below(C, at(k))) = k - 1
      BY <1>3
    <2>. QED  BY <1>2, <2>1, <2>2
  <1> HIDE DEF at
  <1> DEFINE ev(i) == Event(Cluster, Kind(t, at(i)), at(i), t[at(i)])
             a == [i \in 1 .. c |-> ev(i)]
  <1>6. Aggregate(t) = a
    BY DEF Aggregate, C, at
  <1>7. \A i \in 1 .. c : ev(i) \in TimelineEvent
    <2>1. SUFFICES ASSUME NEW i \in 1 .. c PROVE ev(i) \in TimelineEvent
      OBVIOUS
    <2>2. Kind(t, at(i)) \in EventKinds
      BY DEF Kind, EventKinds, Snapshots
    <2>3. Cluster \in Jobs
      BY JobsAssumption
    <2>4. at(i) \in Nat /\ t[at(i)] \in Nat
      BY <1>5, Times
    <2>. QED  BY <2>2, <2>3, <2>4 DEF Event, TimelineEvent
  <1>8. \A i \in 1 .. c : /\ ev(i).at = at(i) /\ ev(i).job = Cluster
                        /\ ev(i).kind = Kind(t, at(i)) /\ ev(i).nodes = t[at(i)]
    BY DEF Event
  <1> HIDE DEF ev, c
  <1>9. a \in Seq(TimelineEvent) /\ Len(a) = c /\ \A i \in 1 .. c : a[i] = ev(i)
    BY <1>2, <1>7
  <1>10. \A i \in 1 .. c : at(i) \in Nat
    BY <1>5
  <1> HIDE DEF a
  <1>11. Scripted(a, t)
    <2>1. \A i \in 1 .. c : /\ a[i].at = at(i) /\ a[i].kind = Kind(t, at(i))
                           /\ a[i].nodes = t[at(i)] /\ a[i].job = Cluster /\ at(i) \in C
      BY <1>3, <1>8, <1>9
    <2>2. \A i \in 1 .. c : a[i].at \in C /\ a[i].kind = Kind(t, a[i].at) /\ a[i].nodes = t[a[i].at]
      BY <2>1
    <2>3. \A n \in C : \E i \in 1 .. c : a[i].job = Cluster /\ a[i].at = n
      BY <1>all, <2>1
    <2>4. \A i, k \in 1 .. c : i < k => a[i].at < a[k].at
      BY <1>once, <2>1
    <2>. QED  BY <1>9, <2>2, <2>3, <2>4 DEF Scripted, C
  <1>. QED  BY <1>4, <1>6, <1>8, <1>9, <1>10, <1>11 DEF Ordered

-----------------------------------------------------------------------------
(* Steps. *)

LEMMA InitInv == Init => IInv
  <1> SUFFICES ASSUME Init PROVE IInv
    OBVIOUS
  <1>1. /\ total \in [0 .. EndTime -> Nat] /\ events = Aggregate(total)
        /\ cursor = 0 /\ simTime = 0 /\ stage = "idle" /\ ticking = FALSE
        /\ known = [j \in External |-> "NONE"] /\ specs = DOMAIN Arrival
        /\ engine = [j \in Internal |-> "NEW"] /\ endAt = [j \in Internal |-> 0]
    BY TotalsAssumption DEF Init
  <1>2. /\ events \in Seq(TimelineEvent) /\ Ordered(events)
        /\ \A i \in 1 .. Len(events) :
             events[i].job = Cluster /\ events[i].at \in Nat
    BY <1>1, AggregateFacts
  <1>3. Len(events) \in Nat /\ DOMAIN events = 1 .. Len(events)
    BY <1>2, ListFields
  <1>4. TimelineType
    <2>1. known \in [External -> Snapshots \cup {"NONE"}]
      BY <1>1
    <2>2. /\ engine \in [Internal -> {"NEW", "PENDING", "RUNNING", "ENDED"}]
          /\ endAt \in [Internal -> Nat]
      BY <1>1
    <2>3. /\ cursor \in 0 .. Len(events) /\ simTime \in Nat /\ stage \in Stages
          /\ specs \subseteq DOMAIN Arrival
      BY <1>1, <1>3 DEF Stages
    <2>4. ticking \in BOOLEAN
      BY <1>1, Zenon
    <2>. QED  BY <1>2, <2>1, <2>2, <2>3, <2>4 DEF TimelineType
  <1>5. ListInv
    BY <1>1, <1>2, <1>3, Times DEF ListInv
  <1>6. AheadInv
    BY <1>1, Times, JobsAssumption DEF AheadInv
  <1>7. ExternalInv
    BY <1>2, <1>3, JobsAssumption DEF ExternalInv, TerminalIsLast
  <1>. QED  BY <1>4, <1>5, <1>6, <1>7 DEF IInv

\* What every step does to the events already applied.
ConsumedKept ==
  cursor' >= cursor /\ SubSeq(events', 1, cursor) = SubSeq(events, 1, cursor)

\* A step that leaves the list and the clock alone.
LEMMA ListUntouched ==
  ASSUME TimelineType, UNCHANGED <<events, cursor, simTime, known>>
  PROVE  /\ ConsumedKept
         /\ ExternalInv => ExternalInv'
         /\ ListInv /\ (stage = "apply" <=> stage' = "apply") => ListInv'
  <1>1. cursor \in Int
    BY ListFields DEF TimelineType
  <1>. QED  BY <1>1 DEF ConsumedKept, ExternalInv, TerminalIsLast, ListInv, Ordered

\* A step that writes one event.
LEMMA EventWritten ==
  ASSUME IInv, NEW j \in Jobs, NEW kind \in EventKinds, NEW at \in Nat,
         stage # "apply", stage' # "apply", at > simTime - Dt,
         FitsExternal(Event(j, kind, at, 1)),
         events' = Insert(Event(j, kind, at, 1)), UNCHANGED <<cursor, simTime>>
  PROVE  /\ events' \in Seq(TimelineEvent) /\ cursor' \in 0 .. Len(events')
         /\ ListInv' /\ ExternalInv' /\ ConsumedKept
  <1> DEFINE e == Event(j, kind, at, 1)
  <1>1. e \in TimelineEvent /\ e.at = at
    BY DEF TimelineEvent, Event
  <1>2. cursor \in Int
    BY ListFields DEF IInv, TimelineType
  <1> HIDE DEF e
  <1>3. FitsExternal(e) /\ events' = Insert(e)
    BY DEF e
  <1>. QED  BY <1>1, <1>2, <1>3, InsertKeeps, InsertExternal
            DEF IInv, ListInv, ConsumedKept

\* The scheduler's events are none of the external jobs'.
LEMMA InternalFits ==
  ASSUME NEW j \in Internal, NEW kind, NEW at, UNCHANGED known
  PROVE  j \in Jobs /\ FitsExternal(Event(j, kind, at, 1))
  BY JobsAssumption DEF FitsExternal, Event

LEMMA IngestStep ==
  ASSUME IInv, NEW j \in External, NEW kind \in Snapshots, NEW when \in {0, simTime},
         Ingest(j, kind, when)
  PROVE  IInv' /\ ConsumedKept
  <1>1. /\ TimelineType /\ simTime \in Nat /\ j \in Jobs /\ kind \in EventKinds
        /\ stage = "idle" /\ UNCHANGED <<total, cursor, simTime, stage, ticking, engineVars>>
        /\ known' = [known EXCEPT ![j] = kind]
    BY JobsAssumption DEF IInv, TimelineType, Ingest, EventKinds
  <1>2. Stamp(when) = simTime
    BY <1>1 DEF Stamp
  <1>3. FitsExternal(Event(j, kind, simTime, 1))
    <2>1. Rank(kind) >= 0 /\ ~Stale(j, kind)
      BY DEF Rank, Snapshots, Ingest
    <2>. QED  BY <1>1, <2>1 DEF FitsExternal, Event
  <1>4. events' = Insert(Event(j, kind, simTime, 1))
    BY <1>2 DEF Ingest
  <1>5. /\ events' \in Seq(TimelineEvent) /\ cursor' \in 0 .. Len(events')
        /\ ListInv' /\ ExternalInv' /\ ConsumedKept
    BY <1>1, <1>3, <1>4, Times, EventWritten
  <1>6. TimelineType'
    BY <1>1, <1>5 DEF TimelineType, engineVars
  <1>7. AheadInv'
    BY <1>1 DEF IInv, AheadInv, engineVars
  <1>. QED  BY <1>5, <1>6, <1>7 DEF IInv

LEMMA SubmitNowStep ==
  ASSUME IInv, NEW j \in Internal, SubmitNow(j)
  PROVE  IInv' /\ ConsumedKept
  <1>1. /\ TimelineType /\ simTime \in Nat /\ "QUEUED" \in EventKinds
        /\ stage = "idle" /\ stage' = "finish" /\ ticking' = FALSE
        /\ engine' = [engine EXCEPT ![j] = "PENDING"]
        /\ events' = Insert(Event(j, "QUEUED", simTime, 1))
        /\ UNCHANGED <<cursor, simTime, known, specs, endAt>>
    BY DEF IInv, TimelineType, SubmitNow, EventKinds, Snapshots
  <1>2. j \in Jobs /\ FitsExternal(Event(j, "QUEUED", simTime, 1))
    BY <1>1, InternalFits
  <1>3. /\ events' \in Seq(TimelineEvent) /\ cursor' \in 0 .. Len(events')
        /\ ListInv' /\ ExternalInv' /\ ConsumedKept
    BY <1>1, <1>2, Times, EventWritten
  <1>4. TimelineType'
    BY <1>1, <1>3 DEF TimelineType, Stages
  <1>5. AheadInv'
    BY <1>1 DEF IInv, AheadInv, TimelineType
  <1>. QED  BY <1>3, <1>4, <1>5 DEF IInv

LEMMA SubmitDueStep ==
  ASSUME IInv, NEW j \in Internal, SubmitDue(j)
  PROVE  IInv' /\ ConsumedKept
  <1>1. /\ TimelineType /\ "QUEUED" \in EventKinds
        /\ stage = "submit" /\ j \in specs /\ specs' = specs \ {j}
        /\ UNCHANGED <<cursor, simTime, ticking, known, endAt>>
    BY DEF IInv, TimelineType, SubmitDue, EventKinds, Snapshots
  <1>2. Arrival[j] \in Nat /\ Arrival[j] > simTime - Dt /\ simTime \in Nat
    BY <1>1, JobsAssumption DEF IInv, AheadInv, TimelineType
  <1>3. CASE engine[j] = "NEW"
    <2>1. /\ engine' = [engine EXCEPT ![j] = "PENDING"] /\ stage' = stage
          /\ events' = Insert(Event(j, "QUEUED", Arrival[j], 1))
      BY <1>3 DEF SubmitDue
    <2>2. j \in Jobs /\ FitsExternal(Event(j, "QUEUED", Arrival[j], 1))
      BY <1>1, InternalFits
    <2>3. /\ events' \in Seq(TimelineEvent) /\ cursor' \in 0 .. Len(events')
          /\ ListInv' /\ ExternalInv' /\ ConsumedKept
      BY <1>1, <1>2, <2>1, <2>2, EventWritten
    <2>4. TimelineType'
      BY <1>1, <2>1, <2>3 DEF TimelineType, Stages
    <2>5. AheadInv'
      BY <1>1, <2>1 DEF IInv, AheadInv, TimelineType
    <2>. QED  BY <2>3, <2>4, <2>5 DEF IInv
  <1>4. CASE engine[j] # "NEW"
    <2>1. stage' = "raised" /\ UNCHANGED <<events, engine>>
      BY <1>4 DEF SubmitDue
    <2>2. ListInv' /\ ExternalInv' /\ ConsumedKept
      BY <1>1, <2>1, ListUntouched DEF IInv
    <2>3. TimelineType'
      BY <1>1, <2>1 DEF TimelineType, Stages
    <2>4. AheadInv'
      BY <1>1, <2>1 DEF IInv, AheadInv
    <2>. QED  BY <2>2, <2>3, <2>4 DEF IInv
  <1>. QED  BY <1>3, <1>4

LEMMA FinishStep ==
  ASSUME IInv, NEW j \in Internal, FinishJob(j) \/ PreemptJob(j)
  PROVE  IInv' /\ ConsumedKept
  <1>1. /\ TimelineType /\ stage = "finish"
        /\ engine[j] = "RUNNING" /\ UNCHANGED <<cursor, simTime, stage, ticking, known, specs, endAt>>
        /\ simTime \in Nat /\ endAt[j] \in Nat
        /\ engine' \in {[engine EXCEPT ![j] = s] : s \in {"PENDING", "ENDED"}}
    BY DEF IInv, TimelineType, FinishJob, PreemptJob, Over
  <1>2. PICK kind \in EventKinds, at \in {simTime, endAt[j]} :
          events' = Insert(Event(j, kind, at, 1))
    <2>1. CASE FinishJob(j)
      <3>1. Outcome[j] \in EventKinds
        BY OutcomeAssumption DEF EventKinds, Snapshots
      <3>. QED  BY <2>1, <3>1 DEF FinishJob
    <2>2. CASE PreemptJob(j)
      BY <2>2 DEF PreemptJob, EventKinds
    <2>. QED  BY <2>1, <2>2
  <1>3. at \in Nat /\ at > simTime - Dt
    BY <1>1, <1>2, Times DEF IInv, AheadInv
  <1>4. j \in Jobs /\ FitsExternal(Event(j, kind, at, 1))
    BY <1>1, InternalFits
  <1>5. /\ events' \in Seq(TimelineEvent) /\ cursor' \in 0 .. Len(events')
        /\ ListInv' /\ ExternalInv' /\ ConsumedKept
    BY <1>1, <1>2, <1>3, <1>4, EventWritten
  <1>6. TimelineType'
    BY <1>1, <1>5 DEF TimelineType
  <1>7. AheadInv'
    BY <1>1 DEF IInv, AheadInv, TimelineType
  <1>. QED  BY <1>5, <1>6, <1>7 DEF IInv

LEMMA StartStep ==
  ASSUME IInv, NEW j \in Internal, StartJob(j)
  PROVE  IInv' /\ ConsumedKept
  <1>1. /\ TimelineType /\ simTime \in Nat /\ "STARTING" \in EventKinds
        /\ stage = "schedule" /\ UNCHANGED <<cursor, simTime, stage, ticking, known, specs>>
        /\ engine' = [engine EXCEPT ![j] = "RUNNING"]
        /\ endAt' = [endAt EXCEPT ![j] = simTime + Duration]
        /\ events' = Insert(Event(j, "STARTING", simTime, 1))
    BY DEF IInv, TimelineType, StartJob, EventKinds
  <1>2. j \in Jobs /\ FitsExternal(Event(j, "STARTING", simTime, 1))
    BY <1>1, InternalFits
  <1>3. /\ events' \in Seq(TimelineEvent) /\ cursor' \in 0 .. Len(events')
        /\ ListInv' /\ ExternalInv' /\ ConsumedKept
    BY <1>1, <1>2, Times, EventWritten
  <1>4. simTime + Duration \in Nat /\ simTime + Duration > simTime
        /\ simTime + Duration > simTime - Dt
    BY <1>1, Times
  <1>5. TimelineType'
    BY <1>1, <1>3, <1>4 DEF TimelineType
  <1>6. AheadInv'
    BY <1>1, <1>4 DEF IInv, AheadInv, TimelineType
  <1>. QED  BY <1>3, <1>5, <1>6 DEF IInv

\* The steps between the loops of a call.
LEMMA StageStep ==
  ASSUME IInv, BeginStep \/ AllSubmitted \/ Finished \/ Scheduled
  PROVE  IInv' /\ ConsumedKept
  <1>1. /\ TimelineType /\ simTime \in Nat
        /\ UNCHANGED <<events, cursor, simTime, known, specs, engine, endAt>>
        /\ stage' \in Stages /\ ticking' \in BOOLEAN /\ stage # "apply"
    BY DEF IInv, TimelineType, BeginStep, AllSubmitted, Finished, Scheduled, engineVars, Stages
  <1>2. ExternalInv' /\ ConsumedKept
    BY <1>1, ListUntouched DEF IInv
  <1>3. ListInv'
    <2>1. \A i \in 1 .. cursor : events[i].at <= simTime - Dt
      BY <1>1 DEF IInv, ListInv
    <2>2. \A i \in 1 .. cursor : events[i].at <= simTime
      <3>1. SUFFICES ASSUME NEW i \in 1 .. cursor PROVE events[i].at <= simTime
        OBVIOUS
      <3>2. i \in 1 .. Len(events) /\ events[i].at \in Nat
        BY <1>1, ListFields DEF TimelineType
      <3>. QED  BY <2>1, <3>2, <1>1, Times
    <2>. QED  BY <1>1, <2>1, <2>2 DEF IInv, ListInv, Ordered
  <1>4. TimelineType'
    BY <1>1 DEF TimelineType
  <1>5. AheadInv'
    <2>1. CASE BeginStep
      BY <1>1, <2>1 DEF IInv, AheadInv, BeginStep
    <2>2. CASE AllSubmitted
      <3>1. \A k \in specs : Arrival[k] > simTime
        BY <2>2 DEF AllSubmitted
      <3>. QED  BY <1>1, <2>2, <3>1 DEF IInv, AheadInv, AllSubmitted
    <2>3. CASE Finished
      <3>1. \A k \in Internal : engine[k] = "RUNNING" => endAt[k] > simTime
        BY <1>1, <2>3 DEF Finished, Over, TimelineType
      <3>. QED  BY <1>1, <2>3, <3>1 DEF IInv, AheadInv, Finished
    <2>4. CASE Scheduled
      BY <1>1, <2>4 DEF IInv, AheadInv, Scheduled
    <2>. QED  BY <2>1, <2>2, <2>3, <2>4
  <1>. QED  BY <1>2, <1>3, <1>4, <1>5 DEF IInv

LEMMA ApplyStep ==
  ASSUME IInv, ApplyDue
  PROVE  IInv' /\ ConsumedKept
  <1>1. /\ TimelineType /\ stage = "apply" /\ Due /\ cursor' = cursor + 1
        /\ UNCHANGED <<events, simTime, stage, ticking, known, specs, engine, endAt>>
    BY DEF IInv, ApplyDue, engineVars
  <1>2. /\ cursor + 1 \in 1 .. Len(events) /\ events[cursor + 1].at <= simTime
        /\ cursor \in Nat
    BY <1>1, ListFields DEF TimelineType, Due
  <1>3. ListInv'
    <2>1. \A i \in 1 .. cursor + 1 : events[i].at <= simTime
      BY <1>1, <1>2 DEF IInv, ListInv
    <2>2. \A i \in cursor + 2 .. Len(events) : events[i].at > simTime - Dt
      BY <1>2 DEF IInv, ListInv
    <2>3. (cursor + 1) + 1 = cursor + 2
      BY <1>2
    <2>. QED  BY <1>1, <2>1, <2>2, <2>3 DEF IInv, ListInv, Ordered
  <1>4. TimelineType' /\ AheadInv' /\ ConsumedKept
    BY <1>1, <1>2 DEF IInv, TimelineType, AheadInv, ConsumedKept
  <1>5. ExternalInv'
    BY <1>1 DEF IInv, ExternalInv, TerminalIsLast
  <1>. QED  BY <1>3, <1>4, <1>5 DEF IInv

LEMMA EvaluateStep ==
  ASSUME IInv, Evaluate
  PROVE  IInv' /\ ConsumedKept
  <1>1. /\ TimelineType /\ stage = "apply" /\ ~Due /\ stage' = "idle"
        /\ simTime' = simTime + Dt /\ simTime \in Nat
        /\ UNCHANGED <<events, cursor, ticking, known, specs, engine, endAt>>
    BY DEF IInv, TimelineType, Evaluate, engineVars
  <1>2. cursor \in 0 .. Len(events) /\ Len(events) \in Nat
        /\ \A i \in 1 .. Len(events) : events[i].at \in Nat
    BY <1>1, ListFields DEF TimelineType
  <1>3. simTime' \in Nat /\ simTime' - Dt = simTime /\ simTime <= simTime'
    BY <1>1, Times
  <1>4. ListInv'
    <2>1. \A i \in cursor + 1 .. Len(events) : events[i].at > simTime
      <3>1. SUFFICES ASSUME NEW i \in cursor + 1 .. Len(events)
                     PROVE  events[i].at > simTime
        OBVIOUS
      <3>2. cursor + 1 \in 1 .. Len(events) /\ i \in 1 .. Len(events)
        BY <1>2
      <3>3. ~(events[cursor + 1].at <= simTime)
        BY <1>1, <1>2, <3>2 DEF Due
      <3>4. events[cursor + 1].at <= events[i].at
        BY <3>2 DEF IInv, ListInv, Ordered
      <3>. QED  BY <1>1, <1>2, <3>2, <3>3, <3>4
    <2>2. \A i \in 1 .. cursor : events[i].at <= simTime
      BY <1>1 DEF IInv, ListInv
    <2>. QED  BY <1>1, <1>3, <2>1, <2>2 DEF IInv, ListInv, Ordered
  <1>5. AheadInv'
    BY <1>1, <1>3 DEF IInv, AheadInv
  <1>6. ExternalInv'
    <2>1. \A i \in 1 .. Len(events) : events[i].job \in External => events[i].at <= simTime'
      BY <1>1, <1>2, <1>3 DEF IInv, ExternalInv
    <2>. QED  BY <1>1, <2>1 DEF IInv, ExternalInv, TerminalIsLast
  <1>7. TimelineType' /\ ConsumedKept
    BY <1>1, <1>2, <1>3 DEF TimelineType, Stages, ConsumedKept
  <1>. QED  BY <1>4, <1>5, <1>6, <1>7 DEF IInv

LEMMA NextInv == IInv /\ [Next]_vars => IInv' /\ ConsumedKept
  <1> SUFFICES ASSUME IInv, [Next]_vars PROVE IInv' /\ ConsumedKept
    OBVIOUS
  <1>1. CASE UNCHANGED vars
    <2>1. UNCHANGED <<events, cursor, simTime, stage, ticking, known, specs, engine, endAt>>
      BY <1>1 DEF vars, engineVars
    <2>2. ExternalInv' /\ ListInv' /\ ConsumedKept
      BY <2>1, ListUntouched DEF IInv
    <2>. QED  BY <2>1, <2>2 DEF IInv, TimelineType, AheadInv
  <1>2. CASE Step
    BY <1>2, StageStep, ApplyStep, EvaluateStep, SubmitDueStep, FinishStep, StartStep DEF Step
  <1>3. CASE Request
    BY <1>3, IngestStep, SubmitNowStep DEF Request
  <1>. QED  BY <1>1, <1>2, <1>3 DEF Next

LEMMA Invariance == Spec => []IInv
  <1>1. IInv /\ [Next]_vars => IInv'
    BY NextInv
  <1>. QED  BY InitInv, <1>1, PTL DEF Spec

-----------------------------------------------------------------------------
(* What follows for any instance. *)

\* No writer, whatever it writes and when, moves an event across the cursor:
\* none is applied twice or passed over (the sort after each append in
\* run_manager.py).
THEOREM ConsumedStays == Spec => ConsumedIsFixed
  <1>1. IInv /\ [Next]_vars =>
          [cursor' >= cursor /\ SubSeq(events', 1, cursor) = SubSeq(events, 1, cursor)]_vars
    BY NextInv DEF ConsumedKept
  <1>. QED  BY <1>1, Invariance, PTL DEF Spec, ConsumedIsFixed

LEMMA DueIsApplied == IInv => DueExactlyApplied
  <1> SUFFICES ASSUME IInv, stage = "idle", NEW i \in DOMAIN events
               PROVE  i <= cursor <=> events[i].at <= simTime - Dt
    BY DEF DueExactlyApplied
  <1>1. /\ i \in 1 .. Len(events) /\ cursor \in 0 .. Len(events) /\ Len(events) \in Nat
        /\ events[i].at \in Nat /\ simTime \in Nat
    BY ListFields DEF IInv, TimelineType
  <1>2. CASE i <= cursor
    BY <1>1, <1>2 DEF IInv, ListInv
  <1>3. CASE ~(i <= cursor)
    <2>1. i \in cursor + 1 .. Len(events)
      BY <1>1, <1>3
    <2>. QED  BY <1>1, <1>3, <2>1, Times DEF IInv, ListInv
  <1>. QED  BY <1>2, <1>3

\* Between calls the cursor stands exactly behind the events up to the last
\* tick (_apply_due_events).
THEOREM DueApplied == Spec => []DueExactlyApplied
  BY DueIsApplied, Invariance, PTL

\* In whatever order the snapshots of an external job arrive, nothing of it
\* comes after its end (ingest_workload_signal).
THEOREM EndIsLast == Spec => []TerminalIsLast
  <1>1. IInv => TerminalIsLast
    BY DEF IInv, ExternalInv
  <1>. QED  BY <1>1, Invariance, PTL

-----------------------------------------------------------------------------
(* The load, whatever the events are.                                        *)

\* What holds of the load whatever the events are: types, finitely many keys, and
\* an envelope without an end belongs to a load.
LoadInv == LoadTypeOK /\ IsFiniteSet(DOMAIN load) /\ EnvelopesEnd

\* How the load looks to a leaf.
LEMMA LoadFields ==
  ASSUME LoadInv
  PROVE  /\ \A k \in DOMAIN load : /\ k \in Keys /\ k[1] \in Jobs /\ k[2] \in Nat
                                   /\ k = <<k[1], k[2]>>
                                   /\ load[k].nodes \in Nat /\ load[k].ramp \in 0 .. Ramp
                                   /\ load[k] = [nodes |-> load[k].nodes, ramp |-> load[k].ramp]
         /\ \A j \in Jobs : desired[j] \in Nat /\ counter[j] \in Nat
         /\ \A S \in SUBSET (DOMAIN load) : Weighs(NodeCounts, S) /\ Total(NodeCounts, S) \in Nat
  <1>1. \A k \in DOMAIN load : k \in Keys /\ load[k] \in [nodes : Nat, ramp : 0 .. Ramp]
    BY DEF LoadInv, LoadTypeOK
  <1>2. \A k \in Keys : k[1] \in Jobs /\ k[2] \in Nat /\ k = <<k[1], k[2]>>
    BY DEF Keys
  <1>3. ASSUME NEW S \in SUBSET (DOMAIN load)
        PROVE  Weighs(NodeCounts, S) /\ Total(NodeCounts, S) \in Nat
    <2>1. IsFiniteSet(S)
      BY FS_Subset DEF LoadInv
    <2>2. \A k \in S : NodeCounts[k] \in Nat
      BY <1>1 DEF NodeCounts
    <2>3. Weighs(NodeCounts, S)
      BY <2>1, <2>2 DEF Weighs
    <2>. QED  BY <2>3, TotalNat
  <1>4. \A j \in Jobs : desired[j] \in Nat /\ counter[j] \in Nat
    BY DEF LoadInv, LoadTypeOK
  <1>. QED  BY <1>1, <1>2, <1>3, <1>4

\* A dictionary after an entry is written.
LEMMA Written ==
  ASSUME NEW f, NEW key, NEW v
  PROVE  /\ DOMAIN With(f, key, v) = {key} \cup DOMAIN f
         /\ With(f, key, v)[key] = v
         /\ \A k \in DOMAIN f : k # key => With(f, key, v)[k] = f[k]
  BY DEF With

\* The fields of a load that keep their types.
Loaded(f) == /\ DOMAIN f \subseteq Keys /\ IsFiniteSet(DOMAIN f)
             /\ f \in [DOMAIN f -> [nodes : Nat, ramp : 0 .. Ramp]]
Cooled(f) == /\ DOMAIN f \subseteq Keys /\ f \in [DOMAIN f -> Nat \cup {Open}]

LEMMA LoadInvParts ==
  LoadInv <=> /\ Loaded(load) /\ Cooled(envelope) /\ EnvelopesEnd
              /\ desired \in [Jobs -> Nat] /\ counter \in [Jobs -> Nat]
  BY DEF LoadInv, LoadTypeOK, Loaded, Cooled

LEMMA WrittenLoaded ==
  ASSUME NEW f, Loaded(f), NEW key \in Keys, NEW n \in Nat, NEW r \in 0 .. Ramp
  PROVE  Loaded(With(f, key, [nodes |-> n, ramp |-> r]))
  <1> DEFINE v == [nodes |-> n, ramp |-> r]
             g == With(f, key, v)
  <1>1. v \in [nodes : Nat, ramp : 0 .. Ramp]
    OBVIOUS
  <1> HIDE DEF v
  <1>2. /\ DOMAIN g = {key} \cup DOMAIN f /\ g[key] = v
        /\ \A k \in DOMAIN f : k # key => g[k] = f[k]
    BY DEF With
  <1>3. IsFiniteSet({key} \cup DOMAIN f)
    <2>1. IsFiniteSet(DOMAIN f \cup {key})
      BY FS_AddElement DEF Loaded
    <2>2. DOMAIN f \cup {key} = {key} \cup DOMAIN f
      OBVIOUS
    <2>. QED  BY <2>1, <2>2
  <1>4. g = [k \in DOMAIN g |-> g[k]]
    BY DEF With
  <1> HIDE DEF g
  <1>5. \A k \in DOMAIN g : g[k] \in [nodes : Nat, ramp : 0 .. Ramp]
    BY <1>1, <1>2 DEF Loaded
  <1>. QED  BY <1>2, <1>3, <1>4, <1>5 DEF Loaded, g, v

LEMMA WrittenCooled ==
  ASSUME NEW f, Cooled(f), NEW key \in Keys
  PROVE  Cooled(With(f, key, Open))
  BY DEF Cooled, With

LEMMA EndedCooled ==
  ASSUME Cooled(envelope), NEW keys, NEW when \in Nat
  PROVE  Cooled(EndEnvelopes(keys, when))
  BY DEF Cooled, EndEnvelopes

\* An event that can be in the list.
LEMMA AnyEvent ==
  ASSUME NEW e \in TimelineEvent
  PROVE  e.nodes \in Nat /\ e.at \in Nat /\ e.job \in Jobs /\ \A n \in Nat : <<e.job, n>> \in Keys
  BY DEF TimelineEvent, Keys

LEMMA PlaceLoad ==
  ASSUME LoadInv, NEW e \in TimelineEvent, NEW r \in 0 .. Ramp, Place(e, r)
  PROVE  /\ Loaded(load') /\ desired' \in [Jobs -> Nat] /\ counter' \in [Jobs -> Nat]
         /\ DOMAIN load' = {<<e.job, 0>>} \cup DOMAIN load
  <1>1. load' = With(load, <<e.job, 0>>, [nodes |-> e.nodes, ramp |-> r])
    BY DEF Place
  <1>2. Loaded(load) /\ <<e.job, 0>> \in Keys /\ e.nodes \in Nat
    BY LoadInvParts, AnyEvent
  <1>3. Loaded(load')
    BY <1>1, <1>2, WrittenLoaded
  <1>4. DOMAIN load' = {<<e.job, 0>>} \cup DOMAIN load
    BY <1>1, Written
  <1>. QED  BY <1>2, <1>3, <1>4 DEF Place, LoadInv, LoadTypeOK

LEMMA InstallLoad ==
  ASSUME LoadInv, NEW e \in TimelineEvent, Install(e)
  PROVE  LoadInv'
  <1>1. PICK r \in {0, Ramp} : Place(e, r)
    BY DEF Install
  <1>2. r \in 0 .. Ramp
    BY RampAssumption
  <1>3. /\ Loaded(load') /\ desired' \in [Jobs -> Nat] /\ counter' \in [Jobs -> Nat]
        /\ DOMAIN load' = {<<e.job, 0>>} \cup DOMAIN load
    BY <1>1, <1>2, PlaceLoad
  <1>4. envelope' = With(envelope, <<e.job, 0>>, Open)
    BY DEF Install, OpenEnvelope
  <1>5. Cooled(envelope') /\ EnvelopesEnd
    BY <1>4, LoadInvParts, WrittenCooled, AnyEvent
  <1>6. EnvelopesEnd'
    <2>1. /\ DOMAIN envelope' = {<<e.job, 0>>} \cup DOMAIN envelope
          /\ \A k \in DOMAIN envelope : k # <<e.job, 0>> => envelope'[k] = envelope[k]
      BY <1>4 DEF With
    <2>. QED  BY <1>3, <1>5, <2>1 DEF EnvelopesEnd
  <1>. QED  BY <1>3, <1>5, <1>6 DEF LoadInv, LoadTypeOK, Loaded, Cooled

LEMMA SnapLoad ==
  ASSUME LoadInv, NEW e \in TimelineEvent, Snap(e)
  PROVE  LoadInv'
  <1>1. Ramp \in 0 .. Ramp /\ Place(e, Ramp) /\ UNCHANGED envelope
    BY RampAssumption DEF Snap
  <1>2. /\ Loaded(load') /\ desired' \in [Jobs -> Nat] /\ counter' \in [Jobs -> Nat]
        /\ DOMAIN load' = {<<e.job, 0>>} \cup DOMAIN load
    BY <1>1, PlaceLoad
  <1>. QED  BY <1>1, <1>2, LoadInvParts DEF LoadInv, LoadTypeOK, Loaded, Cooled, EnvelopesEnd

LEMMA GrowLoad ==
  ASSUME LoadInv, NEW e \in TimelineEvent, Grow(e)
  PROVE  LoadInv'
  <1> DEFINE key == <<e.job, counter[e.job] + 1>>
             n == Added(e)
  <1>1. /\ load' = With(load, key, [nodes |-> n, ramp |-> 0])
        /\ envelope' = With(envelope, key, Open)
        /\ desired' = [desired EXCEPT ![e.job] = e.nodes]
        /\ counter' = [counter EXCEPT ![e.job] = @ + 1]
        /\ e.nodes > desired[e.job]
    BY DEF Grow, OpenEnvelope
  <1>2. e.job \in Jobs /\ e.nodes \in Nat /\ desired[e.job] \in Nat /\ counter[e.job] \in Nat
    BY AnyEvent, LoadFields
  <1>3. key \in Keys /\ n \in Nat /\ 0 \in 0 .. Ramp
    BY <1>1, <1>2, RampAssumption DEF Keys, Added
  <1> HIDE DEF key, n
  <1>4. Loaded(load') /\ Cooled(envelope')
    BY <1>1, <1>3, LoadInvParts, WrittenLoaded, WrittenCooled
  <1>5. /\ DOMAIN load' = {key} \cup DOMAIN load
        /\ DOMAIN envelope' = {key} \cup DOMAIN envelope
        /\ \A k \in DOMAIN envelope : k # key => envelope'[k] = envelope[k]
    BY <1>1 DEF With
  <1>6. EnvelopesEnd'
    BY <1>5, LoadInvParts DEF EnvelopesEnd
  <1>7. desired' \in [Jobs -> Nat] /\ counter' \in [Jobs -> Nat]
    BY <1>1, <1>2, LoadInvParts
  <1>. QED  BY <1>4, <1>6, <1>7 DEF LoadInv, LoadTypeOK, Loaded, Cooled

\* What a scale-down leaves of a key of the job.
Less(e, k) ==
  LET left == load[k].nodes - (IF Owed(e, k) > 0 THEN Owed(e, k) ELSE 0)
  IN  IF left > 0 THEN left ELSE 0

LEMMA OwedInt ==
  ASSUME LoadInv, NEW e \in TimelineEvent, NEW k \in DOMAIN load
  PROVE  Owed(e, k) \in Int /\ Less(e, k) \in Nat
  <1> DEFINE newer == {c \in Cohorts(e.job) : c[2] > k[2]}
  <1>1. newer \subseteq DOMAIN load
    BY DEF Cohorts, KeysOf
  <1>2. Total(NodeCounts, newer) \in Nat /\ e.nodes \in Nat /\ desired[e.job] \in Nat
        /\ load[k].nodes \in Nat
    BY <1>1, LoadFields, AnyEvent
  <1>3. Owed(e, k) = desired[e.job] - e.nodes - Total(NodeCounts, newer)
    BY DEF Owed
  <1> HIDE DEF newer
  <1>4. Owed(e, k) \in Int
    BY <1>2, <1>3
  <1>. QED  BY <1>2, <1>4 DEF Less

LEMMA ShrinkLoad ==
  ASSUME LoadInv, NEW e \in TimelineEvent, Shrink(e)
  PROVE  LoadInv'
  <1>1. /\ load' = [k \in DOMAIN load \ Gone(e) |->
                      IF k \in KeysOf(e.job) THEN [load[k] EXCEPT !.nodes = Less(e, k)]
                      ELSE load[k]]
        /\ envelope' = EndEnvelopes(Gone(e), e.at)
        /\ desired' = [desired EXCEPT ![e.job] = e.nodes]
        /\ counter' = counter
    BY DEF Shrink, Less, Reported
  <1>2. e.job \in Jobs /\ e.nodes \in Nat /\ e.at \in Nat
    BY AnyEvent
  <1>3. \A k \in DOMAIN load' : load'[k] \in [nodes : Nat, ramp : 0 .. Ramp]
    <2>1. SUFFICES ASSUME NEW k \in DOMAIN load
                   PROVE  (IF k \in KeysOf(e.job) THEN [load[k] EXCEPT !.nodes = Less(e, k)]
                           ELSE load[k]) \in [nodes : Nat, ramp : 0 .. Ramp]
      BY <1>1
    <2>2. load[k] \in [nodes : Nat, ramp : 0 .. Ramp] /\ Less(e, k) \in Nat
      BY OwedInt DEF LoadInv, LoadTypeOK
    <2> HIDE DEF Less
    <2>. QED  BY <2>2
  <1>4. Loaded(load')
    <2>1. DOMAIN load' = DOMAIN load \ Gone(e) /\ load' = [k \in DOMAIN load' |-> load'[k]]
      BY <1>1
    <2>2. IsFiniteSet(DOMAIN load')
      BY <2>1, FS_Subset DEF LoadInv
    <2>3. DOMAIN load' \subseteq Keys
      BY <2>1 DEF LoadInv, LoadTypeOK
    <2>. QED  BY <1>3, <2>1, <2>2, <2>3 DEF Loaded
  <1>5. Cooled(envelope')
    BY <1>1, <1>2, LoadInvParts, EndedCooled
  <1>6. EnvelopesEnd'
    BY <1>1, <1>2, LoadInvParts DEF EnvelopesEnd, EndEnvelopes, Open
  <1>7. desired' \in [Jobs -> Nat] /\ counter' \in [Jobs -> Nat]
    BY <1>1, <1>2, LoadInvParts
  <1>. QED  BY <1>4, <1>5, <1>6, <1>7 DEF LoadInv, LoadTypeOK, Loaded, Cooled

LEMMA RemoveLoad ==
  ASSUME LoadInv, NEW e \in TimelineEvent, Remove(e)
  PROVE  LoadInv'
  <1>1. /\ load' = [k \in DOMAIN load \ KeysOf(e.job) |-> load[k]]
        /\ envelope' = EndEnvelopes(Cohorts(e.job) \cup {<<e.job, 0>>}, e.at)
        /\ desired' = [desired EXCEPT ![e.job] = 0]
        /\ counter' = [counter EXCEPT ![e.job] = 0]
    BY DEF Remove
  <1>2. e.job \in Jobs /\ e.at \in Nat
    BY AnyEvent
  <1>3. Loaded(load')
    <2>1. DOMAIN load' = DOMAIN load \ KeysOf(e.job) /\ load' = [k \in DOMAIN load' |-> load[k]]
      BY <1>1
    <2>2. IsFiniteSet(DOMAIN load')
      BY <2>1, FS_Subset DEF LoadInv
    <2>. QED  BY <2>1, <2>2 DEF LoadInv, LoadTypeOK, Loaded
  <1>4. Cooled(envelope')
    BY <1>1, <1>2, LoadInvParts, EndedCooled
  <1>5. EnvelopesEnd'
    <2>1. SUFFICES ASSUME NEW k \in DOMAIN envelope, envelope'[k] = Open
                   PROVE  k \in DOMAIN load'
      BY <1>1 DEF EnvelopesEnd, EndEnvelopes
    <2>2. k \notin Cohorts(e.job) \cup {<<e.job, 0>>} /\ envelope[k] = Open
      BY <1>1, <1>2, <2>1 DEF EndEnvelopes, Open
    <2>3. k \in DOMAIN load
      BY <2>2 DEF LoadInv, EnvelopesEnd
    <2>4. k[2] \in Nat /\ k = <<k[1], k[2]>>
      BY <2>3, LoadFields
    <2>5. k \notin KeysOf(e.job)
      BY <2>2, <2>3, <2>4 DEF Cohorts, KeysOf
    <2>. QED  BY <1>1, <2>3, <2>5
  <1>6. desired' \in [Jobs -> Nat] /\ counter' \in [Jobs -> Nat]
    BY <1>1, <1>2, LoadInvParts
  <1>. QED  BY <1>3, <1>4, <1>5, <1>6 DEF LoadInv, LoadTypeOK, Loaded, Cooled

LEMMA IgnoreLoad ==
  ASSUME LoadInv, UNCHANGED loadVars
  PROVE  LoadInv'
  BY DEF loadVars, LoadInv, LoadTypeOK, EnvelopesEnd

LEMMA AppliedLoad ==
  ASSUME LoadInv, NEW e \in TimelineEvent, ApplySignal(e)
  PROVE  LoadInv'
  BY InstallLoad, SnapLoad, GrowLoad, ShrinkLoad, RemoveLoad, IgnoreLoad DEF ApplySignal, Ignore

LEMMA AdvancedLoad ==
  ASSUME LoadInv, NEW now, AdvanceLoad(now, Dt)
  PROVE  LoadInv'
  <1>1. /\ load' = [k \in DOMAIN load |-> [load[k] EXCEPT !.ramp = Ramped(@, Dt)]]
        /\ DOMAIN envelope' \subseteq DOMAIN envelope
        /\ \A k \in DOMAIN envelope' : envelope'[k] = envelope[k]
        /\ envelope' = [k \in DOMAIN envelope' |-> envelope'[k]]
        /\ UNCHANGED <<desired, counter>>
    BY DEF AdvanceLoad
  <1>2. \A r \in 0 .. Ramp : Ramped(r, Dt) \in 0 .. Ramp
    BY Times, RampAssumption DEF Ramped
  <1>3. Loaded(load')
    <2>1. \A k \in DOMAIN load : [load[k] EXCEPT !.ramp = Ramped(@, Dt)]
                                   \in [nodes : Nat, ramp : 0 .. Ramp]
      BY <1>2 DEF LoadInv, LoadTypeOK
    <2>. QED  BY <1>1, <2>1 DEF Loaded, LoadInv, LoadTypeOK
  <1>4. Cooled(envelope') /\ EnvelopesEnd'
    BY <1>1 DEF LoadInv, LoadTypeOK, Cooled, EnvelopesEnd
  <1>. QED  BY <1>1, <1>3, <1>4 DEF LoadInv, LoadTypeOK, Loaded, Cooled

LEMMA LoadStays ==
  ASSUME IInv, LoadInv, [Next]_vars
  PROVE  LoadInv'
  <1>1. CASE UNCHANGED loadVars
    BY <1>1, IgnoreLoad
  <1>2. CASE ApplyDue
    <2>1. events[cursor + 1] \in TimelineEvent
      BY <1>2, ListFields DEF ApplyDue, Due, IInv, TimelineType
    <2>. QED  BY <1>2, <2>1, AppliedLoad DEF ApplyDue
  <1>3. CASE Evaluate
    BY <1>3, AdvancedLoad DEF Evaluate
  <1>. QED  BY <1>1, <1>2, <1>3 DEF Next, Step, Request, vars, BeginStep, AllSubmitted,
              Finished, Scheduled, SubmitDue, FinishJob, PreemptJob, StartJob, Ingest, SubmitNow

LEMMA InitLoad == Init => LoadInv
  <1> SUFFICES ASSUME Init PROVE LoadInv
    OBVIOUS
  <1>1. DOMAIN load = {} /\ DOMAIN envelope = {} /\ load = NoKeys /\ envelope = NoKeys
        /\ desired = [j \in Jobs |-> 0] /\ counter = [j \in Jobs |-> 0]
    BY DEF Init, LoadInit, NoKeys
  <1>2. IsFiniteSet({})
    BY FS_EmptySet
  <1>. QED  BY <1>1, <1>2 DEF LoadInv, LoadTypeOK, EnvelopesEnd, NoKeys

\* Every variable of the timeline and of the load keeps its type, and no envelope is
\* left open for a load that is gone (apply_workload_signal).
THEOREM EnvelopesClosed == Spec => [](TypeOK /\ EnvelopesEnd)
  <1>1. IInv /\ LoadInv => TypeOK /\ EnvelopesEnd
    BY DEF IInv, TimelineType, Stages, LoadInv, TypeOK
  <1>. QED  BY <1>1, Invariance, InitLoad, LoadStays, PTL DEF Spec

-----------------------------------------------------------------------------
(* The cluster: its nodes are the ones last asked for. *)

\* Its keys hold what is desired, and nothing is left of an empty one.
Held(j) == NodesOf(j) = desired[j] /\ (desired[j] = 0 => KeysOf(j) = {})

\* The event of another job leaves the keys of a job alone.
LEMMA OthersUntouched ==
  ASSUME LoadInv, NEW e \in TimelineEvent, ApplySignal(e), NEW j \in Jobs, e.job # j
  PROVE  /\ KeysOf(j)' = KeysOf(j) /\ desired'[j] = desired[j]
         /\ \A k \in KeysOf(j) : load'[k] = load[k]
  <1>1. e.job \in Jobs /\ desired \in [Jobs -> Nat]
    BY AnyEvent DEF LoadInv, LoadTypeOK
  <1>2. CASE Install(e) \/ Snap(e)
    <2>1. PICK r : Place(e, r)
      BY <1>2 DEF Install, Snap
    <2>. QED  BY <1>1, <2>1 DEF Place, With, KeysOf
  <1>3. CASE Grow(e)
    <2> DEFINE key == <<e.job, counter[e.job] + 1>>
    <2>1. load' = With(load, key, [nodes |-> Added(e), ramp |-> 0])
          /\ desired' = [desired EXCEPT ![e.job] = e.nodes] /\ key[1] = e.job
      BY <1>3 DEF Grow
    <2> HIDE DEF key
    <2>. QED  BY <1>1, <2>1 DEF With, KeysOf
  <1>4. CASE Shrink(e)
    <2>1. /\ DOMAIN load' = DOMAIN load \ Gone(e)
          /\ \A k \in DOMAIN load \ Gone(e) : k \notin KeysOf(e.job) => load'[k] = load[k]
          /\ desired' = [desired EXCEPT ![e.job] = e.nodes]
      BY <1>4 DEF Shrink
    <2>2. Gone(e) \subseteq KeysOf(e.job)
      BY DEF Gone, Cohorts
    <2>. QED  BY <1>1, <2>1, <2>2 DEF KeysOf
  <1>5. CASE Remove(e)
    BY <1>1, <1>5 DEF Remove, KeysOf
  <1>6. CASE Ignore(e)
    BY <1>6 DEF Ignore, loadVars, KeysOf
  <1>. QED  BY <1>2, <1>3, <1>4, <1>5, <1>6 DEF ApplySignal

LEMMA SameTotal ==
  ASSUME LoadInv, NEW j, KeysOf(j)' = KeysOf(j), \A k \in KeysOf(j) : load'[k].nodes = load[k].nodes
  PROVE  NodesOf(j)' = NodesOf(j)
  <1> DEFINE K == KeysOf(j)
             w == NodeCounts
             v == NodeCounts'
  <1>1. K \in SUBSET (DOMAIN load) /\ K \in SUBSET (DOMAIN load')
    BY DEF KeysOf
  <1>2. Weighs(w, K)
    BY <1>1, LoadFields
  <1>3. \A k \in K : v[k] = w[k]
    BY <1>1 DEF NodeCounts
  <1> HIDE DEF K, w, v
  <1>4. Total(v, K) = Total(w, K)
    BY <1>2, <1>3, TotalSame
  <1>5. NodesOf(j) = Total(w, K) /\ NodesOf(j)' = Total(v, K)
    BY DEF NodesOf, K, w, v
  <1>. QED  BY <1>4, <1>5

LEMMA HeldByOthers ==
  ASSUME LoadInv, NEW e \in TimelineEvent, ApplySignal(e), NEW j \in Jobs, e.job # j, Held(j)
  PROVE  Held(j)'
  <1>1. /\ KeysOf(j)' = KeysOf(j) /\ desired'[j] = desired[j]
        /\ \A k \in KeysOf(j) : load'[k].nodes = load[k].nodes
    BY OthersUntouched
  <1>2. NodesOf(j)' = NodesOf(j)
    BY <1>1, SameTotal
  <1>. QED  BY <1>1, <1>2 DEF Held

LEMMA HeldByTime ==
  ASSUME LoadInv, NEW now, AdvanceLoad(now, Dt), NEW j \in Jobs, Held(j)
  PROVE  Held(j)'
  <1>1. /\ DOMAIN load' = DOMAIN load /\ desired' = desired
        /\ \A k \in DOMAIN load : load'[k].nodes = load[k].nodes
    <2>1. /\ load' = [k \in DOMAIN load |-> [load[k] EXCEPT !.ramp = Ramped(@, Dt)]]
          /\ desired' = desired
      BY DEF AdvanceLoad
    <2>2. ASSUME NEW k \in DOMAIN load
          PROVE  [load[k] EXCEPT !.ramp = Ramped(@, Dt)].nodes = load[k].nodes
      <3>1. load[k] \in [nodes : Nat, ramp : 0 .. Ramp]
        BY DEF LoadInv, LoadTypeOK
      <3>. QED  BY <3>1
    <2>. QED  BY <2>1, <2>2
  <1>2. KeysOf(j)' = KeysOf(j) /\ \A k \in KeysOf(j) : load'[k].nodes = load[k].nodes
    BY <1>1 DEF KeysOf
  <1>3. NodesOf(j)' = NodesOf(j)
    BY <1>2, SameTotal
  <1>. QED  BY <1>1, <1>2, <1>3 DEF Held

\* A job that comes on an empty key.
LEMMA PlaceHeld ==
  ASSUME LoadInv, NEW e \in TimelineEvent, NEW r \in 0 .. Ramp, Place(e, r),
         KeysOf(e.job) = {}, e.nodes > 0
  PROVE  Held(e.job)' /\ desired'[e.job] = e.nodes
  <1> DEFINE key == <<e.job, 0>>
             v == NodeCounts'
  <1>1. /\ load' = With(load, key, [nodes |-> e.nodes, ramp |-> r])
        /\ desired' = [desired EXCEPT ![e.job] = e.nodes]
        /\ e.job \in Jobs /\ e.nodes \in Nat /\ desired \in [Jobs -> Nat]
    BY AnyEvent DEF Place, LoadInv, LoadTypeOK
  <1>2. KeysOf(e.job)' = {key}
    <2>1. key[1] = e.job
      OBVIOUS
    <2> HIDE DEF key
    <2>. QED  BY <1>1, <2>1 DEF KeysOf, With
  <1>3. v[key] = e.nodes
    BY <1>1 DEF NodeCounts, With
  <1>4. NodesOf(e.job)' = Total(v, {key})
    BY <1>2 DEF NodesOf
  <1> HIDE DEF key, v
  <1>5. Weighs(v, {})
    BY FS_EmptySet DEF Weighs
  <1>6. Total(v, {} \cup {key}) = v[key] + Total(v, {})
    BY <1>1, <1>3, <1>5, TotalAdd
  <1>7. {} \cup {key} = {key} /\ Total(v, {}) = 0
    BY TotalEmpty
  <1>8. NodesOf(e.job)' = e.nodes
    BY <1>1, <1>3, <1>4, <1>6, <1>7
  <1>. QED  BY <1>1, <1>2, <1>8 DEF Held

\* No key of a job has a number above its counter.
CountersAhead == \A k \in DOMAIN load : k[2] <= counter[k[1]]

LEMMA GrowHeld ==
  ASSUME LoadInv, CountersAhead, NEW e \in TimelineEvent, Grow(e), Held(e.job)
  PROVE  Held(e.job)' /\ desired'[e.job] = e.nodes
  <1> DEFINE j == e.job
             key == <<j, counter[j] + 1>>
             K == KeysOf(j)
             w == NodeCounts
             v == NodeCounts'
  <1>1. /\ load' = With(load, key, [nodes |-> Added(e), ramp |-> 0])
        /\ desired' = [desired EXCEPT ![j] = e.nodes] /\ e.nodes > desired[j]
        /\ key[1] = j /\ key[2] = counter[j] + 1
        /\ j \in Jobs /\ e.nodes \in Nat /\ desired[j] \in Nat /\ counter[j] \in Nat
    BY AnyEvent, LoadFields DEF Grow
  <1>2. key \notin DOMAIN load
    BY <1>1 DEF CountersAhead
  <1>3. KeysOf(j)' = K \cup {key}
    <2> HIDE DEF key
    <2>. QED  BY <1>1 DEF KeysOf, With
  <1>4. K \in SUBSET (DOMAIN load) /\ Weighs(w, K) /\ Total(w, K) = desired[j]
    <2>1. K \in SUBSET (DOMAIN load)
      BY DEF KeysOf
    <2>. QED  BY <2>1, LoadFields DEF Held, NodesOf
  <1>5. Added(e) \in Nat /\ Added(e) = e.nodes - desired[j]
    BY <1>1 DEF Added
  <1>6. v[key] = Added(e) /\ \A k \in K : v[k] = w[k]
    BY <1>1, <1>2 DEF NodeCounts, With, KeysOf
  <1>7. NodesOf(j)' = Total(v, K \cup {key})
    BY <1>3 DEF NodesOf
  <1>8. key \notin K
    BY <1>2 DEF KeysOf
  <1>9. desired'[j] = e.nodes
    BY <1>1 DEF LoadInv, LoadTypeOK
  <1> HIDE DEF key, v, w, K, j
  <1>10. Weighs(v, K)
    BY <1>4, <1>6 DEF Weighs
  <1>11. Total(v, K \cup {key}) = v[key] + Total(v, K)
    BY <1>5, <1>6, <1>8, <1>10, TotalAdd
  <1>12. Total(v, K) = Total(w, K)
    BY <1>4, <1>6, TotalSame
  <1>13. NodesOf(j)' = e.nodes
    BY <1>1, <1>4, <1>5, <1>6, <1>7, <1>11, <1>12
  <1>14. Held(j)'
    BY <1>1, <1>9, <1>13 DEF Held
  <1>. QED  BY <1>9, <1>14 DEF j

LEMMA RemoveHeld ==
  ASSUME LoadInv, NEW e \in TimelineEvent, Remove(e)
  PROVE  Held(e.job)' /\ desired'[e.job] = 0 /\ KeysOf(e.job)' = {}
  <1>1. desired'[e.job] = 0 /\ KeysOf(e.job)' = {}
    BY AnyEvent DEF Remove, KeysOf, LoadInv, LoadTypeOK
  <1>2. NodesOf(e.job)' = Total(NodeCounts', {})
    BY <1>1 DEF NodesOf
  <1>. QED  BY <1>1, <1>2, TotalEmpty DEF Held

LEMMA ShrinkHeld ==
  ASSUME LoadInv, NEW e \in TimelineEvent, Shrink(e), Held(e.job), e.nodes > 0
  PROVE  Held(e.job)' /\ desired'[e.job] = e.nodes
  <1> DEFINE j == e.job
             K == KeysOf(j)
             w == NodeCounts
             R == desired[j] - e.nodes
             num == [k \in K |-> k[2]]
             v == [k \in K |-> Less(e, k)]
             left == K \ Gone(e)
             u == NodeCounts'
  <1>1. /\ load' = [k \in DOMAIN load \ Gone(e) |->
                      IF k \in K THEN [load[k] EXCEPT !.nodes = Less(e, k)] ELSE load[k]]
        /\ desired' = [desired EXCEPT ![j] = e.nodes] /\ e.nodes < desired[j]
        /\ j \in Jobs /\ e.nodes \in Nat /\ desired[j] \in Nat
    BY AnyEvent, LoadFields DEF Shrink, Less
  <1>2. R \in Nat /\ desired[j] - R = e.nodes
    BY <1>1
  <1>3. K \in SUBSET (DOMAIN load) /\ Weighs(w, K) /\ Total(w, K) = desired[j]
    <2>1. K \in SUBSET (DOMAIN load)
      BY DEF KeysOf
    <2>. QED  BY <2>1, LoadFields DEF Held, NodesOf
  <1>4. /\ \A k \in K : num[k] \in Nat
        /\ \A k, m \in K : num[k] = num[m] => k = m
    <2>1. \A k \in K : k[1] = j /\ k[2] \in Nat /\ k = <<k[1], k[2]>>
      BY LoadFields DEF KeysOf
    <2> HIDE DEF K, j
    <2>. QED  BY <2>1
  <1>5. \A k \in K : Above(K, num, k) = {c \in Cohorts(j) : c[2] > k[2]}
    <2>1. SUFFICES ASSUME NEW k \in K
                   PROVE  Above(K, num, k) = {c \in Cohorts(j) : c[2] > k[2]}
      OBVIOUS
    <2>2. \A c \in K : c[2] \in Nat
      BY LoadFields DEF KeysOf
    <2>3. Cohorts(j) = {c \in K : c[2] > 0}
      BY DEF Cohorts
    <2> HIDE DEF K, j
    <2>. QED  BY <2>1, <2>2, <2>3 DEF Above
  <1>6. \A k \in K : /\ Owed(e, k) = R - Total(w, Above(K, num, k))
                     /\ v[k] = Cut(load[k].nodes - Cut(Owed(e, k)))
                     /\ w[k] = load[k].nodes /\ w[k] \in Nat /\ v[k] \in Nat
                     /\ Owed(e, k) \in Int
    <2>1. SUFFICES ASSUME NEW k \in K
                   PROVE  /\ Owed(e, k) = R - Total(w, Above(K, num, k))
                          /\ v[k] = Cut(load[k].nodes - Cut(Owed(e, k)))
                          /\ w[k] = load[k].nodes /\ w[k] \in Nat /\ v[k] \in Nat
                          /\ Owed(e, k) \in Int
      OBVIOUS
    <2>2. Above(K, num, k) = {c \in Cohorts(j) : c[2] > k[2]}
      BY <1>5
    <2>3. Owed(e, k) = R - Total(w, Above(K, num, k))
      BY <2>2, Zenon DEF Owed
    <2>4. k \in DOMAIN load
      BY DEF KeysOf
    <2>5. w[k] = load[k].nodes
      BY <2>4 DEF NodeCounts
    <2>6. v[k] = Less(e, k) /\ Less(e, k) = Cut(load[k].nodes - Cut(Owed(e, k)))
      BY DEF Less, Cut
    <2>7. w[k] \in Nat
      BY <1>3 DEF Weighs
    <2>. QED  BY <2>3, <2>4, <2>5, <2>6, <2>7, OwedInt
  <1>7. left \in SUBSET K /\ KeysOf(j)' = left
    BY <1>1 DEF KeysOf
  <1>8. \A k \in left : u[k] = v[k]
    <2>1. SUFFICES ASSUME NEW k \in left PROVE u[k] = v[k]
      OBVIOUS
    <2>2. k \in K /\ k \in DOMAIN load \ Gone(e) /\ load[k] \in [nodes : Nat, ramp : 0 .. Ramp]
      BY DEF KeysOf, LoadInv, LoadTypeOK
    <2>3. load'[k] = [load[k] EXCEPT !.nodes = Less(e, k)] /\ k \in DOMAIN load'
      BY <1>1, <2>2
    <2>4. load'[k].nodes = Less(e, k)
      BY <2>2, <2>3
    <2>. QED  BY <2>2, <2>3, <2>4 DEF NodeCounts
  <1>9. \A k \in K \ left : v[k] = 0
    <2>1. SUFFICES ASSUME NEW k \in K, k \in Gone(e) PROVE v[k] = 0
      OBVIOUS
    <2>2. Owed(e, k) >= load[k].nodes
      BY <2>1 DEF Gone
    <2>3. v[k] = Cut(load[k].nodes - Cut(Owed(e, k))) /\ load[k].nodes \in Nat /\ Owed(e, k) \in Int
      BY <1>6
    <2> HIDE DEF v
    <2>. QED  BY <2>2, <2>3 DEF Cut
  <1>10. desired'[j] = e.nodes /\ NodesOf(j)' = Total(u, left)
    BY <1>1, <1>7 DEF LoadInv, LoadTypeOK, NodesOf
  <1>11. \A k \in K : v[k] = Cut(w[k] - Cut(R - Total(w, Above(K, num, k))))
    <2> HIDE DEF v, w, K, R, num
    <2>. QED  BY <1>6
  <1> HIDE DEF j, K, w, R, num, v, left, u
  <1>12. Weighs(v, K) /\ Total(v, K) = Cut(Total(w, K) - R)
    BY <1>2, <1>3, <1>4, <1>11, HighestFirst
  <1>13. Total(v, left) = Total(v, K)
    BY <1>7, <1>9, <1>12, TotalWithout
  <1>14. Weighs(v, left)
    BY <1>7, <1>12, FS_Subset DEF Weighs
  <1>15. Total(u, left) = Total(v, left)
    BY <1>8, <1>14, TotalSame
  <1>16. NodesOf(j)' = e.nodes
    BY <1>1, <1>2, <1>3, <1>10, <1>12, <1>13, <1>15 DEF Cut
  <1>17. Held(j)'
    BY <1>1, <1>10, <1>16 DEF Held
  <1>. QED  BY <1>10, <1>17 DEF j

\* What an event of the script does to the cluster.
LEMMA ScriptedHeld ==
  ASSUME LoadInv, CountersAhead, NEW e \in TimelineEvent, ApplySignal(e), Held(e.job),
         e.kind \in {"STARTING", "SCALE", "JOB_END"},
         e.kind = "STARTING" => desired[e.job] = 0,
         e.kind = "JOB_END" <=> e.nodes = 0
  PROVE  Held(e.job)' /\ desired'[e.job] = e.nodes
  <1>1. e.nodes \in Nat /\ e.job \in Jobs
    BY AnyEvent
  <1>2. CASE Install(e)
    <2>1. e.kind = "STARTING" /\ Place(e, 0) /\ 0 \in 0 .. Ramp
      BY <1>2, RampAssumption DEF Install
    <2>2. KeysOf(e.job) = {} /\ e.nodes > 0
      BY <1>1, <2>1 DEF Held
    <2>. QED  BY <2>1, <2>2, PlaceHeld
  <1>3. CASE Snap(e)
    <2>1. e.kind = "SCALE" /\ desired[e.job] = 0 /\ Place(e, Ramp) /\ Ramp \in 0 .. Ramp
      BY <1>3, RampAssumption DEF Snap
    <2>2. KeysOf(e.job) = {} /\ e.nodes > 0
      BY <1>1, <2>1 DEF Held
    <2>. QED  BY <2>1, <2>2, PlaceHeld
  <1>4. CASE Grow(e)
    BY <1>4, GrowHeld
  <1>5. CASE Shrink(e)
    <2>1. e.kind = "SCALE"
      BY <1>5 DEF Shrink
    <2>. QED  BY <1>1, <1>5, <2>1, ShrinkHeld
  <1>6. CASE Remove(e)
    <2>1. e.kind = "JOB_END"
      BY <1>6 DEF Remove, Endings
    <2>. QED  BY <1>6, <2>1, RemoveHeld
  <1>7. CASE Ignore(e)
    <2>1. e.kind = "SCALE" /\ e.nodes = desired[e.job] /\ UNCHANGED loadVars
      BY <1>7 DEF Ignore, Endings
    <2>. QED  BY <2>1 DEF loadVars, Held, NodesOf, KeysOf, NodeCounts
  <1>. QED  BY <1>2, <1>3, <1>4, <1>5, <1>6, <1>7 DEF ApplySignal

LEMMA CountersStay ==
  ASSUME LoadInv, CountersAhead, NEW e \in TimelineEvent, ApplySignal(e)
  PROVE  CountersAhead'
  <1>1. e.job \in Jobs /\ counter \in [Jobs -> Nat] /\ \A k \in DOMAIN load : k[1] \in Jobs /\ k[2] \in Nat
    BY AnyEvent, LoadFields DEF LoadInv, LoadTypeOK
  <1>2. CASE Install(e) \/ Snap(e)
    <2>1. PICK r : Place(e, r)
      BY <1>2 DEF Install, Snap
    <2>2. DOMAIN load' = {<<e.job, 0>>} \cup DOMAIN load /\ counter' = counter
      BY <2>1 DEF Place, With
    <2>. QED  BY <1>1, <2>2 DEF CountersAhead
  <1>3. CASE Grow(e)
    <2> DEFINE key == <<e.job, counter[e.job] + 1>>
    <2>1. /\ DOMAIN load' = {key} \cup DOMAIN load
          /\ counter' = [counter EXCEPT ![e.job] = @ + 1]
          /\ key[1] = e.job /\ key[2] = counter[e.job] + 1
      BY <1>3 DEF Grow, With
    <2> HIDE DEF key
    <2>. QED  BY <1>1, <2>1 DEF CountersAhead
  <1>4. CASE Shrink(e)
    BY <1>4 DEF Shrink, CountersAhead
  <1>5. CASE Remove(e)
    BY <1>1, <1>5 DEF Remove, KeysOf, CountersAhead
  <1>6. CASE Ignore(e)
    BY <1>6 DEF Ignore, loadVars, CountersAhead
  <1>. QED  BY <1>2, <1>3, <1>4, <1>5, <1>6 DEF ApplySignal

-----------------------------------------------------------------------------
(* The list after an insertion, by where each event goes. *)

Shift(p, i) == IF i < p THEN i ELSE i + 1

LEMMA InsertPlaces ==
  ASSUME events \in Seq(TimelineEvent), Ordered(events), NEW e \in TimelineEvent,
         events' = Insert(e)
  PROVE  \E p \in 1 .. Len(events) + 1 :
           /\ events' \in Seq(TimelineEvent) /\ Len(events') = Len(events) + 1
           /\ events'[p] = e
           /\ \A i \in 1 .. Len(events) :
                /\ i < p <=> events[i].at <= e.at
                /\ events'[Shift(p, i)] = events[i]
           /\ \A m \in 1 .. Len(events) + 1 :
                m # p => \E i \in 1 .. Len(events) : m = Shift(p, i)
  <1>1. PICK b \in 0 .. Len(events) :
          /\ \A i \in 1 .. Len(events) : i <= b <=> events[i].at <= e.at
          /\ Inserted(events, events', e, b)
    BY InsertFacts
  <1> DEFINE n == Len(events)
             p == b + 1
  <1>2. n \in Nat /\ b \in Nat /\ b <= n
    BY <1>1, ListFields
  <1>3. /\ events' \in Seq(TimelineEvent) /\ Len(events') = n + 1
        /\ \A i \in 1 .. b : events'[i] = events[i]
        /\ events'[b + 1] = e
        /\ \A i \in b + 2 .. n + 1 : events'[i] = events[i - 1]
    BY <1>1 DEF Inserted
  <1> HIDE DEF n
  <1>4. ASSUME NEW i \in 1 .. n
        PROVE  /\ i < p <=> events[i].at <= e.at
               /\ events'[Shift(p, i)] = events[i]
    <2>1. i < p <=> i <= b
      BY <1>2
    <2>2. CASE i <= b
      <3>1. Shift(p, i) = i
        BY <2>1, <2>2 DEF Shift
      <3>. QED  BY <1>1, <1>2, <1>3, <2>1, <2>2, <3>1 DEF n
    <2>3. CASE ~(i <= b)
      <3>1. Shift(p, i) = i + 1 /\ i + 1 \in b + 2 .. n + 1 /\ (i + 1) - 1 = i
        BY <1>2, <2>1, <2>3 DEF Shift
      <3>. QED  BY <1>1, <1>3, <2>1, <2>3, <3>1 DEF n
    <2>. QED  BY <2>2, <2>3
  <1>5. ASSUME NEW m \in 1 .. n + 1, m # p PROVE \E i \in 1 .. n : m = Shift(p, i)
    <2>1. CASE m < p
      <3>1. m \in 1 .. n /\ m = Shift(p, m)
        BY <1>2, <2>1 DEF Shift
      <3>. QED  BY <3>1
    <2>2. CASE ~(m < p)
      <3>1. m - 1 \in 1 .. n /\ m = Shift(p, m - 1)
        BY <1>2, <1>5, <2>2 DEF Shift
      <3>. QED  BY <3>1
    <2>. QED  BY <2>1, <2>2
  <1>6. p \in 1 .. n + 1
    BY <1>2
  <1>. QED  BY <1>3, <1>4, <1>5, <1>6 DEF n

LEMMA ShiftOrder ==
  ASSUME NEW n \in Nat, NEW p \in 1 .. n + 1
  PROVE  /\ \A i \in 1 .. n : Shift(p, i) \in 1 .. n + 1 /\ Shift(p, i) # p
         /\ \A i, k \in 1 .. n : Shift(p, i) < Shift(p, k) <=> i < k
         /\ \A i \in 1 .. n : Shift(p, i) < p <=> i < p
  BY DEF Shift

\* Nothing that was applied moves.
LEMMA AppliedKept ==
  ASSUME TimelineType, TimelineType', ConsumedKept
  PROVE  /\ \A i \in 1 .. cursor : i \in 1 .. Len(events) /\ events'[i] = events[i]
         /\ cursor \in Nat /\ cursor' \in Nat /\ cursor <= Len(events) /\ cursor <= Len(events')
         /\ Len(events) \in Nat /\ Len(events') \in Nat
  <1>1. /\ Len(events) \in Nat /\ Len(events') \in Nat
        /\ cursor \in 0 .. Len(events) /\ cursor' \in 0 .. Len(events')
        /\ cursor' >= cursor
    BY ListFields DEF TimelineType, ConsumedKept
  <1>2. cursor \in Nat /\ cursor' \in Nat /\ cursor <= Len(events) /\ cursor <= Len(events')
    BY <1>1
  <1>3. ASSUME NEW i \in 1 .. cursor
        PROVE  i \in 1 .. Len(events) /\ events'[i] = events[i]
    <2>1. events \in Seq(TimelineEvent) /\ events' \in Seq(TimelineEvent)
      BY DEF TimelineType
    <2>2. SubSeq(events, 1, cursor)[i] = events[i]
      BY <1>1, <1>2, <1>3, <2>1
    <2>3. SubSeq(events', 1, cursor)[i] = events'[i]
      BY <1>1, <1>2, <1>3, <2>1
    <2>. QED  BY <1>1, <1>2, <1>3, <2>2, <2>3 DEF ConsumedKept
  <1>. QED  BY <1>1, <1>2, <1>3

-----------------------------------------------------------------------------
(* The script of the cluster is in the list, and what was applied of it is    *)
(* what the cluster holds.                                                    *)

\* The last of the script's events that were applied is what the cluster holds.
LastAsked ==
  \/ /\ desired[Cluster] = 0
     /\ \A i \in 1 .. cursor : events[i].job # Cluster
  \/ \E i \in 1 .. cursor :
       /\ events[i].job = Cluster /\ desired[Cluster] = events[i].nodes
       /\ \A k \in 1 .. cursor : events[k].job = Cluster => k <= i

\* The run ticks up to its end.
InTime == simTime - Dt < EndTime /\ (stage # "idle" => simTime < EndTime)

ScriptInv ==
  /\ total \in Totals /\ Scripted(events, total)
  /\ LastAsked /\ Held(Cluster) /\ CountersAhead /\ InTime

LEMMA OthersScripted ==
  ASSUME TimelineType, Ordered(events), Scripted(events, total), total' = total,
         NEW e \in TimelineEvent, e.job # Cluster, events' = Insert(e)
  PROVE  Scripted(events, total)'
  <1> DEFINE n == Len(events)
  <1>1. PICK p \in 1 .. n + 1 :
           /\ events' \in Seq(TimelineEvent) /\ Len(events') = n + 1
           /\ events'[p] = e
           /\ \A i \in 1 .. n :
                /\ i < p <=> events[i].at <= e.at
                /\ events'[Shift(p, i)] = events[i]
           /\ \A m \in 1 .. n + 1 : m # p => \E i \in 1 .. n : m = Shift(p, i)
    <2>1. events \in Seq(TimelineEvent)
      BY DEF TimelineType
    <2>. QED  BY <2>1, InsertPlaces
  <1>2. n \in Nat
    BY ListFields DEF TimelineType
  <1>3. /\ \A i \in 1 .. n : Shift(p, i) \in 1 .. n + 1 /\ Shift(p, i) # p
        /\ \A i, k \in 1 .. n : Shift(p, i) < Shift(p, k) <=> i < k
    BY <1>2, ShiftOrder
  <1>4. \A m \in 1 .. n + 1 : events'[m].job = Cluster =>
          \E i \in 1 .. n : m = Shift(p, i) /\ events'[m] = events[i]
    BY <1>1
  <1>5. ASSUME NEW m \in 1 .. n + 1, events'[m].job = Cluster
        PROVE  /\ events'[m].at \in Changes(total)
               /\ events'[m].kind = Kind(total, events'[m].at)
               /\ events'[m].nodes = total[events'[m].at]
    <2>1. PICK i \in 1 .. n : m = Shift(p, i) /\ events'[m] = events[i]
      BY <1>4, <1>5
    <2>. QED  BY <1>5, <2>1 DEF Scripted
  <1>6. ASSUME NEW c \in Changes(total)
        PROVE  \E m \in 1 .. n + 1 : events'[m].job = Cluster /\ events'[m].at = c
    <2>1. PICK i \in 1 .. n : events[i].job = Cluster /\ events[i].at = c
      BY DEF Scripted
    <2>. QED  BY <1>1, <1>3, <2>1
  <1>7. ASSUME NEW m \in 1 .. n + 1, NEW q \in 1 .. n + 1, m < q,
               events'[m].job = Cluster, events'[q].job = Cluster
        PROVE  events'[m].at < events'[q].at
    <2>1. PICK i \in 1 .. n : m = Shift(p, i) /\ events'[m] = events[i]
      BY <1>4, <1>7
    <2>2. PICK k \in 1 .. n : q = Shift(p, k) /\ events'[q] = events[k]
      BY <1>4, <1>7
    <2>3. i < k
      BY <1>3, <1>7, <2>1, <2>2
    <2>. QED  BY <1>7, <2>1, <2>2, <2>3 DEF Scripted
  <1> HIDE DEF n
  <1>8. /\ \A m \in 1 .. Len(events') : events'[m].job = Cluster =>
             /\ events'[m].at \in Changes(total)
             /\ events'[m].kind = Kind(total, events'[m].at)
             /\ events'[m].nodes = total[events'[m].at]
        /\ \A c \in Changes(total) :
             \E m \in 1 .. Len(events') : events'[m].job = Cluster /\ events'[m].at = c
        /\ \A m, q \in 1 .. Len(events') :
             (m < q /\ events'[m].job = Cluster /\ events'[q].job = Cluster)
                => events'[m].at < events'[q].at
    BY <1>1, <1>5, <1>6, <1>7
  <1>. QED  BY <1>8 DEF Scripted

LEMMA KindFacts ==
  ASSUME NEW t \in [0 .. EndTime -> Nat], NEW n \in Changes(t)
  PROVE  /\ n \in 0 .. EndTime /\ t[n] \in Nat
         /\ Kind(t, n) \in {"STARTING", "SCALE", "JOB_END"}
         /\ Kind(t, n) = "JOB_END" <=> t[n] = 0
         /\ Kind(t, n) = "STARTING" => \A m \in 0 .. n - 1 : t[m] = 0
  <1>1. n \in 0 .. EndTime /\ t[n] \in Nat /\ EndTime \in Nat
    BY Times DEF Changes
  <1>2. CASE t[n] = 0
    BY <1>1, <1>2 DEF Kind
  <1>3. CASE t[n] > 0 /\ \E m \in 0 .. n - 1 : t[m] > 0
    <2>1. Kind(t, n) = "SCALE"
      BY <1>1, <1>3 DEF Kind
    <2>. QED  BY <1>1, <1>3, <2>1
  <1>4. CASE t[n] > 0 /\ ~ \E m \in 0 .. n - 1 : t[m] > 0
    <2>1. Kind(t, n) = "STARTING"
      BY <1>1, <1>4 DEF Kind
    <2>2. ASSUME NEW m \in 0 .. n - 1 PROVE t[m] = 0
      <3>1. t[m] \in Nat
        BY <1>1
      <3>. QED  BY <1>4, <3>1
    <2>. QED  BY <1>1, <1>4, <2>1, <2>2
  <1>. QED  BY <1>1, <1>2, <1>3, <1>4

\* The last event asked for stays the last one while the load and the applied
\* part of the list stay.
LEMMA AskedStays ==
  ASSUME TimelineType, TimelineType', ConsumedKept, cursor' = cursor, desired' = desired,
         LastAsked
  PROVE  LastAsked'
  BY AppliedKept DEF LastAsked

LEMMA ScriptWritten ==
  ASSUME IInv, IInv', ConsumedKept, ScriptInv, InTime', NEW e \in TimelineEvent, e.job # Cluster,
         events' = Insert(e), UNCHANGED <<total, cursor, loadVars>>
  PROVE  ScriptInv'
  <1>1. Scripted(events, total)'
    BY OthersScripted DEF IInv, ListInv, ScriptInv
  <1>2. LastAsked'
    BY AskedStays DEF IInv, ScriptInv, loadVars
  <1>3. Held(Cluster)' /\ CountersAhead' /\ total' \in Totals
    BY DEF ScriptInv, loadVars, Held, NodesOf, KeysOf, NodeCounts, CountersAhead
  <1>. QED  BY <1>1, <1>2, <1>3 DEF ScriptInv

LEMMA ScriptUntouched ==
  ASSUME IInv, IInv', ConsumedKept, ScriptInv, InTime', UNCHANGED <<total, events, cursor, loadVars>>
  PROVE  ScriptInv'
  BY DEF ScriptInv, LastAsked, loadVars, Held, NodesOf, KeysOf, NodeCounts, CountersAhead

LEMMA ScriptApplied ==
  ASSUME IInv, LoadInv, ScriptInv, ApplyDue
  PROVE  ScriptInv'
  <1> DEFINE e == events[cursor + 1]
  <1>1. /\ TimelineType /\ cursor' = cursor + 1 /\ cursor \in Nat
        /\ UNCHANGED <<total, events, simTime, stage>>
        /\ cursor + 1 \in 1 .. Len(events) /\ e \in TimelineEvent /\ ApplySignal(e)
    BY ListFields DEF IInv, TimelineType, ApplyDue, Due
  <1>2. /\ Cluster \in Jobs /\ total \in [0 .. EndTime -> Nat]
        /\ Scripted(events, total) /\ LastAsked /\ Held(Cluster) /\ CountersAhead /\ InTime
    BY JobsAssumption, TotalsAssumption DEF ScriptInv
  <1>3. /\ Scripted(events, total)' /\ InTime' /\ total' \in Totals
    BY <1>1 DEF ScriptInv, InTime, Scripted
  <1>4. CountersAhead'
    BY <1>1, <1>2, CountersStay
  <1>5. \A i \in 1 .. cursor + 1 : i \in 1 .. cursor \/ i = cursor + 1
    BY <1>1
  <1>6. CASE e.job = Cluster
    <2> DEFINE n == e.at
    <2>1. n \in Changes(total) /\ e.kind = Kind(total, n) /\ e.nodes = total[n]
      BY <1>1, <1>2, <1>6 DEF Scripted
    <2>2. /\ e.kind \in {"STARTING", "SCALE", "JOB_END"}
          /\ e.kind = "JOB_END" <=> e.nodes = 0
      BY <1>2, <2>1, KindFacts
    <2>3. ASSUME e.kind = "STARTING" PROVE desired[Cluster] = 0
      <3>1. \A m \in 0 .. n - 1 : total[m] = 0
        BY <1>2, <2>1, <2>3, KindFacts
      <3>2. CASE \E i \in 1 .. cursor : events[i].job = Cluster /\ desired[Cluster] = events[i].nodes
        <4>1. PICK i \in 1 .. cursor : events[i].job = Cluster /\ desired[Cluster] = events[i].nodes
          BY <3>2
        <4>2. i \in 1 .. Len(events) /\ i < cursor + 1
          BY <1>1, ListFields DEF TimelineType
        <4>3. events[i].at < n /\ events[i].at \in Changes(total) /\ events[i].nodes = total[events[i].at]
          BY <1>1, <1>2, <1>6, <4>1, <4>2 DEF Scripted
        <4>4. events[i].at \in 0 .. n - 1
          BY <1>2, <2>1, <4>3, KindFacts
        <4>. QED  BY <3>1, <4>1, <4>3, <4>4
      <3>. QED  BY <1>2, <3>2 DEF LastAsked
    <2> HIDE DEF e
    <2>4. Held(Cluster)' /\ desired'[Cluster] = e.nodes
      BY <1>1, <1>2, <1>6, <2>2, <2>3, ScriptedHeld
    <2>5. LastAsked'
      <3>1. cursor + 1 \in 1 .. cursor' /\ \A k \in 1 .. cursor' : k <= cursor + 1
        BY <1>1
      <3>2. events'[cursor + 1].job = Cluster /\ desired'[Cluster] = events'[cursor + 1].nodes
        BY <1>1, <1>6, <2>4 DEF e
      <3>. QED  BY <3>1, <3>2 DEF LastAsked
    <2>. QED  BY <1>3, <1>4, <2>4, <2>5 DEF ScriptInv
  <1>7. CASE e.job # Cluster
    <2>1. Held(Cluster)' /\ desired'[Cluster] = desired[Cluster]
      <3> HIDE DEF e
      <3>. QED  BY <1>1, <1>2, <1>7, HeldByOthers, OthersUntouched
    <2>2. LastAsked'
      <3>1. CASE desired[Cluster] = 0 /\ \A i \in 1 .. cursor : events[i].job # Cluster
        BY <1>1, <1>5, <1>7, <2>1, <3>1 DEF LastAsked
      <3>2. CASE \E i \in 1 .. cursor :
                   /\ events[i].job = Cluster /\ desired[Cluster] = events[i].nodes
                   /\ \A k \in 1 .. cursor : events[k].job = Cluster => k <= i
        <4>1. PICK i \in 1 .. cursor :
                   /\ events[i].job = Cluster /\ desired[Cluster] = events[i].nodes
                   /\ \A k \in 1 .. cursor : events[k].job = Cluster => k <= i
          BY <3>2
        <4>2. i \in 1 .. cursor' /\ \A k \in 1 .. cursor' : events'[k].job = Cluster => k <= i
          BY <1>1, <1>5, <1>7, <4>1
        <4>3. events'[i].job = Cluster /\ desired'[Cluster] = events'[i].nodes
          BY <1>1, <2>1, <4>1
        <4>. QED  BY <4>2, <4>3 DEF LastAsked
      <3>. QED  BY <1>2, <3>1, <3>2 DEF LastAsked
    <2>. QED  BY <1>3, <1>4, <2>1, <2>2 DEF ScriptInv
  <1>. QED  BY <1>6, <1>7

LEMMA ScriptTicks ==
  ASSUME IInv, LoadInv, ScriptInv, Evaluate
  PROVE  ScriptInv'
  <1>1. /\ UNCHANGED <<total, events, cursor>> /\ AdvanceLoad(simTime, Dt)
        /\ stage = "apply" /\ stage' = "idle" /\ simTime' = simTime + Dt /\ simTime \in Nat
    BY DEF Evaluate, IInv, TimelineType
  <1>2. Held(Cluster)'
    BY <1>1, HeldByTime, JobsAssumption DEF ScriptInv
  <1>3. CountersAhead' /\ desired' = desired
    BY <1>1 DEF ScriptInv, AdvanceLoad, CountersAhead
  <1>4. InTime'
    BY <1>1, Times DEF ScriptInv, InTime
  <1>5. LastAsked' /\ Scripted(events, total)' /\ total' \in Totals
    BY <1>1, <1>3 DEF ScriptInv, LastAsked, Scripted
  <1>. QED  BY <1>2, <1>3, <1>4, <1>5 DEF ScriptInv

LEMMA NotOfCluster ==
  ASSUME NEW j \in External \cup Internal, NEW kind \in EventKinds, NEW at \in Nat
  PROVE  /\ Event(j, kind, at, 1) \in TimelineEvent /\ j # Cluster
         /\ Event(j, kind, at, 1).job = j /\ Event(j, kind, at, 1).kind = kind
         /\ Event(j, kind, at, 1).at = at
  BY JobsAssumption DEF Event, TimelineEvent

\* The scheduler's jobs and the snapshots write events, and never the cluster's.
LEMMA WriterWrites ==
  ASSUME IInv,
         \/ \E j \in Internal : SubmitDue(j) \/ FinishJob(j) \/ PreemptJob(j) \/ StartJob(j)
         \/ Request
  PROVE  /\ UNCHANGED <<total, cursor, simTime, loadVars>>
         /\ \/ events' = events
            \/ \E e \in TimelineEvent : e.job # Cluster /\ events' = Insert(e)
  <1>1. simTime \in Nat /\ endAt \in [Internal -> Nat]
        /\ {"QUEUED", "STARTING", "JOB_PREEMPTED"} \subseteq EventKinds
        /\ Snapshots \subseteq EventKinds /\ \A j \in Internal : Outcome[j] \in EventKinds
    BY OutcomeAssumption DEF IInv, TimelineType, EventKinds, Snapshots
  <1>2. ASSUME NEW j \in External \cup Internal, NEW kind \in EventKinds, NEW at \in Nat,
               events' = Insert(Event(j, kind, at, 1))
        PROVE  \E e \in TimelineEvent : e.job # Cluster /\ events' = Insert(e)
    BY <1>2, NotOfCluster
  <1>3. ASSUME NEW j \in Internal, SubmitDue(j) PROVE
         /\ UNCHANGED <<total, cursor, simTime, loadVars>>
         /\ \/ events' = events
            \/ \E e \in TimelineEvent : e.job # Cluster /\ events' = Insert(e)
    <2>1. Arrival[j] \in Nat
      BY <1>3, JobsAssumption DEF SubmitDue, IInv, TimelineType
    <2>2. \/ events' = events
          \/ events' = Insert(Event(j, "QUEUED", Arrival[j], 1))
      BY <1>3 DEF SubmitDue
    <2>. QED  BY <1>1, <1>2, <1>3, <2>1, <2>2 DEF SubmitDue
  <1>4. ASSUME NEW j \in Internal, FinishJob(j) PROVE
         /\ UNCHANGED <<total, cursor, simTime, loadVars>>
         /\ \E e \in TimelineEvent : e.job # Cluster /\ events' = Insert(e)
    <2>1. events' = Insert(Event(j, Outcome[j], endAt[j], 1)) /\ endAt[j] \in Nat
      BY <1>1, <1>4 DEF FinishJob
    <2>. QED  BY <1>1, <1>2, <1>4, <2>1 DEF FinishJob
  <1>5. ASSUME NEW j \in Internal, PreemptJob(j) PROVE
         /\ UNCHANGED <<total, cursor, simTime, loadVars>>
         /\ \E e \in TimelineEvent : e.job # Cluster /\ events' = Insert(e)
    BY <1>1, <1>2, <1>5 DEF PreemptJob
  <1>6. ASSUME NEW j \in Internal, StartJob(j) PROVE
         /\ UNCHANGED <<total, cursor, simTime, loadVars>>
         /\ \E e \in TimelineEvent : e.job # Cluster /\ events' = Insert(e)
    BY <1>1, <1>2, <1>6 DEF StartJob
  <1>7. ASSUME NEW j \in Internal, SubmitNow(j) PROVE
         /\ UNCHANGED <<total, cursor, simTime, loadVars>>
         /\ \E e \in TimelineEvent : e.job # Cluster /\ events' = Insert(e)
    BY <1>1, <1>2, <1>7 DEF SubmitNow
  <1>8. ASSUME NEW j \in External, NEW kind \in Snapshots, NEW when \in {0, simTime},
               Ingest(j, kind, when)
        PROVE
         /\ UNCHANGED <<total, cursor, simTime, loadVars>>
         /\ \E e \in TimelineEvent : e.job # Cluster /\ events' = Insert(e)
    <2>1. Stamp(when) \in Nat /\ kind \in EventKinds
      BY <1>1 DEF Stamp
    <2>2. events' = Insert(Event(j, kind, Stamp(when), 1))
      BY <1>8 DEF Ingest
    <2>. QED  BY <1>2, <1>8, <2>1, <2>2 DEF Ingest
  <1>. QED  BY <1>3, <1>4, <1>5, <1>6, <1>7, <1>8 DEF Request

\* A call begins only before the end of the run.
LEMMA TimeKept ==
  ASSUME InTime, [Next]_vars, ~Evaluate
  PROVE  InTime'
  <1>1. simTime' = simTime
    BY DEF Next, Step, Request, vars, BeginStep, AllSubmitted,
           Finished, Scheduled, ApplyDue, SubmitDue, FinishJob, PreemptJob, StartJob, Ingest, SubmitNow
  <1>2. stage' # "idle" => stage # "idle" \/ simTime < EndTime
    BY DEF Next, Step, Request, vars, BeginStep, AllSubmitted,
           Finished, Scheduled, ApplyDue, SubmitDue, FinishJob, PreemptJob, StartJob, Ingest, SubmitNow
  <1>. QED  BY <1>1, <1>2 DEF InTime

LEMMA ScriptStays ==
  ASSUME IInv, LoadInv, ScriptInv, [Next]_vars
  PROVE  ScriptInv'
  <1>1. IInv' /\ ConsumedKept
    BY NextInv
  <1>2. CASE ApplyDue
    BY <1>2, ScriptApplied
  <1>3. CASE Evaluate
    BY <1>3, ScriptTicks
  <1>4. CASE BeginStep \/ AllSubmitted \/ Finished \/ Scheduled \/ UNCHANGED vars
    <2>1. ~Evaluate \/ Evaluate
      OBVIOUS
    <2>2. UNCHANGED <<total, events, cursor, loadVars>>
      BY <1>4 DEF BeginStep, AllSubmitted, Finished, Scheduled, vars
    <2>3. ~Evaluate => InTime'
      BY TimeKept DEF ScriptInv
    <2>. QED  BY <1>1, <1>3, <2>1, <2>2, <2>3, ScriptUntouched
  <1>5. CASE \/ \E j \in Internal : SubmitDue(j) \/ FinishJob(j) \/ PreemptJob(j) \/ StartJob(j)
             \/ Request
    <2>1. CASE Evaluate
      BY <1>3, <2>1
    <2>2. CASE ~Evaluate
      <3>1. InTime'
        BY <2>2, TimeKept DEF ScriptInv
      <3>2. /\ UNCHANGED <<total, cursor, simTime, loadVars>>
            /\ \/ events' = events
               \/ \E e \in TimelineEvent : e.job # Cluster /\ events' = Insert(e)
        BY <1>5, WriterWrites
      <3>3. CASE events' = events
        BY <1>1, <3>1, <3>2, <3>3, ScriptUntouched
      <3>4. CASE \E e \in TimelineEvent : e.job # Cluster /\ events' = Insert(e)
        BY <1>1, <3>1, <3>2, <3>4, ScriptWritten
      <3>. QED  BY <3>2, <3>3, <3>4
    <2>. QED  BY <2>1, <2>2
  <1>. QED  BY <1>2, <1>3, <1>4, <1>5 DEF Next, Step

LEMMA InitScript == Init => ScriptInv
  <1> SUFFICES ASSUME Init PROVE ScriptInv
    OBVIOUS
  <1>1. /\ total \in Totals /\ total \in [0 .. EndTime -> Nat] /\ events = Aggregate(total)
        /\ cursor = 0 /\ simTime = 0 /\ stage = "idle" /\ DOMAIN load = {}
        /\ desired = [j \in Jobs |-> 0] /\ Cluster \in Jobs
    BY TotalsAssumption, JobsAssumption DEF Init, LoadInit, NoKeys
  <1>2. Scripted(events, total)
    BY <1>1, AggregateFacts
  <1>3. LastAsked /\ CountersAhead /\ InTime
    BY <1>1, Times DEF LastAsked, CountersAhead, InTime
  <1>4. KeysOf(Cluster) = {}
    BY <1>1 DEF KeysOf
  <1>5. NodesOf(Cluster) = 0
    BY <1>4, TotalEmpty DEF NodesOf
  <1>6. Held(Cluster)
    BY <1>1, <1>4, <1>5 DEF Held
  <1>. QED  BY <1>1, <1>2, <1>3, <1>6 DEF ScriptInv

\* Between two changes the script asks for what it asked before.
LEMMA ScriptConstant ==
  ASSUME NEW t \in [0 .. EndTime -> Nat], NEW a \in Nat, NEW b \in 0 .. EndTime, a <= b,
         \A n \in Changes(t) : ~(a < n /\ n <= b)
  PROVE  t[b] = t[a]
  <1> DEFINE B == {m \in a .. b : t[m] # t[a]}
  <1>0. EndTime \in Nat /\ a \in 0 .. EndTime /\ b \in Nat
    BY Times
  <1>1. SUFFICES ASSUME B # {} PROVE FALSE
    BY <1>0
  <1>2. B \in SUBSET Int /\ IsFiniteSet(B)
    <2>1. B \subseteq a .. b
      OBVIOUS
    <2>2. IsFiniteSet(a .. b)
      BY <1>0, FS_Interval
    <2>3. IsFiniteSet(B)
      BY <2>1, <2>2, FS_Subset
    <2>. QED  BY <1>0, <2>1, <2>3
  <1>3. PICK m \in B : \A s \in B : m <= s
    BY <1>1, <1>2, LeastOf
  <1>4. m \in a .. b /\ t[m] # t[a] /\ m > a
    BY <1>0, <1>3
  <1>5. m - 1 \in a .. b /\ m - 1 \notin B
    BY <1>0, <1>3, <1>4
  <1>6. t[m - 1] = t[a]
    BY <1>5
  <1>7. m \in Changes(t)
    BY <1>0, <1>4, <1>6 DEF Changes, Before
  <1>. QED  BY <1>0, <1>4, <1>7

\* At a tick the last of the cluster's events that was applied is the last change of
\* the script up to that instant.
LEMMA ClusterScripted == IInv /\ ScriptInv => ClusterLoadIsScripted
  <1> SUFFICES ASSUME IInv, ScriptInv, stage = "idle", simTime >= Dt
               PROVE  NodesOf(Cluster) = total[simTime - Dt]
    BY DEF ClusterLoadIsScripted
  <1> DEFINE s == simTime - Dt
  <1>1. /\ total \in [0 .. EndTime -> Nat] /\ s \in 0 .. EndTime /\ EndTime \in Nat
    BY TotalsAssumption, Times DEF ScriptInv, InTime, IInv, TimelineType
  <1>2. /\ \A i \in 1 .. Len(events) : i <= cursor <=> events[i].at <= s
        /\ Len(events) \in Nat /\ cursor \in 0 .. Len(events)
        /\ \A i \in 1 .. Len(events) : events[i].at \in Nat
    BY DueIsApplied, ListFields DEF DueExactlyApplied, IInv, TimelineType
  <1>3. NodesOf(Cluster) = desired[Cluster] /\ Scripted(events, total) /\ Ordered(events)
    BY DEF ScriptInv, Held, IInv, ListInv
  <1> HIDE DEF s
  <1>4. ASSUME NEW c \in Changes(total), c <= s
        PROVE  \E i \in 1 .. cursor : events[i].job = Cluster /\ events[i].at = c
    <2>1. PICK i \in 1 .. Len(events) : events[i].job = Cluster /\ events[i].at = c
      BY <1>3 DEF Scripted
    <2>. QED  BY <1>2, <1>4, <2>1
  <1>5. CASE desired[Cluster] = 0 /\ \A i \in 1 .. cursor : events[i].job # Cluster
    <2>1. \A c \in Changes(total) : ~(c <= s)
      BY <1>4, <1>5
    <2>2. 0 \in 0 .. EndTime /\ 0 \notin Changes(total)
      BY <1>1, <2>1
    <2>3. total[0] = 0
      BY <2>2 DEF Changes, Before
    <2>4. total[s] = total[0]
      BY <1>1, <2>1, ScriptConstant
    <2>. QED  BY <1>3, <1>5, <2>3, <2>4 DEF s
  <1>6. CASE \E i \in 1 .. cursor :
               /\ events[i].job = Cluster /\ desired[Cluster] = events[i].nodes
               /\ \A k \in 1 .. cursor : events[k].job = Cluster => k <= i
    <2>1. PICK i \in 1 .. cursor :
               /\ events[i].job = Cluster /\ desired[Cluster] = events[i].nodes
               /\ \A k \in 1 .. cursor : events[k].job = Cluster => k <= i
      BY <1>6
    <2> DEFINE a == events[i].at
    <2>2. i \in 1 .. Len(events) /\ a \in Nat /\ a <= s /\ events[i].nodes = total[a]
      BY <1>2, <1>3, <2>1 DEF Scripted
    <2>3. ASSUME NEW c \in Changes(total), a < c, c <= s PROVE FALSE
      <3>1. PICK k \in 1 .. cursor : events[k].job = Cluster /\ events[k].at = c
        BY <1>4, <2>3
      <3>2. k <= i /\ k \in 1 .. Len(events)
        BY <1>2, <2>1, <3>1
      <3>3. events[k].at <= events[i].at
        BY <1>3, <2>2, <3>2 DEF Ordered
      <3>. QED  BY <1>2, <2>2, <2>3, <3>1, <3>2, <3>3
    <2> HIDE DEF a
    <2>4. total[s] = total[a]
      BY <1>1, <2>2, <2>3, ScriptConstant
    <2>. QED  BY <1>3, <2>1, <2>2, <2>4 DEF s
  <1>. QED  BY <1>5, <1>6 DEF ScriptInv, LastAsked

-----------------------------------------------------------------------------
(* The internal jobs: whether one runs is what the last of its events says.   *)

\* Of the first n events, the last one of j starts it.
Started(n, j) ==
  \E i \in 1 .. n : /\ events[i].job = j /\ events[i].kind = "STARTING"
                    /\ \A k \in 1 .. n : events[k].job = j => k <= i

\* The events of a job are the scheduler's, of the past, and the first alone queues it.
History(j) ==
  \A i \in 1 .. Len(events) : events[i].job = j =>
    /\ engine[j] # "NEW" /\ events[i].at <= simTime
    /\ engine[j] = "RUNNING" => events[i].at <= endAt[j]
    /\ events[i].kind \in {"QUEUED", "STARTING"} \cup Endings
    /\ events[i].kind = "QUEUED" =>
         \A k \in 1 .. Len(events) : events[k].job = j => i <= k

JobInv(j) ==
  /\ engine[j] = "RUNNING" <=> Started(Len(events), j)
  /\ KeysOf(j) # {} <=> Started(cursor, j)
  /\ History(j)

EngineInv == \A j \in Internal : JobInv(j)

\* What was applied of a job is not changed by what is written.
LEMMA StartedKept ==
  ASSUME TimelineType, TimelineType', ConsumedKept, cursor' = cursor, NEW j
  PROVE  Started(cursor, j)' <=> Started(cursor, j)
  BY AppliedKept DEF Started

\* An event of another job.
LEMMA OtherInserted ==
  ASSUME TimelineType, TimelineType', Ordered(events), ConsumedKept, NEW j \in Internal, JobInv(j),
         NEW e \in TimelineEvent, e.job # j, events' = Insert(e),
         engine'[j] = engine[j], endAt'[j] = endAt[j],
         UNCHANGED <<simTime, cursor, loadVars>>
  PROVE  JobInv(j)'
  <1> DEFINE n == Len(events)
  <1>1. PICK p \in 1 .. n + 1 :
           /\ events' \in Seq(TimelineEvent) /\ Len(events') = n + 1
           /\ events'[p] = e
           /\ \A i \in 1 .. n :
                /\ i < p <=> events[i].at <= e.at
                /\ events'[Shift(p, i)] = events[i]
           /\ \A m \in 1 .. n + 1 : m # p => \E i \in 1 .. n : m = Shift(p, i)
    <2>1. events \in Seq(TimelineEvent)
      BY DEF TimelineType
    <2>. QED  BY <2>1, InsertPlaces
  <1>2. n \in Nat
    BY ListFields DEF TimelineType
  <1>3. /\ \A i \in 1 .. n : Shift(p, i) \in 1 .. n + 1 /\ Shift(p, i) # p
        /\ \A i, k \in 1 .. n : Shift(p, i) < Shift(p, k) <=> i < k
    BY <1>2, ShiftOrder
  <1>4. \A m \in 1 .. n + 1 : events'[m].job = j =>
          \E i \in 1 .. n : m = Shift(p, i) /\ events'[m] = events[i]
    BY <1>1
  <1>5. KeysOf(j)' = KeysOf(j) /\ (Started(cursor, j)' <=> Started(cursor, j))
    BY StartedKept DEF loadVars, KeysOf
  <1>6. \A i, k \in 1 .. n : Shift(p, k) <= Shift(p, i) <=> k <= i
    BY <1>2, <1>3
  <1>7. Started(n, j) => Started(Len(events), j)'
    <2>1. ASSUME NEW i \in 1 .. n, events[i].job = j, events[i].kind = "STARTING",
                 \A k \in 1 .. n : events[k].job = j => k <= i
          PROVE  Started(Len(events), j)'
      <3>1. Shift(p, i) \in 1 .. n + 1 /\ events'[Shift(p, i)] = events[i]
        BY <1>1, <1>3
      <3>2. \A m \in 1 .. n + 1 : events'[m].job = j => m <= Shift(p, i)
        BY <1>4, <1>6, <2>1
      <3>. QED  BY <1>1, <2>1, <3>1, <3>2 DEF Started
    <2>. QED  BY <2>1 DEF Started
  <1>8. Started(Len(events), j)' => Started(n, j)
    <2>1. ASSUME NEW m \in 1 .. n + 1, events'[m].job = j, events'[m].kind = "STARTING",
                 \A k \in 1 .. n + 1 : events'[k].job = j => k <= m
          PROVE  Started(n, j)
      <3>1. PICK i \in 1 .. n : m = Shift(p, i) /\ events'[m] = events[i]
        BY <1>4, <2>1
      <3>2. ASSUME NEW k \in 1 .. n, events[k].job = j PROVE k <= i
        <4>1. events'[Shift(p, k)] = events[k] /\ Shift(p, k) \in 1 .. n + 1
          BY <1>1, <1>3
        <4>. QED  BY <1>6, <2>1, <3>1, <3>2, <4>1
      <3>. QED  BY <2>1, <3>1, <3>2 DEF Started
    <2>. QED  BY <1>1, <2>1 DEF Started
  <1>9. History(j)'
    <2>1. ASSUME NEW m \in 1 .. n + 1, events'[m].job = j
          PROVE  /\ engine[j] # "NEW" /\ events'[m].at <= simTime
                 /\ engine[j] = "RUNNING" => events'[m].at <= endAt[j]
                 /\ events'[m].kind \in {"QUEUED", "STARTING"} \cup Endings
                 /\ events'[m].kind = "QUEUED" =>
                      \A q \in 1 .. n + 1 : events'[q].job = j => m <= q
      <3>1. PICK i \in 1 .. n : m = Shift(p, i) /\ events'[m] = events[i]
        BY <1>4, <2>1
      <3>2. ASSUME events'[m].kind = "QUEUED", NEW q \in 1 .. n + 1, events'[q].job = j
            PROVE  m <= q
        <4>1. PICK k \in 1 .. n : q = Shift(p, k) /\ events'[q] = events[k]
          BY <1>4, <3>2
        <4>2. i <= k
          BY <2>1, <3>1, <3>2, <4>1 DEF JobInv, History
        <4>. QED  BY <1>6, <3>1, <4>1, <4>2
      <3>. QED  BY <2>1, <3>1, <3>2 DEF JobInv, History
    <2>. QED  BY <1>1, <2>1 DEF History
  <1>10. (engine[j] = "RUNNING" <=> Started(Len(events), j)) /\ (KeysOf(j) # {} <=> Started(cursor, j))
    BY DEF JobInv
  <1>11. engine'[j] = "RUNNING" <=> Started(Len(events), j)'
    BY <1>7, <1>8, <1>10
  <1>12. KeysOf(j)' # {} <=> Started(cursor, j)'
    BY <1>5, <1>10
  <1>. QED  BY <1>9, <1>11, <1>12 DEF JobInv

\* An event of the job itself comes last.
LEMMA OwnInserted ==
  ASSUME TimelineType, TimelineType', Ordered(events), ConsumedKept, NEW j \in Internal, JobInv(j),
         NEW e \in TimelineEvent, e.job = j, events' = Insert(e),
         UNCHANGED <<simTime, cursor, loadVars>>,
         e.kind \in {"QUEUED", "STARTING"} \cup Endings, e.at <= simTime,
         e.kind = "QUEUED" => engine[j] = "NEW",
         \A i \in 1 .. Len(events) : events[i].job = j => events[i].at <= e.at,
         engine'[j] # "NEW", engine'[j] = "RUNNING" <=> e.kind = "STARTING",
         engine'[j] = "RUNNING" => simTime <= endAt'[j]
  PROVE  JobInv(j)'
  <1> DEFINE n == Len(events)
  <1>1. PICK p \in 1 .. n + 1 :
           /\ events' \in Seq(TimelineEvent) /\ Len(events') = n + 1
           /\ events'[p] = e
           /\ \A i \in 1 .. n :
                /\ i < p <=> events[i].at <= e.at
                /\ events'[Shift(p, i)] = events[i]
           /\ \A m \in 1 .. n + 1 : m # p => \E i \in 1 .. n : m = Shift(p, i)
    <2>1. events \in Seq(TimelineEvent)
      BY DEF TimelineType
    <2>. QED  BY <2>1, InsertPlaces
  <1>2. n \in Nat /\ simTime \in Nat
        /\ endAt' \in [Internal -> Nat] /\ endAt'[j] \in Nat
    BY ListFields DEF TimelineType
  <1>3. /\ \A i \in 1 .. n : Shift(p, i) \in 1 .. n + 1 /\ Shift(p, i) # p
        /\ \A i \in 1 .. n : Shift(p, i) < p <=> i < p
    BY <1>2, ShiftOrder
  <1>4. ASSUME NEW m \in 1 .. n + 1, events'[m].job = j, m # p
        PROVE  m < p /\ \E i \in 1 .. n : events'[m] = events[i]
    <2>1. PICK i \in 1 .. n : m = Shift(p, i)
      BY <1>1, <1>4
    <2>2. events'[m] = events[i]
      BY <1>1, <2>1
    <2>. QED  BY <1>1, <1>3, <1>4, <2>1, <2>2
  <1>5. \A m \in 1 .. n + 1 : events'[m].job = j => m <= p
    BY <1>2, <1>4
  <1>6. KeysOf(j)' = KeysOf(j) /\ (Started(cursor, j)' <=> Started(cursor, j))
    BY StartedKept DEF loadVars, KeysOf
  <1>7. Started(Len(events), j)' <=> e.kind = "STARTING"
    <2>1. ASSUME e.kind = "STARTING" PROVE Started(Len(events), j)'
      BY <1>1, <1>5, <2>1 DEF Started
    <2>2. ASSUME NEW m \in 1 .. n + 1, events'[m].kind = "STARTING", events'[m].job = j,
                 \A k \in 1 .. n + 1 : events'[k].job = j => k <= m
          PROVE  e.kind = "STARTING"
      <3>1. m <= p /\ p <= m
        BY <1>1, <1>5, <2>2
      <3>2. m = p
        BY <1>2, <3>1
      <3>. QED  BY <1>1, <2>2, <3>2
    <2>. QED  BY <1>1, <2>1, <2>2 DEF Started
  <1>8. History(j)'
    <2>1. ASSUME NEW m \in 1 .. n + 1, events'[m].job = j
          PROVE  /\ engine'[j] # "NEW" /\ events'[m].at <= simTime
                 /\ engine'[j] = "RUNNING" => events'[m].at <= endAt'[j]
                 /\ events'[m].kind \in {"QUEUED", "STARTING"} \cup Endings
                 /\ events'[m].kind = "QUEUED" =>
                      \A q \in 1 .. n + 1 : events'[q].job = j => m <= q
      <3>1. CASE m = p
        <4>1. ASSUME e.kind = "QUEUED", NEW q \in 1 .. n + 1, events'[q].job = j, q # p
              PROVE  FALSE
          <5>1. PICK i \in 1 .. n : events'[q] = events[i]
            BY <1>4, <4>1
          <5>. QED  BY <4>1, <5>1 DEF JobInv, History
        <4>2. e.at \in Nat /\ (engine'[j] = "RUNNING" => e.at <= endAt'[j])
          BY <1>2, EventFields
        <4>. QED  BY <1>1, <1>2, <3>1, <4>1, <4>2
      <3>2. CASE m # p
        <4>1. m < p
          BY <1>4, <2>1, <3>2
        <4>2. PICK i \in 1 .. n : events'[m] = events[i]
          BY <1>4, <2>1, <3>2
        <4>3. events[i].at \in Nat
          BY <1>2, ListFields DEF TimelineType
        <4>4. /\ events[i].at <= simTime /\ engine[j] # "NEW"
              /\ events[i].kind \in {"QUEUED", "STARTING"} \cup Endings
              /\ events[i].kind = "QUEUED" =>
                   \A k \in 1 .. n : events[k].job = j => i <= k
          BY <2>1, <4>2 DEF JobInv, History
        <4>5. ASSUME events[i].kind = "QUEUED", NEW q \in 1 .. n + 1, events'[q].job = j
              PROVE  m <= q
          <5>1. PICK i1 \in 1 .. n : m = Shift(p, i1) /\ events'[m] = events[i1]
            BY <1>1, <3>2
          <5>2. CASE q = p
            BY <1>2, <4>1, <5>2
          <5>3. CASE q # p
            <6>1. PICK k \in 1 .. n : q = Shift(p, k) /\ events'[q] = events[k]
              BY <1>1, <5>3
            <6>2. i1 <= k
              BY <2>1, <4>2, <4>5, <5>1, <6>1 DEF JobInv, History
            <6>. QED  BY <1>2, <5>1, <6>1, <6>2 DEF Shift
          <5>. QED  BY <5>2, <5>3
        <4>6. engine'[j] = "RUNNING" => events[i].at <= endAt'[j]
          BY <1>2, <4>3, <4>4
        <4>. QED  BY <4>2, <4>4, <4>5, <4>6
      <3>. QED  BY <3>1, <3>2
    <2>. QED  BY <1>1, <2>1 DEF History
  <1>. QED  BY <1>6, <1>7, <1>8 DEF JobInv

\* Applying an event of the job brings its load up to the event; any other event
\* leaves it alone.
LEMMA JobApplied ==
  ASSUME IInv, LoadInv, ApplyDue, NEW j \in Internal, JobInv(j)
  PROVE  JobInv(j)'
  <1> DEFINE e == events[cursor + 1]
             n == cursor
  <1>1. /\ n \in Nat /\ cursor' = n + 1
        /\ UNCHANGED <<events, simTime, engine, endAt>>
        /\ cursor + 1 \in 1 .. Len(events) /\ e \in TimelineEvent /\ ApplySignal(e)
        /\ j \in Jobs /\ Len(events) \in Nat
    BY ListFields, JobsAssumption DEF IInv, TimelineType, ApplyDue, Due, engineVars
  <1>2. History(j)' /\ (engine'[j] = "RUNNING" <=> Started(Len(events), j)')
    BY <1>1 DEF JobInv, History, Started
  <1>3. \A i \in 1 .. n + 1 : i \in 1 .. n \/ i = n + 1
    BY <1>1
  <1>4. KeysOf(j) # {} <=> Started(n, j)
    BY DEF JobInv
  <1>5. CASE e.job # j
    <2>1. Started(n + 1, j) <=> Started(n, j)
      <3>1. ASSUME NEW i \in 1 .. n + 1, events[i].job = j PROVE i \in 1 .. n
        BY <1>1, <1>3, <1>5, <3>1
      <3>2. \A i \in 1 .. n : i \in 1 .. n + 1
        BY <1>1
      <3> HIDE DEF n
      <3>. QED  BY <3>1, <3>2 DEF Started
    <2>2. KeysOf(j)' = KeysOf(j)
      <3> HIDE DEF e
      <3>. QED  BY <1>1, <1>5, OthersUntouched
    <2>3. Started(cursor, j)' <=> Started(n + 1, j)
      BY <1>1 DEF Started
    <2>4. KeysOf(j)' # {} <=> Started(cursor, j)'
      BY <1>4, <2>1, <2>2, <2>3
    <2>. QED  BY <1>2, <2>4 DEF JobInv
  <1>6. CASE e.job = j
    <2>1. /\ e.kind \in {"QUEUED", "STARTING"} \cup Endings
          /\ e.kind = "QUEUED" => \A k \in 1 .. n : events[k].job # j
      <3>1. /\ e.kind \in {"QUEUED", "STARTING"} \cup Endings
            /\ e.kind = "QUEUED" =>
                 \A k \in 1 .. Len(events) : events[k].job = j => n + 1 <= k
        BY <1>1, <1>6 DEF JobInv, History
      <3>2. \A k \in 1 .. n : k \in 1 .. Len(events) /\ ~(n + 1 <= k)
        BY <1>1
      <3>. QED  BY <3>1, <3>2
    <2>2. Started(n + 1, j) <=> e.kind = "STARTING"
      <3>1. ASSUME e.kind = "STARTING" PROVE Started(n + 1, j)
        BY <1>1, <1>6, <3>1 DEF Started
      <3>2. ASSUME NEW i \in 1 .. n + 1, events[i].kind = "STARTING",
                   \A k \in 1 .. n + 1 : events[k].job = j => k <= i
            PROVE  e.kind = "STARTING"
        <4>1. i = n + 1
          BY <1>1, <1>6, <3>2
        <4>. QED  BY <3>2, <4>1
      <3>. QED  BY <3>1, <3>2 DEF Started
    <2>3. Started(cursor, j)' <=> Started(n + 1, j)
      BY <1>1 DEF Started
    <2>4. KeysOf(j)' # {} <=> e.kind = "STARTING"
      <3>1. CASE e.kind = "STARTING"
        <4>1. Install(e)
          BY <1>1, <3>1 DEF ApplySignal, Snap, Grow, Shrink, Remove, Ignore, Endings
        <4>2. <<e.job, 0>> \in DOMAIN load'
          BY <4>1 DEF Install, Place, With
        <4>. QED  BY <1>6, <3>1, <4>2 DEF KeysOf
      <3>2. CASE e.kind \in Endings
        <4>1. Remove(e)
          BY <1>1, <3>2 DEF ApplySignal, Install, Snap, Grow, Shrink, Ignore, Endings
        <4>. QED  BY <1>6, <3>2, <4>1 DEF Remove, KeysOf, Endings
      <3>3. CASE e.kind = "QUEUED"
        <4>1. Ignore(e)
          BY <1>1, <3>3 DEF ApplySignal, Install, Snap, Grow, Shrink, Remove, Endings
        <4>2. ~Started(n, j)
          BY <2>1, <3>3 DEF Started
        <4>. QED  BY <1>4, <3>3, <4>1, <4>2 DEF Ignore, loadVars, KeysOf
      <3>. QED  BY <2>1, <3>1, <3>2, <3>3
    <2>5. KeysOf(j)' # {} <=> Started(cursor, j)'
      BY <2>2, <2>3, <2>4
    <2>. QED  BY <1>2, <2>5 DEF JobInv
  <1>. QED  BY <1>5, <1>6

LEMMA JobTicks ==
  ASSUME IInv, Evaluate, NEW j \in Internal, JobInv(j)
  PROVE  JobInv(j)'
  <1>1. /\ UNCHANGED <<events, cursor, engine, endAt>> /\ DOMAIN load' = DOMAIN load
        /\ simTime' = simTime + Dt /\ simTime \in Nat
    BY DEF Evaluate, IInv, TimelineType, AdvanceLoad, engineVars
  <1>2. \A i \in 1 .. Len(events) : events[i].at \in Nat
    BY ListFields DEF IInv, TimelineType
  <1>3. /\ KeysOf(j)' = KeysOf(j)
        /\ Started(cursor, j)' <=> Started(cursor, j)
        /\ Started(Len(events), j)' <=> Started(Len(events), j)
    BY <1>1 DEF KeysOf, Started
  <1>4. History(j)'
    BY <1>1, <1>2, Times DEF JobInv, History
  <1>5. (engine[j] = "RUNNING" <=> Started(Len(events), j)) /\ (KeysOf(j) # {} <=> Started(cursor, j))
    BY DEF JobInv
  <1>. QED  BY <1>1, <1>3, <1>4, <1>5 DEF JobInv

LEMMA JobUntouched ==
  ASSUME NEW j, JobInv(j), engine'[j] = engine[j], UNCHANGED <<events, cursor, simTime, endAt, loadVars>>
  PROVE  JobInv(j)'
  BY DEF JobInv, History, Started, KeysOf, loadVars

\* Whoever writes for one internal job leaves the others alone.
LEMMA JobWritten ==
  ASSUME IInv, IInv', ConsumedKept, EngineInv, NEW j \in Internal, NEW at \in Nat,
         NEW kind \in {"QUEUED", "STARTING", "JOB_PREEMPTED", Outcome[j]},
         events' = Insert(Event(j, kind, at, 1)), UNCHANGED <<simTime, cursor, loadVars>>,
         \A i \in Internal : i # j => engine'[i] = engine[i] /\ endAt'[i] = endAt[i],
         at <= simTime, kind = "QUEUED" => engine[j] = "NEW",
         kind # "QUEUED" =>
           \A i \in 1 .. Len(events) : events[i].job = j => events[i].at <= at,
         engine'[j] # "NEW", engine'[j] = "RUNNING" <=> kind = "STARTING",
         engine'[j] = "RUNNING" => simTime <= endAt'[j]
  PROVE  EngineInv'
  <1> DEFINE e == Event(j, kind, at, 1)
  <1>1. kind \in {"QUEUED", "STARTING"} \cup Endings /\ kind \in EventKinds
    BY OutcomeAssumption DEF Endings, EventKinds, Snapshots
  <1>2. e \in TimelineEvent /\ e.job = j /\ e.kind = kind /\ e.at = at
    BY <1>1, NotOfCluster
  <1>3. TimelineType /\ TimelineType' /\ Ordered(events) /\ JobInv(j)
    BY DEF IInv, ListInv, EngineInv
  <1>4. \A i \in 1 .. Len(events) : events[i].job = j => events[i].at <= at
    BY <1>3 DEF JobInv, History
  <1> HIDE DEF e
  <1>5. JobInv(j)'
    BY <1>1, <1>2, <1>3, <1>4, OwnInserted DEF e
  <1>6. ASSUME NEW i \in Internal, i # j PROVE JobInv(i)'
    BY <1>2, <1>3, <1>6, OtherInserted DEF EngineInv, e
  <1>. QED  BY <1>5, <1>6 DEF EngineInv

LEMMA EngineWrites ==
  ASSUME IInv, IInv', ConsumedKept, EngineInv, NEW j \in Internal,
         SubmitDue(j) \/ FinishJob(j) \/ PreemptJob(j) \/ StartJob(j) \/ SubmitNow(j)
  PROVE  EngineInv'
  <1>1. /\ simTime \in Nat /\ endAt \in [Internal -> Nat]
        /\ engine \in [Internal -> {"NEW", "PENDING", "RUNNING", "ENDED"}]
        /\ Outcome[j] \in {"JOB_END", "JOB_FAILED", "JOB_TIMEOUT"}
        /\ JobInv(j)
    BY OutcomeAssumption DEF IInv, TimelineType, EngineInv
  <1>2. \A i \in 1 .. Len(events) : events[i].job = j =>
          /\ engine[j] # "NEW" /\ events[i].at <= simTime
          /\ engine[j] = "RUNNING" => events[i].at <= endAt[j]
    BY <1>1 DEF JobInv, History
  <1>3. CASE SubmitDue(j)
    <2>1. UNCHANGED <<cursor, simTime, endAt, loadVars>> /\ Arrival[j] <= simTime
          /\ Arrival[j] \in Nat
      BY <1>3, JobsAssumption DEF SubmitDue, IInv, TimelineType
    <2>2. CASE engine[j] = "NEW"
      <3>1. /\ engine' = [engine EXCEPT ![j] = "PENDING"]
            /\ events' = Insert(Event(j, "QUEUED", Arrival[j], 1))
        BY <1>3, <2>2 DEF SubmitDue
      <3>2. engine'[j] = "PENDING" /\ \A i \in Internal : i # j => engine'[i] = engine[i]
        BY <1>1, <3>1
      <3>. QED  BY <2>1, <2>2, <3>1, <3>2, JobWritten
    <2>3. CASE engine[j] # "NEW"
      <3>1. UNCHANGED <<events, engine>>
        BY <1>3, <2>3 DEF SubmitDue
      <3>. QED  BY <2>1, <3>1, JobUntouched DEF EngineInv
    <2>. QED  BY <2>2, <2>3
  <1>4. CASE FinishJob(j)
    <2>1. /\ UNCHANGED <<cursor, simTime, endAt, loadVars>>
          /\ engine' = [engine EXCEPT ![j] = "ENDED"]
          /\ events' = Insert(Event(j, Outcome[j], endAt[j], 1))
          /\ engine[j] = "RUNNING" /\ endAt[j] <= simTime /\ endAt[j] \in Nat
      BY <1>1, <1>4 DEF FinishJob, Over
    <2>2. engine'[j] = "ENDED" /\ \A i \in Internal : i # j => engine'[i] = engine[i]
      BY <1>1, <2>1
    <2>. QED  BY <1>1, <1>2, <2>1, <2>2, JobWritten
  <1>5. CASE PreemptJob(j)
    <2>1. /\ UNCHANGED <<cursor, simTime, endAt, loadVars>>
          /\ engine' \in {[engine EXCEPT ![j] = s] : s \in {"PENDING", "ENDED"}}
          /\ events' = Insert(Event(j, "JOB_PREEMPTED", simTime, 1))
      BY <1>5 DEF PreemptJob
    <2>2. engine'[j] \in {"PENDING", "ENDED"} /\ \A i \in Internal : i # j => engine'[i] = engine[i]
      BY <1>1, <2>1
    <2>. QED  BY <1>1, <1>2, <2>1, <2>2, JobWritten
  <1>6. CASE StartJob(j)
    <2>1. /\ UNCHANGED <<cursor, simTime, loadVars>>
          /\ engine' = [engine EXCEPT ![j] = "RUNNING"]
          /\ endAt' = [endAt EXCEPT ![j] = simTime + Duration]
          /\ events' = Insert(Event(j, "STARTING", simTime, 1))
      BY <1>6 DEF StartJob
    <2>2. /\ engine'[j] = "RUNNING" /\ endAt'[j] = simTime + Duration
          /\ \A i \in Internal : i # j => engine'[i] = engine[i] /\ endAt'[i] = endAt[i]
          /\ simTime <= simTime + Duration
      BY <1>1, <2>1, Times
    <2>. QED  BY <1>1, <1>2, <2>1, <2>2, JobWritten
  <1>7. CASE SubmitNow(j)
    <2>1. /\ UNCHANGED <<cursor, simTime, endAt, loadVars>> /\ engine[j] = "NEW"
          /\ engine' = [engine EXCEPT ![j] = "PENDING"]
          /\ events' = Insert(Event(j, "QUEUED", simTime, 1))
      BY <1>7 DEF SubmitNow
    <2>2. engine'[j] = "PENDING" /\ \A i \in Internal : i # j => engine'[i] = engine[i]
      BY <1>1, <2>1
    <2>. QED  BY <1>1, <2>1, <2>2, JobWritten
  <1>. QED  BY <1>3, <1>4, <1>5, <1>6, <1>7

LEMMA EngineIngests ==
  ASSUME IInv, IInv', ConsumedKept, EngineInv, NEW x \in External, NEW kind \in Snapshots,
         NEW when \in {0, simTime}, Ingest(x, kind, when)
  PROVE  EngineInv'
  <1> DEFINE e == Event(x, kind, Stamp(when), 1)
  <1>1. Stamp(when) \in Nat /\ kind \in EventKinds
    BY DEF Stamp, IInv, TimelineType, EventKinds
  <1>2. e \in TimelineEvent /\ e.job = x
    BY <1>1, NotOfCluster
  <1>3. events' = Insert(e) /\ UNCHANGED <<simTime, cursor, engine, endAt, loadVars>>
    BY DEF Ingest, engineVars
  <1>4. TimelineType /\ TimelineType' /\ Ordered(events)
    BY DEF IInv, ListInv
  <1> HIDE DEF e
  <1>5. ASSUME NEW j \in Internal PROVE JobInv(j)'
    <2>1. e.job # j
      BY <1>2, JobsAssumption
    <2>. QED  BY <1>2, <1>3, <1>4, <2>1, OtherInserted DEF EngineInv
  <1>. QED  BY <1>5 DEF EngineInv

LEMMA EngineStays ==
  ASSUME IInv, LoadInv, EngineInv, [Next]_vars
  PROVE  EngineInv'
  <1>1. IInv' /\ ConsumedKept
    BY NextInv
  <1>2. CASE ApplyDue
    BY <1>2, JobApplied DEF EngineInv
  <1>3. CASE Evaluate
    BY <1>3, JobTicks DEF EngineInv
  <1>4. CASE BeginStep \/ AllSubmitted \/ Finished \/ Scheduled \/ UNCHANGED vars
    <2>1. UNCHANGED <<events, cursor, simTime, engine, endAt, loadVars>>
      BY <1>4 DEF BeginStep, AllSubmitted, Finished, Scheduled, vars, engineVars
    <2>. QED  BY <2>1, JobUntouched DEF EngineInv
  <1>5. CASE \E j \in Internal :
               SubmitDue(j) \/ FinishJob(j) \/ PreemptJob(j) \/ StartJob(j) \/ SubmitNow(j)
    BY <1>1, <1>5, EngineWrites
  <1>6. CASE \E j \in External, kind \in Snapshots, when \in {0, simTime} : Ingest(j, kind, when)
    BY <1>1, <1>6, EngineIngests
  <1>. QED  BY <1>2, <1>3, <1>4, <1>5, <1>6 DEF Next, Step, Request

LEMMA InitEngine == Init => EngineInv
  <1> SUFFICES ASSUME Init, NEW j \in Internal PROVE JobInv(j)
    BY DEF EngineInv
  <1>1. /\ total \in [0 .. EndTime -> Nat] /\ events = Aggregate(total) /\ cursor = 0
        /\ engine[j] = "NEW" /\ KeysOf(j) = {} /\ j # Cluster
    BY TotalsAssumption, JobsAssumption DEF Init, LoadInit, NoKeys, KeysOf
  <1>2. \A i \in 1 .. Len(events) : events[i].job # j
    BY <1>1, AggregateFacts
  <1>3. ~Started(Len(events), j) /\ ~Started(cursor, j)
    BY <1>1, <1>2 DEF Started
  <1>. QED  BY <1>1, <1>2, <1>3 DEF JobInv, History

LEMMA EngineFollowed == IInv /\ EngineInv => LoadFollowsEngine
  <1> SUFFICES ASSUME IInv, EngineInv, NEW j \in Internal,
                      \A i \in DOMAIN events : i > cursor => events[i].job # j
               PROVE  KeysOf(j) # {} <=> engine[j] = "RUNNING"
    BY DEF LoadFollowsEngine
  <1>1. /\ Len(events) \in Nat /\ cursor \in 0 .. Len(events) /\ DOMAIN events = 1 .. Len(events)
    BY ListFields DEF IInv, TimelineType
  <1>2. \A i \in 1 .. Len(events) : events[i].job = j => i \in 1 .. cursor
    BY <1>1
  <1>3. \A i \in 1 .. cursor : i \in 1 .. Len(events)
    BY <1>1
  <1>4. Started(Len(events), j) <=> Started(cursor, j)
    BY <1>2, <1>3 DEF Started
  <1>. QED  BY <1>4 DEF EngineInv, JobInv

\* The load that is left behind is the scheduled one: of the script, of the internal
\* scheduler, and with no heat of a load that is gone (RunManager.step,
\* GPUModule.apply_signal, SimulationState.apply_workload_signal).
THEOREM LoadIsFollowed == Spec => []LoadFollows
  <1>1. IInv /\ LoadInv /\ ScriptInv /\ EngineInv => LoadFollows
    BY ClusterScripted, EngineFollowed
       DEF IInv, TimelineType, Stages, LoadInv, TypeOK, LoadFollows
  <1>2. Spec => [](LoadInv /\ ScriptInv /\ EngineInv)
    <2>1. Init => LoadInv /\ ScriptInv /\ EngineInv
      BY InitLoad, InitScript, InitEngine
    <2>2. IInv /\ LoadInv /\ ScriptInv /\ EngineInv /\ [Next]_vars
            => (LoadInv /\ ScriptInv /\ EngineInv)'
      BY LoadStays, ScriptStays, EngineStays
    <2>. QED  BY <2>1, <2>2, Invariance, PTL DEF Spec
  <1>. QED  BY <1>1, <1>2, Invariance, PTL
=============================================================================
