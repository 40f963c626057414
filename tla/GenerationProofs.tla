-------------------------- MODULE GenerationProofs --------------------------
(***************************************************************************)
(* The proofs about the generation assets: about DieselFleet, for any      *)
(* number of primary and standby units, any times of starting, running     *)
(* and resting, and any gap and outcomes of the starts; and about          *)
(* TurbineCommitment, for any fleet, times, thresholds, demands and        *)
(* operators.                                                              *)
(***************************************************************************)
EXTENDS DieselFleet, TurbineCommitment, SetLemmas

-----------------------------------------------------------------------------
(* The diesel fleet.                                                       *)

(***************************************************************************)
(* What holds of a fleet f between any two operators of a tick.  A failed  *)
(* start is answered in a later operator than the one that finds it, so    *)
(* the standbys called are counted against the failures already answered.  *)
(***************************************************************************)
Apart(f) ==
  /\ f.starting \cap f.synchronised = {} /\ f.starting \cap f.unloading = {}
  /\ f.starting \cap f.failed = {} /\ f.synchronised \cap f.unloading = {}
  /\ f.synchronised \cap f.failed = {} /\ f.unloading \cap f.failed = {}

Booked(f) ==
  f.starting \cup f.synchronised \cup f.unloading \cup f.failed \subseteq f.attempted

CalledStandbys(f) == f.attempted \cap StandbyUnits

OneEach(f) ==
  /\ f.handled \subseteq f.failed
  /\ Cardinality(CalledStandbys(f)) <= Cardinality(f.handled)

Matched(f) ==
  \/ Cardinality(CalledStandbys(f)) = Cardinality(f.handled)
  \/ CalledStandbys(f) = StandbyUnits

LockCovered(f) ==
  \A u \in FleetUnits : f.lock[u] <= IF f.cooldown = NoCooldown THEN 0 ELSE f.cooldown

FreshUnlocked(f) == \A u \in FleetUnits \ f.attempted : f.lock[u] = 0

Closed(f) == ~f.episode => f.attempted = {} /\ f.cooldown = NoCooldown

Sound(f) ==
  /\ f \in FleetType
  /\ Apart(f) /\ Booked(f) /\ OneEach(f) /\ Matched(f)
  /\ LockCovered(f) /\ FreshUnlocked(f) /\ Closed(f)

\* At the end of a tick every failure has been answered.
Answered(f) == f.episode => f.handled = f.failed

FleetInv ==
  /\ Sound(fleet) /\ Answered(fleet)
  /\ gap \in BOOLEAN /\ beat \in {0, 1}

-----------------------------------------------------------------------------
(* Counting units.                                                         *)

LEMMA UnitFacts ==
  /\ NTotal \in Nat /\ NActive \in Nat \ {0} /\ NActive <= NTotal
  /\ Primaries \subseteq FleetUnits /\ StandbyUnits \subseteq FleetUnits
  /\ Primaries \cap StandbyUnits = {} /\ Primaries \cup StandbyUnits = FleetUnits
  /\ IsFiniteSet(FleetUnits) /\ IsFiniteSet(Primaries) /\ IsFiniteSet(StandbyUnits)
  /\ Cardinality(Primaries) = NActive
  /\ LastOffset \in Nat
  <1>1. NTotal \in Nat /\ NActive \in Nat \ {0} /\ NActive <= NTotal /\ Stagger \in Nat
    BY DieselAssumption
  <1>2. /\ Primaries \subseteq FleetUnits /\ StandbyUnits \subseteq FleetUnits
        /\ Primaries \cap StandbyUnits = {} /\ Primaries \cup StandbyUnits = FleetUnits
    BY <1>1 DEF Primaries, StandbyUnits, FleetUnits
  <1>3. IsFiniteSet(FleetUnits) /\ IsFiniteSet(Primaries) /\ Cardinality(Primaries) = NActive
    BY <1>1, FS_Interval DEF FleetUnits, Primaries
  <1>4. IsFiniteSet(StandbyUnits)
    BY <1>2, <1>3, FS_Subset
  <1>5. LastOffset \in Nat
    <2>1. NActive - 1 \in Nat
      BY <1>1
    <2>. QED  BY <2>1, <1>1 DEF LastOffset
  <1>. QED  BY <1>1, <1>2, <1>3, <1>4, <1>5

\* A set of units is finite, and so is its size.
LEMMA UnitSets ==
  ASSUME NEW S \in SUBSET FleetUnits
  PROVE  IsFiniteSet(S) /\ Cardinality(S) \in Nat
  BY UnitFacts, FS_Subset, FS_CardinalityType

-----------------------------------------------------------------------------
(* The operators of a tick keep a fleet sound.                             *)

\* The fields of a fleet.
LEMMA FleetFields ==
  ASSUME NEW f \in FleetType
  PROVE  /\ f.starting \subseteq FleetUnits /\ f.synchronised \subseteq FleetUnits
         /\ f.unloading \subseteq FleetUnits /\ f.failed \subseteq FleetUnits
         /\ f.attempted \subseteq FleetUnits /\ f.success \subseteq FleetUnits
         /\ f.handled \subseteq FleetUnits
         /\ f.left \in [FleetUnits -> 0..DieselStart] /\ f.ran \in [FleetUnits -> 0..DieselMinRun]
         /\ f.lock \in [FleetUnits -> 0..DieselMinDown]
         /\ f.episode \in BOOLEAN /\ f.alert \in BOOLEAN
         /\ f.since \in 0..LastOffset /\ f.positive \in 0..Debounce
         /\ f.restored \in 0..RestoreHold /\ f.cooldown \in NoCooldown..DieselMinDown
         /\ f.rollup \in Rollups
  BY DEF FleetType

LEMMA Times ==
  /\ DieselStart \in Nat /\ DieselMinRun \in Nat /\ DieselMinDown \in Nat
  /\ Debounce \in Nat /\ RestoreHold \in Nat /\ LastOffset \in Nat
  /\ NoCooldown \in Int /\ NoCooldown < 0
  BY DieselAssumption, UnitFacts DEF NoCooldown

\* Clocks that count down to 0, and up to a cap.
LEMMA Clocks ==
  /\ \A m \in Nat : \A n \in 0..m : Less(n) \in 0..m /\ Less(n) <= n
  /\ \A m \in Nat : \A n \in 0..m : Lesser(n + 1, m) \in 0..m
  /\ \A m, n \in Int : m <= n => Less(m) <= Less(n)
  BY DEF Less, Lesser

LEMMA AdvanceSound ==
  ASSUME NEW f, Sound(f)
  PROVE  Sound(Elapsed(f))
  <1> DEFINE due == {u \in f.starting : f.left[u] <= 1}
             g == Elapsed(f)
  <1>1. f \in FleetType
    BY DEF Sound
  <1>2. /\ g.starting = f.starting \ due
        /\ g.synchronised = f.synchronised \cup (due \cap f.success)
        /\ g.unloading = f.unloading
        /\ g.failed = f.failed \cup (due \ f.success)
        /\ g.attempted = f.attempted /\ g.success = f.success
        /\ g.left = [u \in FleetUnits |-> IF u \in f.starting THEN Less(f.left[u]) ELSE f.left[u]]
        /\ g.ran = [u \in FleetUnits |-> IF u \in due \cap f.success THEN 0
                                      ELSE Lesser(f.ran[u] + 1, DieselMinRun)]
        /\ g.lock = [u \in FleetUnits |-> Less(f.lock[u])]
        /\ g.episode = f.episode /\ g.since = Lesser(f.since + 1, LastOffset)
        /\ g.positive = f.positive /\ g.restored = f.restored
        /\ g.handled = f.handled /\ g.cooldown = Less(f.cooldown)
        /\ g.alert = f.alert /\ g.rollup = f.rollup
    BY <1>1 DEF Elapsed, AdvanceUnits, FleetType
  <1>3. g \in FleetType
    <2>1. g.left \in [FleetUnits -> 0..DieselStart]
      BY <1>1, <1>2, FleetFields, Clocks, Times
    <2>2. g.ran \in [FleetUnits -> 0..DieselMinRun]
      <3>1. \A u \in FleetUnits : Lesser(f.ran[u] + 1, DieselMinRun) \in 0..DieselMinRun
        BY <1>1, FleetFields, Clocks, Times
      <3>. QED  BY <3>1, <1>2, Times
    <2>3. g.lock \in [FleetUnits -> 0..DieselMinDown]
      BY <1>1, <1>2, FleetFields, Clocks, Times
    <2>4. g.since \in 0..LastOffset /\ g.cooldown \in NoCooldown..DieselMinDown
      BY <1>1, <1>2, FleetFields, Clocks, Times DEF Less
    <2>5. /\ g.starting \subseteq FleetUnits /\ g.synchronised \subseteq FleetUnits
          /\ g.failed \subseteq FleetUnits
      BY <1>1, <1>2, FleetFields
    <2>. QED  BY <1>1, <2>1, <2>2, <2>3, <2>4, <2>5 DEF Elapsed, AdvanceUnits, FleetType
  <1>4. Apart(g) /\ Booked(g)
    BY <1>2 DEF Sound, Apart, Booked
  <1>5. OneEach(g) /\ Matched(g) /\ Closed(g)
    BY <1>2 DEF Sound, OneEach, Matched, CalledStandbys, Closed, Less, NoCooldown
  <1>6. LockCovered(g)
    <2>1. SUFFICES ASSUME NEW u \in FleetUnits
                   PROVE  g.lock[u] <= IF g.cooldown = NoCooldown THEN 0 ELSE g.cooldown
      BY DEF LockCovered
    <2>2. g.lock[u] = Less(f.lock[u]) /\ f.lock[u] \in 0..DieselMinDown
      BY <1>1, <1>2, FleetFields
    <2>3. f.lock[u] <= IF f.cooldown = NoCooldown THEN 0 ELSE f.cooldown
      BY DEF Sound, LockCovered
    <2>. QED  BY <1>1, <1>2, <2>2, <2>3, FleetFields, Times DEF Less, NoCooldown
  <1>7. FreshUnlocked(g)
    BY <1>2 DEF Sound, FreshUnlocked, Less
  <1>. QED  BY <1>3, <1>4, <1>5, <1>6, <1>7 DEF Sound

LEMMA CompleteSound ==
  ASSUME NEW f, Sound(f)
  PROVE  Sound(CompleteCooldownIfReady(f))
  <1> DEFINE g == CompleteCooldownIfReady(f)
  <1>1. CASE ~(f.cooldown = 0 /\ Offline(f) = FleetUnits)
    BY <1>1 DEF CompleteCooldownIfReady
  <1>2. CASE f.cooldown = 0 /\ Offline(f) = FleetUnits
    <2>1. f \in FleetType
      BY DEF Sound
    <2>2. /\ f.starting = {} /\ f.synchronised = {}
          /\ f.unloading = {} /\ f.failed = {}
      BY <1>2, <2>1, FleetFields DEF Offline
    <2>3. /\ g.starting = {} /\ g.synchronised = {} /\ g.unloading = {}
          /\ g.failed = {} /\ g.attempted = {} /\ g.handled = {}
          /\ g.lock = f.lock /\ g.episode = FALSE /\ g.cooldown = NoCooldown
      BY <1>2, <2>1, <2>2 DEF CompleteCooldownIfReady, ResetForNewEpisode, FleetType
    <2>4. g \in FleetType
      <3>1. /\ [u \in FleetUnits |-> 0] \in [FleetUnits -> 0..DieselStart]
            /\ [u \in FleetUnits |-> 0] \in [FleetUnits -> 0..DieselMinRun]
            /\ NoCooldown \in NoCooldown..DieselMinDown
            /\ 0 \in 0..Debounce /\ 0 \in 0..RestoreHold
        BY Times
      <3> DEFINE r == ResetForNewEpisode(f)
      <3>2. r \in FleetType
        BY <2>1, <3>1 DEF ResetForNewEpisode, FleetType
      <3>3. g = [r EXCEPT !.episode = FALSE, !.cooldown = NoCooldown, !.positive = 0,
                          !.restored = 0, !.handled = {}, !.alert = FALSE]
        BY <1>2 DEF CompleteCooldownIfReady
      <3> HIDE DEF r, g
      <3>. QED  BY <3>1, <3>2, <3>3 DEF FleetType
    <2>5. \A u \in FleetUnits : g.lock[u] = 0
      <3>1. SUFFICES ASSUME NEW u \in FleetUnits PROVE f.lock[u] = 0
        BY <2>3
      <3>2. f.lock[u] \in 0..DieselMinDown
        BY <2>1, FleetFields
      <3>3. f.lock[u] <= 0
        BY <1>2 DEF Sound, LockCovered, NoCooldown
      <3>. QED  BY <3>2, <3>3, Times
    <2>6. CalledStandbys(g) = {} /\ Cardinality(CalledStandbys(g)) = Cardinality(g.handled)
          /\ Cardinality(g.handled) = 0
      BY <2>3, FS_EmptySet DEF CalledStandbys
    <2>. QED  BY <2>3, <2>4, <2>5, <2>6 DEF Sound, Apart, Booked, OneEach, Matched,
                LockCovered, FreshUnlocked, Closed
  <1>. QED  BY <1>1, <1>2

\* Operators that change neither the units nor what was called.
SameUnits(g, f) ==
  /\ g.starting = f.starting /\ g.synchronised = f.synchronised
  /\ g.unloading = f.unloading /\ g.failed = f.failed
  /\ g.attempted = f.attempted /\ g.handled = f.handled
  /\ g.lock = f.lock /\ g.cooldown = f.cooldown

LEMMA SameUnitsSound ==
  ASSUME NEW f, NEW g \in FleetType, Sound(f), SameUnits(g, f),
         g.episode \/ ~f.episode
  PROVE  Sound(g)
  BY DEF Sound, SameUnits, Apart, Booked, OneEach, Matched, CalledStandbys,
         LockCovered, FreshUnlocked, Closed

\* What a start commanded to the offline units us makes of fleet f.
StartedBy(g, f, us) ==
  /\ g \in FleetType /\ us \subseteq FleetUnits
  /\ g.starting = f.starting \cup us /\ g.attempted = f.attempted \cup us
  /\ g.synchronised = f.synchronised /\ g.unloading = f.unloading
  /\ g.failed = f.failed /\ g.handled = f.handled
  /\ g.lock = f.lock /\ g.cooldown = f.cooldown /\ g.episode = f.episode
  /\ us \cap f.attempted = {}
  /\ us \cap (f.starting \cup f.synchronised \cup f.unloading \cup f.failed) = {}

LEMMA StartFacts ==
  ASSUME NEW f \in FleetType, NEW us \in SUBSET CanStart(f), NEW ok \in SUBSET FleetUnits
  PROVE  StartedBy(CommandStarts(f, us, ok), f, us)
  <1> DEFINE g == CommandStarts(f, us, ok)
  <1>1. /\ us \subseteq FleetUnits /\ us \cap f.attempted = {}
        /\ us \cap (f.starting \cup f.synchronised \cup f.unloading \cup f.failed) = {}
    BY DEF CanStart, Offline
  <1>2. [u \in FleetUnits |-> IF u \in us THEN DieselStart ELSE f.left[u]] \in [FleetUnits -> 0..DieselStart]
    BY FleetFields, Times
  <1>3. g \in FleetType
    BY <1>1, <1>2 DEF CommandStarts, FleetType
  <1>. QED  BY <1>1, <1>3 DEF StartedBy, CommandStarts, FleetType

\* In an episode a start of a primary unit keeps the fleet sound.
LEMMA PrimariesSound ==
  ASSUME NEW f, NEW us, NEW ok \in SUBSET FleetUnits,
         Sound(f), f.episode, us \subseteq CanStart(f) \cap Primaries
  PROVE  Sound(CommandStarts(f, us, ok))
  <1> DEFINE g == CommandStarts(f, us, ok)
  <1>1. f \in FleetType /\ us \in SUBSET CanStart(f) /\ us \subseteq Primaries
    BY DEF Sound
  <1>2. StartedBy(g, f, us)
    BY <1>1, StartFacts
  <1> HIDE DEF g
  <1>3. CalledStandbys(g) = CalledStandbys(f)
    BY <1>1, <1>2, UnitFacts DEF CalledStandbys, StartedBy
  <1>4. Apart(g) /\ Booked(g)
    BY <1>2 DEF StartedBy, Sound, Apart, Booked
  <1>5. OneEach(g) /\ Matched(g)
    BY <1>2, <1>3 DEF StartedBy, Sound, OneEach, Matched
  <1>6. LockCovered(g) /\ FreshUnlocked(g) /\ Closed(g)
    BY <1>2 DEF StartedBy, Sound, LockCovered, FreshUnlocked, Closed
  <1>. QED  BY <1>2, <1>4, <1>5, <1>6 DEF Sound, StartedBy, g

\* FleetUnits that move between running and unloading keep their lockouts.
LEMMA MovedSound ==
  ASSUME NEW f, NEW g \in FleetType, Sound(f), f.episode,
         g.starting = f.starting, g.failed = f.failed,
         g.synchronised \cap g.unloading = {},
         g.synchronised \cup g.unloading = f.synchronised \cup f.unloading,
         g.attempted = f.attempted, g.handled = f.handled,
         g.lock = f.lock, g.cooldown = f.cooldown, g.episode = f.episode
  PROVE  Sound(g)
  <1>1. Apart(g) /\ Booked(g)
    BY DEF Sound, Apart, Booked
  <1>. QED  BY <1>1 DEF Sound, OneEach, Matched, CalledStandbys, LockCovered,
              FreshUnlocked, Closed

LEMMA CalledSound ==
  ASSUME NEW f, NEW ok \in SUBSET FleetUnits, Sound(f), f.episode
  PROVE  Sound(Called(f, ok)) /\ Called(f, ok).episode
  <1> DEFINE back == ResumeFromUnloading([f EXCEPT !.restored = 0])
  <1>1. f \in FleetType
    BY DEF Sound
  <1>2. /\ back \in FleetType /\ back.starting = f.starting
        /\ back.failed = f.failed /\ back.unloading = {}
        /\ back.synchronised = f.synchronised \cup f.unloading
        /\ back.attempted = f.attempted /\ back.handled = f.handled
        /\ back.lock = f.lock /\ back.cooldown = f.cooldown
        /\ back.episode = f.episode
    <2> DEFINE m == [f EXCEPT !.restored = 0]
    <2>1. m \in FleetType /\ SameUnits(m, f) /\ m.episode = f.episode
      <3>1. 0 \in 0..RestoreHold
        BY Times
      <3>. QED  BY <1>1, <3>1 DEF FleetType, SameUnits
    <2> HIDE DEF m
    <2>2. LET b == ResumeFromUnloading(m) IN
          /\ b \in FleetType /\ b.starting = m.starting
          /\ b.failed = m.failed /\ b.unloading = {}
          /\ b.synchronised = m.synchronised \cup m.unloading
          /\ b.attempted = m.attempted /\ b.handled = m.handled
          /\ b.lock = m.lock /\ b.cooldown = m.cooldown
          /\ b.episode = m.episode
      BY <2>1 DEF ResumeFromUnloading, FleetType
    <2>. QED  BY <2>1, <2>2 DEF m, SameUnits
  <1>3. Sound(back) /\ back.episode
    BY <1>2, MovedSound
  <1>4. DuePrimaries(back) \subseteq CanStart(back) \cap Primaries
    BY DEF DuePrimaries
  <1>5. Sound(CommandStarts(back, DuePrimaries(back), ok))
    BY <1>3, <1>4, PrimariesSound
  <1>6. CommandStarts(back, DuePrimaries(back), ok).episode = back.episode
    <2>1. DuePrimaries(back) \in SUBSET CanStart(back) /\ back \in FleetType
      BY <1>2, <1>4
    <2> HIDE DEF back
    <2>2. StartedBy(CommandStarts(back, DuePrimaries(back), ok), back, DuePrimaries(back))
      BY <2>1, StartFacts
    <2>. QED  BY <2>2 DEF StartedBy
  <1>. QED  BY <1>3, <1>5, <1>6 DEF Called

LEMMA StopSound ==
  ASSUME NEW f, Sound(f), f.episode
  PROVE  Sound(CommandStops(f)) /\ CommandStops(f).episode
  <1> DEFINE us == {u \in f.synchronised : f.ran[u] >= DieselMinRun}
             g == CommandStops(f)
  <1>1. f \in FleetType
    BY DEF Sound
  <1>2. /\ g \in FleetType /\ g.starting = f.starting /\ g.failed = f.failed
        /\ g.unloading = f.unloading \cup us
        /\ g.synchronised = f.synchronised \ us /\ us \subseteq f.synchronised
        /\ g.attempted = f.attempted /\ g.handled = f.handled
        /\ g.lock = f.lock /\ g.cooldown = f.cooldown
        /\ g.episode = f.episode
    BY <1>1 DEF CommandStops, FleetType
  <1>3. g.synchronised \cap g.unloading = {}
    BY <1>2 DEF Sound, Apart
  <1>. QED  BY <1>2, <1>3, MovedSound

LEMMA FinishSound ==
  ASSUME NEW f, Sound(f), f.episode
  PROVE  Sound(FinishUnloading(f)) /\ FinishUnloading(f).episode
  <1> DEFINE g == FinishUnloading(f)
  <1>1. f \in FleetType
    BY DEF Sound
  <1>2. [u \in FleetUnits |-> IF u \in f.unloading THEN DieselMinDown ELSE f.lock[u]] \in [FleetUnits -> 0..DieselMinDown]
    BY <1>1, FleetFields, Times
  <1> DEFINE c == CompleteUnloading(f)
  <1>a. /\ c \in FleetType
        /\ c.starting = f.starting /\ c.failed = f.failed /\ c.unloading = {}
        /\ c.synchronised = f.synchronised
        /\ c.attempted = f.attempted /\ c.handled = f.handled
        /\ c.lock = [u \in FleetUnits |-> IF u \in f.unloading THEN DieselMinDown ELSE f.lock[u]]
        /\ c.episode = f.episode
    BY <1>1, <1>2 DEF CompleteUnloading, FleetType
  <1>b. g = [c EXCEPT !.cooldown = DieselMinDown] /\ DieselMinDown \in NoCooldown..DieselMinDown
    BY Times DEF FinishUnloading
  <1> HIDE DEF c, g
  <1>3. /\ g \in FleetType
        /\ g.starting = f.starting /\ g.failed = f.failed /\ g.unloading = {}
        /\ g.synchronised = f.synchronised
        /\ g.attempted = f.attempted /\ g.handled = f.handled
        /\ g.lock = [u \in FleetUnits |-> IF u \in f.unloading THEN DieselMinDown ELSE f.lock[u]]
        /\ g.cooldown = DieselMinDown /\ g.episode = f.episode
    BY <1>a, <1>b DEF FleetType
  <1>4. Apart(g) /\ Booked(g) /\ OneEach(g) /\ Matched(g) /\ Closed(g)
    BY <1>3 DEF Sound, Apart, Booked, OneEach, Matched, CalledStandbys, Closed
  <1>5. LockCovered(g)
    BY <1>2, <1>3, Times DEF LockCovered
  <1>6. FreshUnlocked(g)
    BY <1>3 DEF Sound, Booked, FreshUnlocked
  <1>. QED  BY <1>3, <1>4, <1>5, <1>6 DEF Sound, g

LEMMA ReleasedSound ==
  ASSUME NEW f, Sound(f), f.episode
  PROVE  Sound(Released(f)) /\ Released(f).episode
  <1> DEFINE told == IF f.unloading = {} THEN CommandStops(f) ELSE f
             held == IF f.unloading \cup f.synchronised = {} THEN told
                     ELSE [told EXCEPT !.restored = Lesser(@ + 1, RestoreHold)]
  <1>1. Sound(told) /\ told.episode
    BY StopSound
  <1>2. Sound([told EXCEPT !.restored = Lesser(@ + 1, RestoreHold)])
        /\ [told EXCEPT !.restored = Lesser(@ + 1, RestoreHold)].episode
    <2> DEFINE g == [told EXCEPT !.restored = Lesser(@ + 1, RestoreHold)]
    <2>1. told \in FleetType
      BY <1>1 DEF Sound
    <2>2. Lesser(told.restored + 1, RestoreHold) \in 0..RestoreHold
      BY <2>1, FleetFields, Clocks, Times
    <2> HIDE DEF told
    <2>3. g \in FleetType /\ SameUnits(g, told) /\ g.episode = told.episode
      BY <2>1, <2>2 DEF FleetType, SameUnits
    <2>. QED  BY <1>1, <2>3, SameUnitsSound
  <1>3. Sound(held) /\ held.episode
    BY <1>1, <1>2
  <1>4. Sound(FinishUnloading(held)) /\ FinishUnloading(held).episode
    BY <1>3, FinishSound
  <1>. QED  BY <1>3, <1>4 DEF Released

\* FleetUnits that were started and have not failed are no more than the fleet
\* needs and the standbys called beyond the failures.
LEMMA RunningCount ==
  ASSUME NEW f, Sound(f), NEW L \in SUBSET f.attempted, L \cap f.failed = {}
  PROVE  Cardinality(L) + Cardinality(f.failed) <= NActive + Cardinality(CalledStandbys(f))
  <1> DEFINE P == f.attempted \cap Primaries
             C == CalledStandbys(f)
  <1>1. /\ f.attempted \subseteq FleetUnits /\ f.failed \subseteq f.attempted
        /\ f.attempted = P \cup C /\ P \cap C = {} /\ P \subseteq Primaries
    BY UnitFacts DEF Sound, Booked, FleetType, CalledStandbys
  <1>2. /\ IsFiniteSet(f.attempted) /\ Cardinality(f.attempted) \in Nat
        /\ IsFiniteSet(f.failed) /\ Cardinality(f.failed) \in Nat
        /\ IsFiniteSet(L) /\ Cardinality(L) \in Nat
        /\ IsFiniteSet(P) /\ Cardinality(P) \in Nat
        /\ IsFiniteSet(C) /\ Cardinality(C) \in Nat
    <2>1. /\ f.attempted \in SUBSET FleetUnits /\ f.failed \in SUBSET FleetUnits
          /\ L \in SUBSET FleetUnits /\ P \in SUBSET FleetUnits /\ C \in SUBSET FleetUnits
      BY <1>1
    <2>. QED  BY <2>1, UnitSets
  <1>3. Cardinality(P) <= NActive
    BY <1>1, UnitFacts, FS_Subset
  <1>4. Cardinality(f.attempted) = Cardinality(P) + Cardinality(C)
    <2> HIDE DEF P, C
    <2>1. Cardinality(P \cup C) = Cardinality(P) + Cardinality(C) - Cardinality(P \cap C)
      BY <1>2, FS_Union
    <2>. QED  BY <1>1, <1>2, <2>1, FS_EmptySet
  <1>5. Cardinality(L \cup f.failed) = Cardinality(L) + Cardinality(f.failed)
    <2>1. Cardinality(L \cup f.failed)
            = Cardinality(L) + Cardinality(f.failed) - Cardinality(L \cap f.failed)
      BY <1>2, FS_Union
    <2>. QED  BY <1>2, <2>1, FS_EmptySet
  <1>6. Cardinality(L \cup f.failed) <= Cardinality(f.attempted)
    <2>1. L \cup f.failed \in SUBSET f.attempted
      BY <1>1
    <2>. QED  BY <2>1, <1>2, FS_Subset
  <1> HIDE DEF P, C
  <1>7. Cardinality(L) + Cardinality(f.failed) <= NActive + Cardinality(C)
    BY <1>2, <1>3, <1>4, <1>5, <1>6, UnitFacts
  <1>. QED  BY <1>7 DEF C

\* The standbys called for the new failures.
NewlyFailed(f) == f.failed \ f.handled

LEMMA FailuresCounted ==
  ASSUME NEW f, Sound(f)
  PROVE  Cardinality(f.failed) = Cardinality(f.handled) + Cardinality(NewlyFailed(f))
  <1> DEFINE new == NewlyFailed(f)
  <1>1. f.failed = f.handled \cup new /\ f.handled \cap new = {}
    BY DEF Sound, OneEach, NewlyFailed
  <1>2. f.handled \in SUBSET FleetUnits /\ new \in SUBSET FleetUnits
    BY FleetFields DEF Sound, OneEach, NewlyFailed
  <1>3. /\ IsFiniteSet(f.handled) /\ Cardinality(f.handled) \in Nat
        /\ IsFiniteSet(new) /\ Cardinality(new) \in Nat
    BY <1>2, UnitSets
  <1> HIDE DEF new
  <1>4. Cardinality(f.failed) = Cardinality(f.handled \cup new)
    BY <1>1, Zenon
  <1>5. Cardinality(f.handled \cup new)
          = Cardinality(f.handled) + Cardinality(new) - Cardinality(f.handled \cap new)
    BY <1>3, FS_Union
  <1>6. Cardinality(f.handled \cap new) = 0
    BY <1>1, FS_EmptySet
  <1>7. Cardinality(f.failed) = Cardinality(f.handled) + Cardinality(new)
    BY <1>3, <1>4, <1>5, <1>6
  <1>. QED  BY <1>7 DEF new

Replacements(f) ==
  LET ready == StandbysReady(f)
      first == {u \in ready : Cardinality({v \in ready : v < u}) < Cardinality(NewlyFailed(f))}
  IN  IF Short(f) THEN first ELSE {}

\* As many as there are new failures, or all that are left.
LEMMA ReplacementFacts ==
  ASSUME NEW f, Sound(f)
  PROVE  /\ Replacements(f) \subseteq CanStart(f) \cap (StandbyUnits \ f.attempted)
         /\ Cardinality(Replacements(f)) <= Cardinality(NewlyFailed(f))
         /\ \/ Cardinality(Replacements(f)) = Cardinality(NewlyFailed(f))
            \/ Replacements(f) = StandbyUnits \ f.attempted
  <1> DEFINE ready == StandbysReady(f)
             new == NewlyFailed(f)
             k == Cardinality(new)
             first == {u \in ready : Cardinality({v \in ready : v < u}) < k}
  <1>1. f \in FleetType
    BY DEF Sound
  <1>2. /\ f.failed \subseteq FleetUnits /\ f.handled \subseteq f.failed /\ new \subseteq FleetUnits
        /\ f.handled \subseteq FleetUnits /\ f.synchronised \subseteq FleetUnits
    BY <1>1, FleetFields DEF Sound, OneEach, NewlyFailed
  <1>3. /\ Cardinality(f.failed) \in Nat /\ Cardinality(f.handled) \in Nat
        /\ Cardinality(f.synchronised) \in Nat /\ k \in Nat
        /\ IsFiniteSet(f.failed) /\ IsFiniteSet(new) /\ IsFiniteSet(f.handled)
    <2>1. new \in SUBSET FleetUnits
      BY <1>2
    <2>2. IsFiniteSet(new) /\ Cardinality(new) \in Nat
      BY <2>1, UnitSets
    <2>. QED  BY <2>2, <1>2, UnitSets
  <1>4. Cardinality(f.failed) = Cardinality(f.handled) + k
    BY FailuresCounted
  <1>5. ready = StandbyUnits \ f.attempted
    <2>1. \A u \in StandbyUnits \ f.attempted : u \in Offline(f) /\ f.lock[u] = 0
      BY UnitFacts DEF Sound, Booked, FreshUnlocked, Offline
    <2>. QED  BY <2>1 DEF StandbysReady, CanStart
  <1>6. ready \subseteq FleetUnits /\ ready \subseteq CanStart(f)
    BY <1>5, UnitFacts DEF StandbysReady
  <1>7. ASSUME ~Short(f)
        PROVE  k = 0
    <2>1. f.synchronised \in SUBSET f.attempted /\ f.synchronised \cap f.failed = {}
      BY DEF Sound, Booked, Apart
    <2>2. Cardinality(f.synchronised) + Cardinality(f.failed)
            <= NActive + Cardinality(CalledStandbys(f))
      BY <2>1, RunningCount
    <2>3. Cardinality(CalledStandbys(f)) <= Cardinality(f.handled)
      BY DEF Sound, OneEach
    <2>4. Cardinality(CalledStandbys(f)) \in Nat
      <3>1. CalledStandbys(f) \in SUBSET FleetUnits
        BY UnitFacts DEF CalledStandbys
      <3>. QED  BY <3>1, UnitSets
    <2>5. Cardinality(f.synchronised) >= NActive
      BY <1>3, <1>7, UnitFacts DEF Short
    <2>. QED  BY <2>2, <2>3, <2>4, <2>5, <1>3, <1>4, UnitFacts
  <1>8. /\ first \subseteq ready
        /\ Cardinality(first) <= k
        /\ k <= Cardinality(ready) => Cardinality(first) = k
        /\ Cardinality(ready) <= k => first = ready
    <2>1. ready \in SUBSET Int /\ IsFiniteSet(ready)
      BY <1>6, UnitSets, UnitFacts DEF FleetUnits
    <2> HIDE DEF ready, k
    <2>. QED  BY <1>3, <2>1, FirstOfSet
  <1>9. Cardinality(ready) \in Nat
    BY <1>6, UnitSets
  <1>10. Replacements(f) = IF Short(f) THEN first ELSE {}
    BY DEF Replacements
  <1> HIDE DEF first, ready, k, new
  <1>11. CASE Short(f)
    <2>1. Cardinality(first) = k \/ first = ready
      BY <1>3, <1>8, <1>9
    <2>. QED  BY <2>1, <1>5, <1>6, <1>8, <1>10, <1>11 DEF k, new, StandbysReady
  <1>12. CASE ~Short(f)
    <2>1. Cardinality({}) = 0
      BY FS_EmptySet
    <2>. QED  BY <2>1, <1>7, <1>10, <1>12 DEF k, new
  <1>. QED  BY <1>11, <1>12

\* The answer to the failed starts.
LEMMA HandledSound ==
  ASSUME NEW f, NEW ok \in SUBSET FleetUnits, Sound(f), f.episode
  PROVE  LET g == HandleFailedStarts(f, ok) IN
         Sound(g) /\ g.episode /\ g.handled = g.failed
  <1> DEFINE new == NewlyFailed(f)
             us == Replacements(f)
             h == [f EXCEPT !.handled = @ \cup new]
             g == CommandStarts(h, us, ok)
  <1>1. f \in FleetType /\ f.failed \subseteq FleetUnits /\ f.handled \subseteq f.failed
    BY FleetFields DEF Sound, OneEach
  <1>2. /\ h \in FleetType /\ h.handled = f.failed
        /\ h.starting = f.starting /\ h.synchronised = f.synchronised
        /\ h.unloading = f.unloading /\ h.failed = f.failed
        /\ h.attempted = f.attempted /\ h.lock = f.lock
        /\ h.cooldown = f.cooldown /\ h.episode = f.episode
    BY <1>1 DEF FleetType, NewlyFailed
  <1>3. HandleFailedStarts(f, ok) = g
    BY DEF HandleFailedStarts, Replacements, NewlyFailed
  <1>4. /\ us \subseteq CanStart(f) /\ us \subseteq StandbyUnits \ f.attempted
        /\ Cardinality(us) <= Cardinality(new)
        /\ Cardinality(us) = Cardinality(new) \/ us = StandbyUnits \ f.attempted
    BY ReplacementFacts
  <1> HIDE DEF h, us, new
  <1>5. us \in SUBSET CanStart(h)
    BY <1>2, <1>4 DEF CanStart, Offline
  <1>6. StartedBy(g, h, us)
    BY <1>2, <1>5, StartFacts
  <1> HIDE DEF g
  <1>7. CalledStandbys(g) = CalledStandbys(f) \cup us /\ CalledStandbys(f) \cap us = {}
    BY <1>2, <1>4, <1>6 DEF StartedBy, CalledStandbys
  <1>8. /\ CalledStandbys(f) \in SUBSET FleetUnits /\ us \in SUBSET FleetUnits
        /\ new \in SUBSET FleetUnits /\ f.handled \in SUBSET FleetUnits
    BY <1>1, <1>4, UnitFacts DEF CalledStandbys, new, NewlyFailed
  <1>9. /\ IsFiniteSet(CalledStandbys(f)) /\ Cardinality(CalledStandbys(f)) \in Nat
        /\ IsFiniteSet(us) /\ Cardinality(us) \in Nat
        /\ IsFiniteSet(new) /\ Cardinality(new) \in Nat
        /\ IsFiniteSet(f.handled) /\ Cardinality(f.handled) \in Nat
    BY <1>8, UnitSets
  <1>10. Cardinality(CalledStandbys(g)) = Cardinality(CalledStandbys(f)) + Cardinality(us)
    <2>1. Cardinality(CalledStandbys(f) \cup us)
            = Cardinality(CalledStandbys(f)) + Cardinality(us)
              - Cardinality(CalledStandbys(f) \cap us)
      BY <1>9, FS_Union
    <2>2. Cardinality(CalledStandbys(f) \cap us) = 0
      BY <1>7, FS_EmptySet
    <2>. QED  BY <2>1, <2>2, <1>7, <1>9
  <1>11. Cardinality(f.failed) = Cardinality(f.handled) + Cardinality(new)
    BY FailuresCounted DEF new
  <1>12. g.handled = f.failed /\ g.failed = f.failed
    BY <1>2, <1>6 DEF StartedBy
  <1>13. OneEach(g)
    <2>1. Cardinality(CalledStandbys(f)) <= Cardinality(f.handled)
      BY DEF Sound, OneEach
    <2>2. Cardinality(CalledStandbys(g)) <= Cardinality(f.failed)
      BY <2>1, <1>4, <1>9, <1>10, <1>11
    <2>. QED  BY <2>2, <1>12 DEF OneEach
  <1>14. Matched(g)
    <2>1. CASE us = StandbyUnits \ f.attempted
      <3>1. CalledStandbys(g) = StandbyUnits
        BY <2>1, <1>7 DEF CalledStandbys
      <3>. QED  BY <3>1 DEF Matched
    <2>2. CASE CalledStandbys(f) = StandbyUnits
      <3>1. us = {}
        BY <2>2, <1>4 DEF CalledStandbys
      <3>2. CalledStandbys(g) = StandbyUnits
        BY <2>2, <3>1, <1>7
      <3>. QED  BY <3>2 DEF Matched
    <2>3. CASE /\ Cardinality(us) = Cardinality(new)
               /\ Cardinality(CalledStandbys(f)) = Cardinality(f.handled)
      BY <2>3, <1>10, <1>11, <1>12 DEF Matched
    <2>. QED  BY <2>1, <2>2, <2>3, <1>4 DEF Sound, Matched
  <1>15. Apart(g) /\ Booked(g)
    BY <1>2, <1>6 DEF StartedBy, Sound, Apart, Booked
  <1>16. LockCovered(g) /\ FreshUnlocked(g) /\ Closed(g)
    BY <1>2, <1>6 DEF StartedBy, Sound, LockCovered, FreshUnlocked, Closed
  <1>17. g \in FleetType /\ g.episode
    BY <1>2, <1>6 DEF StartedBy
  <1>18. Sound(g)
    BY <1>13, <1>14, <1>15, <1>16, <1>17 DEF Sound
  <1>. QED  BY <1>3, <1>12, <1>17, <1>18

-----------------------------------------------------------------------------
(* A tick keeps the fleet sound, and answers every failure.                *)

LEMMA EpisodeTick ==
  ASSUME NEW f, NEW g \in BOOLEAN, NEW ok \in SUBSET FleetUnits, Sound(f), f.episode
  PROVE  Sound(InEpisode(f, g, ok)) /\ Answered(InEpisode(f, g, ok))
  <1> DEFINE m == IF g THEN Called(f, ok) ELSE Released(f)
             h == HandleFailedStarts(m, ok)
             e == UpdateInsufficientStart(h)
  <1>1. Sound(m) /\ m.episode
    BY CalledSound, ReleasedSound
  <1> HIDE DEF m
  <1>2. Sound(h) /\ h.episode /\ h.handled = h.failed
    BY <1>1, HandledSound
  <1> HIDE DEF h
  <1>3. h \in FleetType
    BY <1>2 DEF Sound
  <1>4. /\ e \in FleetType /\ SameUnits(e, h) /\ e.episode = h.episode
    <2> DEFINE raised == h.alert \/ (/\ Short(h) /\ h.unloading = {} /\ h.starting = {}
                                     /\ StandbysReady(h) = {})
    <2>1. e = [h EXCEPT !.alert = raised] /\ raised \in BOOLEAN
      BY <1>3, FleetFields DEF UpdateInsufficientStart, Short
    <2> HIDE DEF raised, e
    <2>. QED  BY <2>1, <1>3 DEF FleetType, SameUnits
  <1> HIDE DEF e
  <1>5. Sound(e) /\ Answered(e)
    BY <1>2, <1>4, SameUnitsSound DEF Answered, SameUnits
  <1>. QED  BY <1>5 DEF InEpisode, e, h, m

LEMMA RollupSound ==
  ASSUME NEW f, Sound(f), Answered(f)
  PROVE  Sound(UpdateRollup(f)) /\ Answered(UpdateRollup(f))
  <1> DEFINE g == UpdateRollup(f)
  <1>1. f \in FleetType
    BY DEF Sound
  <1>2. g \in FleetType /\ SameUnits(g, f) /\ g.episode = f.episode
    <2>1. \E r \in Rollups : g = [f EXCEPT !.rollup = r]
      BY DEF UpdateRollup, Rollups
    <2> HIDE DEF g
    <2>. QED  BY <2>1, <1>1 DEF FleetType, SameUnits
  <1> HIDE DEF g
  <1>3. Sound(g) /\ Answered(g)
    BY <1>2, SameUnitsSound DEF Answered, SameUnits
  <1>. QED  BY <1>3 DEF g

LEMMA TickSound ==
  ASSUME NEW f, NEW g \in BOOLEAN, NEW ok \in SUBSET FleetUnits, Sound(f)
  PROVE  Sound(Stepped(f, g, ok)) /\ Answered(Stepped(f, g, ok))
  <1> DEFINE c == CompleteCooldownIfReady(Elapsed(f))
             seen == GapSeen(c, g)
             begun == BeginEpisode(seen)
             opens == g /\ seen.positive >= Debounce /\ seen.cooldown = NoCooldown
  <1>1. Sound(c)
    BY AdvanceSound, CompleteSound
  <1> HIDE DEF c
  <1>2. c \in FleetType
    BY <1>1 DEF Sound
  <1>3. Sound(seen)
    <2>1. (IF g THEN Lesser(c.positive + 1, Debounce) ELSE 0) \in 0..Debounce
      BY <1>2, FleetFields, Clocks, Times
    <2>2. seen \in FleetType /\ SameUnits(seen, c) /\ seen.episode = c.episode
      BY <2>1, <1>2 DEF GapSeen, FleetType, SameUnits
    <2>3. seen.episode \/ ~c.episode
      BY <2>2, <1>2, FleetFields
    <2> HIDE DEF seen
    <2>. QED  BY <1>1, <2>2, <2>3, SameUnitsSound
  <1> HIDE DEF seen
  <1>4. seen \in FleetType
    BY <1>3 DEF Sound
  <1>5. ASSUME ~seen.episode
        PROVE  Sound(begun) /\ begun.episode
    <2>1. 0 \in 0..LastOffset /\ 0 \in 0..RestoreHold /\ "starting" \in Rollups
      BY Times DEF Rollups
    <2>2. /\ begun \in FleetType /\ begun.starting = seen.starting
          /\ begun.synchronised = seen.synchronised
          /\ begun.unloading = seen.unloading /\ begun.failed = seen.failed
          /\ begun.attempted = seen.attempted /\ begun.handled = {}
          /\ begun.lock = seen.lock /\ begun.cooldown = seen.cooldown
          /\ begun.episode = TRUE
      BY <1>4, <2>1 DEF BeginEpisode, FleetType
    <2>3. seen.handled = {}
      BY <1>3, <1>5 DEF Sound, Closed, Booked, OneEach
    <2>4. SameUnits(begun, seen)
      BY <2>2, <2>3 DEF SameUnits
    <2> HIDE DEF begun
    <2>. QED  BY <1>3, <2>2, <2>4, SameUnitsSound
  <1>6. Stepped(f, g, ok) =
          UpdateRollup(IF seen.episode THEN InEpisode(seen, g, ok)
                       ELSE IF opens THEN InEpisode(begun, g, ok) ELSE seen)
    BY DEF Stepped, seen, c
  <1> HIDE DEF begun
  <1>7. CASE seen.episode
    BY <1>3, <1>6, <1>7, EpisodeTick, RollupSound
  <1>8. CASE ~seen.episode /\ opens
    BY <1>5, <1>6, <1>8, EpisodeTick, RollupSound
  <1>9. CASE ~seen.episode /\ ~opens
    <2>1. Answered(seen)
      BY <1>9 DEF Answered
    <2>. QED  BY <1>3, <1>6, <1>9, <2>1, RollupSound
  <1>. QED  BY <1>7, <1>8, <1>9

-----------------------------------------------------------------------------
LEMMA FleetInitInv == FleetInit => FleetInv
  <1> SUFFICES ASSUME FleetInit PROVE FleetInv
    OBVIOUS
  <1>1. /\ [u \in FleetUnits |-> 0] \in [FleetUnits -> 0..DieselStart]
        /\ [u \in FleetUnits |-> 0] \in [FleetUnits -> 0..DieselMinRun]
        /\ [u \in FleetUnits |-> 0] \in [FleetUnits -> 0..DieselMinDown]
        /\ 0 \in 0..LastOffset /\ 0 \in 0..Debounce /\ 0 \in 0..RestoreHold
        /\ NoCooldown \in NoCooldown..DieselMinDown /\ "idle" \in Rollups
    BY Times DEF Rollups
  <1>2. fleet \in FleetType
    BY <1>1 DEF FleetInit, NewFleet, FleetType
  <1>3. /\ fleet.starting = {} /\ fleet.synchronised = {} /\ fleet.unloading = {}
        /\ fleet.failed = {} /\ fleet.attempted = {} /\ fleet.handled = {}
        /\ fleet.lock = [u \in FleetUnits |-> 0] /\ fleet.episode = FALSE
        /\ fleet.cooldown = NoCooldown
    BY DEF FleetInit, NewFleet
  <1>4. Cardinality(CalledStandbys(fleet)) = 0 /\ Cardinality(fleet.handled) = 0
    BY <1>3, FS_EmptySet DEF CalledStandbys
  <1>5. Sound(fleet)
    BY <1>2, <1>3, <1>4 DEF Sound, Apart, Booked, OneEach, Matched, LockCovered,
                            FreshUnlocked, Closed
  <1>. QED  BY <1>3, <1>5 DEF FleetInv, Answered, FleetInit

LEMMA NextInv == FleetInv /\ [FleetNext]_fleetVars => FleetInv'
  <1> SUFFICES ASSUME FleetInv, [FleetNext]_fleetVars PROVE FleetInv'
    OBVIOUS
  <1>1. CASE FleetTick
    <2>1. PICK g \in BOOLEAN, ok \in SUBSET FleetUnits :
            gap' = g /\ fleet' = Stepped(fleet, g, ok) /\ Beat
      BY <1>1 DEF FleetTick
    <2>2. Sound(fleet') /\ Answered(fleet')
      BY <2>1, TickSound DEF FleetInv
    <2>3. gap' \in BOOLEAN /\ beat' \in {0, 1}
      BY <2>1 DEF FleetInv, Beat
    <2>. QED  BY <2>2, <2>3 DEF FleetInv, Sound, Answered, Apart, Booked, OneEach, Matched,
                CalledStandbys, LockCovered, FreshUnlocked, Closed
  <1>2. CASE UNCHANGED fleetVars
    BY <1>2 DEF fleetVars, FleetInv, Sound, Answered, Apart, Booked, OneEach, Matched,
                CalledStandbys, LockCovered, FreshUnlocked, Closed
  <1>. QED  BY <1>1, <1>2 DEF FleetNext

LEMMA FleetInvariance == FleetSpec => []FleetInv
  BY FleetInitInv, NextInv, PTL DEF FleetSpec

\* However the starts go, the units that start, run or unload are never more
\* than the fleet needs, and a unit is never in two states
\* (_handle_failed_starts, the staged starts of step()).
THEOREM WithinTarget == FleetSpec => []FleetWithinTarget
  <1>1. FleetInv => FleetWithinTarget
    <2> SUFFICES ASSUME FleetInv PROVE FleetWithinTarget
      OBVIOUS
    <2> DEFINE L == fleet.starting \cup fleet.synchronised \cup fleet.unloading
    <2>1. fleet \in FleetType /\ Sound(fleet)
      BY DEF FleetInv, Sound
    <2>2. \A u \in FleetUnits : \A s, t \in {"starting", "synchronised", "unloading", "failed"} :
            u \in fleet[s] /\ u \in fleet[t] => s = t
      BY <2>1 DEF Sound, Apart, FleetType
    <2>3. L \in SUBSET fleet.attempted /\ L \cap fleet.failed = {}
      BY <2>1 DEF Sound, Apart, Booked
    <2>4. Cardinality(L) + Cardinality(fleet.failed)
            <= NActive + Cardinality(CalledStandbys(fleet))
      BY <2>1, <2>3, RunningCount
    <2>5. /\ Cardinality(L) \in Nat /\ Cardinality(fleet.failed) \in Nat
          /\ Cardinality(CalledStandbys(fleet)) \in Nat /\ Cardinality(fleet.handled) \in Nat
          /\ Cardinality(fleet.handled) <= Cardinality(fleet.failed)
      <3>1. /\ L \in SUBSET FleetUnits /\ fleet.failed \in SUBSET FleetUnits
            /\ CalledStandbys(fleet) \in SUBSET FleetUnits /\ fleet.handled \in SUBSET fleet.failed
            /\ fleet.handled \in SUBSET FleetUnits
        BY <2>1, <2>3, FleetFields DEF Sound, OneEach, CalledStandbys
      <3> HIDE DEF L
      <3>. QED  BY <3>1, UnitSets, FS_Subset
    <2>6. Cardinality(CalledStandbys(fleet)) <= Cardinality(fleet.handled)
      BY <2>1 DEF Sound, OneEach
    <2>7. Cardinality(L) <= NActive
      <3> HIDE DEF L
      <3>. QED  BY <2>4, <2>5, <2>6, UnitFacts
    <2>. QED  BY <2>1, <2>2, <2>7 DEF FleetWithinTarget, FleetTypeOK, LiveWithinTarget, FleetInv
  <1>. QED  BY <1>1, FleetInvariance, PTL

\* In an episode every failed start has called a standby of its own, or no
\* standby is left (_handle_failed_starts).
THEOREM FailuresAnswered == FleetSpec => []EveryFailureReplaced
  <1>1. FleetInv => EveryFailureReplaced
    BY DEF FleetInv, Answered, Sound, Matched, CalledStandbys, EveryFailureReplaced
  <1>. QED  BY <1>1, FleetInvariance, PTL

\* Between two episodes every unit accepts a start (_complete_cooldown_if_ready
\* against the lockout each unit keeps of its own).
THEOREM IdleIsReady == FleetSpec => []ReadyWhenIdle
  <1>1. FleetInv => ReadyWhenIdle
    <2> SUFFICES ASSUME FleetInv, ~fleet.episode PROVE CanStart(fleet) = FleetUnits
      BY DEF ReadyWhenIdle
    <2>1. fleet.attempted = {} /\ Offline(fleet) = FleetUnits
      BY DEF FleetInv, Sound, Closed, Booked, Offline
    <2>2. \A u \in FleetUnits : fleet.lock[u] = 0
      BY <2>1 DEF FleetInv, Sound, FreshUnlocked
    <2>. QED  BY <2>1, <2>2 DEF CanStart
  <1>. QED  BY <1>1, FleetInvariance, PTL

-----------------------------------------------------------------------------
(* The turbines.                                                           *)

(***************************************************************************)
(* The invariant.  While the inputs of a tick are applied the unit of the  *)
(* register may have been tripped; the tick frees the register before it   *)
(* is looked at again.  A hot standby never ran, so it need not rest: its  *)
(* release is never refused.                                               *)
(***************************************************************************)
InTurn ==
  /\ standby \subseteq In("OFFLINE")
  /\ In("STARTING") \ manual \subseteq {pending}
  /\ pending # None =>
       \/ state[pending] = "STARTING"
       \/ stage = "inputs" /\ state[pending] = "OFFLINE"

FreshStandbys == \A u \in standby : down[u] = Never

Drained == stage \notin {"idle", "inputs"} => commands = <<>>

IInv == TypeOK /\ InTurn /\ FreshStandbys /\ Drained /\ AcceptedCommandsAct

-----------------------------------------------------------------------------
(* Which unit is meant.                                                    *)

LEMMA UnitsFinite ==
  /\ NUnits \in Nat /\ Units \subseteq Int /\ None \notin Units
  /\ \A S \in SUBSET Units : IsFiniteSet(S)
  <1>1. NUnits \in Nat
    BY FleetAssumption
  <1>2. Units \subseteq Int /\ None \notin Units
    BY <1>1 DEF Units, None
  <1>3. IsFiniteSet(Units)
    BY <1>1, FS_Interval DEF Units
  <1>4. \A S \in SUBSET Units : IsFiniteSet(S)
    BY <1>3, FS_Subset
  <1>. QED  BY <1>1, <1>2, <1>4

\* A set of units has a first and a last member.
LEMMA EndsOfSet ==
  ASSUME NEW S \in SUBSET Units, S # {}
  PROVE  /\ \E u \in S : \A v \in S : u <= v
         /\ \E u \in S : \A v \in S : v <= u
  <1> DEFINE n == Cardinality(S)
             r(u) == Cardinality(Below(S, u))
  <1>1. /\ n \in Nat
        /\ \A u \in S : r(u) \in 0..(n - 1)
        /\ \A u, w \in S : u < w <=> r(u) < r(w)
        /\ \A t \in 0..(n - 1) : \E u \in S : r(u) = t
    <2>1. S \in SUBSET Int /\ IsFiniteSet(S)
      BY UnitsFinite
    <2>. QED  BY <2>1, Ranks
  <1>2. n # 0
    BY UnitsFinite, FS_EmptySet
  <1> HIDE DEF n, r
  <1>3. PICK first \in S : r(first) = 0
    BY <1>1, <1>2
  <1>4. PICK last \in S : r(last) = n - 1
    BY <1>1, <1>2
  <1>5. \A v \in S : v \in Int
    BY UnitsFinite
  <1>6. \A v \in S : ~(v < first) /\ ~(last < v)
    BY <1>1, <1>3, <1>4
  <1>. QED  BY <1>3, <1>4, <1>5, <1>6

LEMMA MinMax ==
  ASSUME NEW S \in SUBSET Units, S # {}
  PROVE  Min(S) \in S /\ Max(S) \in S
  <1>1. \A u, v \in S : (v <= u) <=> (u >= v)
    BY UnitsFinite
  <1>. QED  BY <1>1, EndsOfSet DEF Min, Max

\* The unit that is hottest, and first among those, is well defined.
LEMMA FirstIsMember ==
  ASSUME TypeOK, NEW S \in SUBSET Units, S # {}
  PROVE  FirstOf(S) \in S
  <1> DEFINE Class(t) == {u \in S : thermal[u] = t}
  <1>1. \A u \in S : thermal[u] \in {HOT, WARM, COLD}
    BY DEF TypeOK, Thermals
  <1>2. PICK t \in {HOT, WARM, COLD} :
          Class(t) # {} /\ \A s \in {HOT, WARM, COLD} : s < t => Class(s) = {}
    <2>1. Class(HOT) # {} \/ Class(WARM) # {} \/ Class(COLD) # {}
      BY <1>1
    <2>2. CASE Class(HOT) # {}
      BY <2>2 DEF HOT, WARM, COLD
    <2>3. CASE Class(HOT) = {} /\ Class(WARM) # {}
      BY <2>3 DEF HOT, WARM, COLD
    <2>4. CASE Class(HOT) = {} /\ Class(WARM) = {} /\ Class(COLD) # {}
      BY <2>4 DEF HOT, WARM, COLD
    <2>. QED  BY <2>1, <2>2, <2>3, <2>4
  <1>3. PICK u \in Class(t) : \A v \in Class(t) : u <= v
    BY <1>2, EndsOfSet
  <1>4. \A v \in S \ {u} : Before(u, v)
    <2>1. SUFFICES ASSUME NEW v \in S, v # u
                   PROVE  Before(u, v)
      OBVIOUS
    <2>2. u \in Int /\ v \in Int /\ thermal[u] = t
      BY UnitsFinite, <1>3
    <2>3. CASE thermal[v] = t
      <3>1. u <= v
        BY <1>3, <2>3
      <3>. QED  BY <2>1, <2>2, <2>3, <3>1 DEF Before
    <2>4. CASE thermal[v] # t
      <3>1. ~(thermal[v] < t)
        BY <1>1, <1>2
      <3>2. thermal[u] < thermal[v]
        BY <1>1, <2>2, <2>4, <3>1 DEF HOT, WARM, COLD
      <3>. QED  BY <3>2 DEF Before
    <2>. QED  BY <2>3, <2>4
  <1>. QED  BY <1>3, <1>4 DEF FirstOf

-----------------------------------------------------------------------------
(* Types.                                                                  *)

\* The types of what a start or a stop writes.
UnitTypes ==
  /\ state \in [Units -> States] /\ thermal \in [Units -> Thermals]
  /\ left \in [Units -> Nat] /\ manual \subseteq Units

HistoryTypes ==
  /\ ran \in [Units -> 0 .. MinRun] /\ down \in [Units -> Never .. MinDown]
  /\ idle \in [Units -> Never .. WarmUntil] /\ opened \in 0 .. UnloadTail

LEMMA Counting ==
  /\ \A c \in Nat : \A n \in Never .. c : Longer(n, c) \in Never .. c
  /\ \A c \in Nat : \A n \in 0 .. c, h \in BOOLEAN : Sustained(n, h, c) \in 0 .. c
  /\ \A c \in Nat : \A n \in 0 .. c : Least(n + 1, c) \in 0 .. c
  /\ \A n \in Nat : Least(n, COLD) \in Thermals
  BY DEF Longer, Sustained, Least, Never, Thermals, HOT, WARM, COLD

LEMMA ClassifiedType ==
  ASSUME TypeOK, NEW u \in Units
  PROVE  Classified(u) \in Thermals
  BY TimesAssumption DEF Classified, TypeOK, Thermals, HOT, WARM, COLD, Never

\* What a start does, whoever asks for it.
LEMMA Started ==
  ASSUME TypeOK, NEW u \in Units, NEW flagged, NEW thermals \in [Units -> Thermals],
         NEW operator \in BOOLEAN, CommandStart(u, flagged, thermals, operator)
  PROVE  /\ UnitTypes'
         /\ u \notin flagged /\ Accepts(u) =>
              /\ state' = [state EXCEPT ![u] = "STARTING"]
              /\ manual' = IF operator THEN manual \cup {u} ELSE manual \ {u}
         /\ ~(u \notin flagged /\ Accepts(u)) => state' = state /\ manual' = manual
  <1>1. Classified(u) \in Thermals /\ StartTime[Classified(u)] \in Nat
    BY ClassifiedType, TimesAssumption
  <1>2. /\ state \in [Units -> States] /\ left \in [Units -> Nat] /\ manual \subseteq Units
        /\ thermal \in [Units -> Thermals]
    BY DEF TypeOK
  <1>3. CASE u \notin flagged /\ Accepts(u)
    <2>1. /\ state' = [state EXCEPT ![u] = "STARTING"]
          /\ thermal' = [thermals EXCEPT ![u] = Classified(u)]
          /\ left' = [left EXCEPT ![u] = StartTime[Classified(u)]]
          /\ manual' = IF operator THEN manual \cup {u} ELSE manual \ {u}
      BY <1>3 DEF CommandStart
    <2>. QED  BY <1>1, <1>2, <1>3, <2>1 DEF UnitTypes, States
  <1>4. CASE ~(u \notin flagged /\ Accepts(u))
    <2>1. thermal' = thermals /\ UNCHANGED <<state, left, manual>>
      BY <1>4 DEF CommandStart
    <2>. QED  BY <1>2, <1>4, <2>1 DEF UnitTypes
  <1>. QED  BY <1>3, <1>4

LEMMA RecordedType ==
  ASSUME TypeOK, NEW u \in Units, NEW states
  PROVE  Recorded(u, states) \in Units \cup {None}
  BY DEF Recorded, TypeOK

LEMMA Stopped ==
  ASSUME TypeOK, NEW u \in Units, NEW descent \in 0 .. Descent, CommandStop(u, descent)
  PROVE  /\ UnitTypes' /\ manual' = manual
         /\ state' = state \/ state' = [state EXCEPT ![u] = "UNLOADING"]
  <1>1. descent + UnloadTail + 1 \in Nat
    BY TimesAssumption
  <1>. QED  BY <1>1 DEF CommandStop, TypeOK, UnitTypes, States

LEMMA PromotedType ==
  ASSUME TypeOK, NEW labels \in [Units -> Thermals], NEW us \in SUBSET Units, NEW u
  PROVE  Promoted(labels, us, u) \in [Units -> Thermals]
  <1>1. \A v \in us : Cardinality({w \in us : Before(w, v)}) \in Nat
    BY UnitsFinite, FS_CardinalityType
  <1>2. \A v \in us : Labels(us)[v] \in Thermals
    BY <1>1, Counting DEF Labels
  <1>. QED  BY <1>2 DEF Promoted

\* The types of everything but the units and their history.
OtherTypes ==
  /\ standby \subseteq Units /\ initial \in [Units -> Thermals]
  /\ pending \in Units \cup {None}
  /\ commit \in 0 .. CommitConfirm /\ decommit \in 0 .. DecommitConfirm
  /\ release \in 0 .. ReleaseConfirm /\ armed \in BOOLEAN
  /\ demand \in Demands \cup {0} /\ force \in BOOLEAN
  /\ commands \in Seq(Orders) /\ inputs \in Nat
  /\ stage \in {"idle", "inputs", "cascade", "commitment", "contingency"}

LEMMA TypesTogether == TypeOK <=> UnitTypes /\ HistoryTypes /\ OtherTypes
  BY DEF TypeOK, UnitTypes, HistoryTypes, OtherTypes

LEMMA TypesStep ==
  ASSUME TypeOK, [Next]_vars
  PROVE  TypeOK'
  <1> USE DEF OtherTypes, unitVars, reserveVars, historyVars, timerVars, seenVars
  <1>0. UnitTypes /\ HistoryTypes /\ OtherTypes
    BY TypesTogether
  <1>1. ASSUME NEW c \in Orders, Command(c)
        PROVE  TypeOK'
    <2>1. commands' \in Seq(Orders)
      BY <1>0, <1>1 DEF Command
    <2>2. UnitTypes' /\ HistoryTypes'
      BY <1>0, <1>1 DEF Command, UnitTypes, HistoryTypes
    <2>3. OtherTypes'
      BY <1>0, <1>1, <2>1 DEF Command
    <2>. QED  BY <2>2, <2>3 DEF TypeOK, UnitTypes, HistoryTypes
  <1>2. ASSUME NEW u \in Units, NEW t \in Thermals, Override(u, t)
        PROVE  TypeOK'
    <2>1. UnitTypes'
      BY <1>0, <1>2 DEF Override, UnitTypes
    <2>2. HistoryTypes' /\ OtherTypes'
      BY <1>0, <1>2 DEF Override, HistoryTypes
    <2>. QED  BY <2>1, <2>2 DEF TypeOK, UnitTypes, HistoryTypes
  <1>3. CASE BeginTick
    <2>1. UnitTypes' /\ HistoryTypes'
      BY <1>0, <1>3 DEF BeginTick, UnitTypes, HistoryTypes
    <2>2. OtherTypes'
      BY <1>0, <1>3 DEF BeginTick
    <2>. QED  BY <2>1, <2>2 DEF TypeOK, UnitTypes, HistoryTypes
  <1>4. CASE Drain
    <2> DEFINE c == Head(commands)
    <2>1. c \in Orders /\ Tail(commands) \in Seq(Orders)
      BY <1>0, <1>4 DEF Drain
    <2>2. c.unit \in Units
      BY <2>1 DEF Orders
    <2>3. UnitTypes' /\ HistoryTypes' /\ standby' \subseteq Units
      <3>1. CASE TripStandby(c.unit)
        BY <1>0, <2>2, <3>1, Started DEF TripStandby, HistoryTypes, TypeOK
      <3>2. CASE TripUnit(c.unit)
        <4>1. 0 \in Never .. MinDown /\ 0 \in Never .. WarmUntil
          BY TimesAssumption DEF Never
        <4>. QED  BY <1>0, <2>2, <3>2, <4>1 DEF TripUnit, UnitTypes, HistoryTypes, States
      <3>3. CASE StartUnit(c.unit)
        BY <1>0, <2>2, <3>3, Started DEF StartUnit, HistoryTypes, TypeOK
      <3>. QED  BY <1>4, <3>1, <3>2, <3>3 DEF Drain
    <2>. QED  BY <1>0, <1>4, <2>1, <2>3 DEF Drain, UnitTypes, HistoryTypes, TypeOK
  <1>5. CASE Stage
    <2>1. Min(Startable) \in Units
      BY <1>5, MinMax DEF Stage, Startable, In
    <2>2. UnitTypes' /\ pending' \in Units \cup {None}
      BY <1>0, <1>5, <2>1, Started, RecordedType DEF Stage, EngineStart, TypeOK
    <2>. QED  BY <1>0, <1>5, <2>2 DEF Stage, UnitTypes, HistoryTypes, TypeOK
  <1>6. ASSUME NEW u \in Units, UnitTrip(u)
        PROVE  TypeOK'
    <2>1. UnitTypes'
      BY <1>0, <1>6 DEF UnitTrip, UnitTypes, States
    <2>2. HistoryTypes' /\ OtherTypes'
      BY <1>0, <1>6 DEF UnitTrip, HistoryTypes
    <2>. QED  BY <2>1, <2>2 DEF TypeOK, UnitTypes, HistoryTypes
  <1>7. CASE Advance
    <2>1. 0 \in 0 .. MinRun /\ 0 \in Never .. MinDown /\ 0 \in Never .. WarmUntil
          /\ 0 \in 0 .. UnloadTail
      BY TimesAssumption DEF Never
    <2>2. UnitTypes'
      BY <1>0, <1>7 DEF Advance, UnitTypes, States
    <2>3. HistoryTypes'
      BY <1>0, <1>7, <2>1 DEF Advance, HistoryTypes
    <2>4. pending' \in Units \cup {None}
      BY <1>0, <1>7 DEF Advance, Freed
    <2>. QED  BY <1>0, <1>7, <2>2, <2>3, <2>4 DEF Advance, UnitTypes, HistoryTypes, TypeOK
  <1>8. ASSUME NEW loaded \in BOOLEAN, Cascade(loaded)
        PROVE  TypeOK'
    <2> DEFINE first == FirstOf(Standbys)
               rest == Standbys \ {first}
    <2>1. UnitTypes' /\ standby' \subseteq Units /\ initial' \in [Units -> Thermals]
          /\ pending' \in Units \cup {None}
      <3>1. CASE UNCHANGED <<unitVars, reserveVars, pending>>
        BY <1>0, <3>1 DEF UnitTypes
      <3>2. CASE /\ Standbys # {}
                 /\ Release(first, Promoted(thermal, rest, first))
                 /\ initial' = Promoted(initial, rest, first)
        <4>1. Standbys \subseteq Units
          BY DEF Standbys, In
        <4>2. first \in Units /\ rest \in SUBSET Units
          BY <3>2, <4>1, FirstIsMember
        <4>3. /\ Promoted(thermal, rest, first) \in [Units -> Thermals]
              /\ Promoted(initial, rest, first) \in [Units -> Thermals]
          BY <1>0, <4>2, PromotedType DEF UnitTypes
        <4> HIDE DEF first, rest
        <4>. QED  BY <1>0, <3>2, <4>2, <4>3, Started, RecordedType DEF Release
      <3>. QED  BY <1>8, <3>1, <3>2 DEF Cascade
    <2>2. force' \in BOOLEAN
      BY <1>8 DEF Cascade
    <2>. QED  BY <1>0, <1>8, <2>1, <2>2 DEF Cascade, UnitTypes, HistoryTypes, TypeOK
  <1>9. ASSUME NEW e \in Demands, NEW enabled \in BOOLEAN, NEW descent \in 0 .. Descent,
               Commit(e, enabled, descent)
        PROVE  TypeOK'
    <2>1. commit' \in 0 .. CommitConfirm
      <3>1. /\ commit' = Least(commit + 1, CommitConfirm) \/ commit' = 0
            /\ Least(commit + 1, CommitConfirm) \in 0 .. CommitConfirm
        BY <1>0, <1>9, Counting, TimesAssumption DEF Commit, Sustained
      <3>. QED  BY <3>1, TimesAssumption
    <2>2. UnitTypes' /\ pending' \in Units \cup {None} /\ decommit' \in 0 .. DecommitConfirm
      <3>1. CASE CommitPath /\ Startable # {}
        <4>1. FirstOf(Startable) \in Units
          BY <3>1, FirstIsMember DEF Startable, In
        <4>2. CASE EngineStart(FirstOf(Startable))
          <5>1. UnitTypes'
            BY <1>0, <4>1, <4>2, Started DEF EngineStart, UnitTypes
          <5>2. pending' \in Units \cup {None}
            BY <4>1, <4>2, RecordedType DEF EngineStart
          <5>. QED  BY <1>0, <3>1, <5>1, <5>2 DEF CommitPath
        <4>3. CASE UNCHANGED <<unitVars, pending>>
          BY <1>0, <3>1, <4>3 DEF CommitPath, UnitTypes
        <4>. QED  BY <3>1, <4>2, <4>3 DEF CommitPath
      <3>2. CASE DecommitPath(e, enabled, descent)
        <4>1. decommit' \in 0 .. DecommitConfirm
          BY <1>0, <3>2, Counting, TimesAssumption DEF DecommitPath
        <4>2. UnitTypes'
          <5>1. CASE UNCHANGED unitVars
            BY <1>0, <5>1 DEF UnitTypes
          <5>2. CASE ~UNCHANGED unitVars
            <6>1. decommit' = DecommitConfirm /\ CommandStop(Max(InReserve), descent)
              BY <3>2, <5>2 DEF DecommitPath
            <6>2. DecommitTrigger(e)
              BY <3>2, <6>1, TimesAssumption DEF DecommitPath, Sustained
            <6>3. Max(InReserve) \in Units
              BY <6>2, MinMax DEF DecommitTrigger, InReserve, In
            <6>. QED  BY <6>1, <6>3, Stopped
          <5>. QED  BY <5>1, <5>2
        <4>. QED  BY <1>0, <3>2, <4>1, <4>2 DEF DecommitPath
      <3>. QED  BY <1>9, <3>1, <3>2 DEF Commit
    <2>. QED  BY <1>0, <1>9, <2>1, <2>2 DEF Commit, UnitTypes, HistoryTypes, TypeOK
  <1>10. ASSUME NEW risk \in BOOLEAN, Contingency(risk)
         PROVE  TypeOK'
    <2>1. release' \in 0 .. ReleaseConfirm
      BY <1>0, <1>10, Counting, TimesAssumption DEF Contingency
    <2>2. UnitTypes' /\ standby' \subseteq Units /\ pending' \in Units \cup {None}
          /\ armed' \in BOOLEAN
      <3>1. CASE UNCHANGED <<unitVars, standby, pending>> /\ armed' = (armed \/ ~risk)
        BY <1>0, <3>1 DEF UnitTypes
      <3>2. CASE /\ Standbys # {}
                 /\ Release(FirstOf(Standbys), thermal)
                 /\ armed' = (state'[FirstOf(Standbys)] # "STARTING")
        <4>1. FirstOf(Standbys) \in Units
          BY <3>2, FirstIsMember DEF Standbys, In
        <4>2. UnitTypes' /\ standby' \subseteq Units /\ pending' \in Units \cup {None}
          BY <1>0, <3>2, <4>1, Started, RecordedType DEF Release, UnitTypes
        <4>. QED  BY <3>2, <4>2
      <3>. QED  BY <1>10, <3>1, <3>2 DEF Contingency
    <2>3. HistoryTypes'
      <3>1. opened' \in 0 .. UnloadTail
        BY <1>0, <1>10, Counting, TimesAssumption DEF Contingency, HistoryTypes
      <3>2. ran' \in [Units -> 0 .. MinRun]
        <4>1. MinRun \in Nat /\ 0 \in 0 .. MinRun /\ \A u \in Units : ran[u] \in 0 .. MinRun
          BY <1>0, TimesAssumption DEF HistoryTypes
        <4>2. \A u \in Units : Least(ran[u] + 1, MinRun) \in 0 .. MinRun
          BY <4>1, Counting
        <4>. QED  BY <1>10, <4>1, <4>2 DEF Contingency
      <3>3. down' \in [Units -> Never .. MinDown] /\ idle' \in [Units -> Never .. WarmUntil]
        <4>1. \A u \in Units : /\ Longer(down[u], MinDown) \in Never .. MinDown
                               /\ Longer(idle[u], WarmUntil) \in Never .. WarmUntil
          BY <1>0, Counting, TimesAssumption DEF HistoryTypes
        <4>. QED  BY <1>10, <4>1 DEF Contingency
      <3>. QED  BY <3>1, <3>2, <3>3 DEF HistoryTypes
    <2>. QED  BY <1>0, <1>10, <2>1, <2>2, <2>3 DEF Contingency, UnitTypes, HistoryTypes, TypeOK
  <1>11. CASE UNCHANGED vars
    BY <1>0, <1>11 DEF vars, UnitTypes, HistoryTypes, TypeOK
  <1>. QED
    BY <1>1, <1>2, <1>3, <1>4, <1>5, <1>6, <1>7, <1>8, <1>9, <1>10, <1>11
    DEF Next, Tick, Outside

-----------------------------------------------------------------------------
(* The register and the starts.                                            *)

\* The engine starts a unit only while the register is empty, and notes the start.
LEMMA EngineStartsInTurn ==
  ASSUME TypeOK, InTurn, pending = None,
         NEW u \in Units, state[u] = "OFFLINE", NEW flagged, u \notin flagged,
         NEW thermals \in [Units -> Thermals], CommandStart(u, flagged, thermals, FALSE),
         pending' = Recorded(u, state'),
         standby' \subseteq IF state'[u] = "STARTING" THEN standby \ {u} ELSE standby
  PROVE  InTurn'
  <1>1. In("STARTING") \subseteq manual
    BY UnitsFinite DEF InTurn, In
  <1>2. CASE Accepts(u)
    <2>1. state' = [state EXCEPT ![u] = "STARTING"] /\ manual' = manual \ {u}
      BY <1>2, Started
    <2>2. state'[u] = "STARTING"
      BY <2>1 DEF TypeOK
    <2>3. pending' = u /\ standby' \subseteq standby \ {u}
      BY <2>2 DEF Recorded
    <2>. QED  BY <1>1, <2>1, <2>2, <2>3 DEF InTurn, In, TypeOK
  <1>3. CASE ~Accepts(u)
    <2>1. state' = state /\ manual' = manual
      BY <1>3, Started
    <2>2. pending' = None /\ standby' \subseteq standby
      BY <2>1 DEF Recorded
    <2>. QED  BY <1>1, <2>1, <2>2 DEF InTurn, In
  <1>. QED  BY <1>2, <1>3

\* A start by an operator takes no turn.
LEMMA OperatorStarts ==
  ASSUME TypeOK, InTurn, stage = "inputs", UNCHANGED <<pending, stage>>,
         NEW u \in Units, NEW flagged, CommandStart(u, flagged, thermal, TRUE),
         standby' \subseteq standby, u \notin flagged => u \notin standby'
  PROVE  InTurn'
  <1>1. thermal \in [Units -> Thermals]
    BY DEF TypeOK
  <1>2. CASE u \notin flagged /\ Accepts(u)
    <2>1. state' = [state EXCEPT ![u] = "STARTING"] /\ manual' = manual \cup {u}
      BY <1>1, <1>2, Started
    <2>. QED  BY <1>2, <2>1 DEF InTurn, In, TypeOK
  <1>3. CASE ~(u \notin flagged /\ Accepts(u))
    <2>1. state' = state /\ manual' = manual
      BY <1>1, <1>3, Started
    <2>. QED  BY <2>1 DEF InTurn, In
  <1>. QED  BY <1>2, <1>3

LEMMA InTurnStep ==
  ASSUME TypeOK, InTurn, [Next]_vars
  PROVE  InTurn'
  <1> USE DEF unitVars, reserveVars, historyVars, timerVars, seenVars
  <1>1. ASSUME NEW c \in Orders, Command(c)
        PROVE  InTurn'
    BY <1>1 DEF Command, InTurn, In
  <1>2. ASSUME NEW u \in Units, NEW t \in Thermals, Override(u, t)
        PROVE  InTurn'
    BY <1>2 DEF Override, InTurn, In
  <1>3. CASE BeginTick
    BY <1>3 DEF BeginTick, InTurn, In
  <1>4. CASE Drain
    <2> DEFINE c == Head(commands)
    <2>1. c \in Orders
      BY <1>4 DEF Drain, TypeOK
    <2>2. c.unit \in Units
      BY <2>1 DEF Orders
    <2>3. stage = "inputs" /\ UNCHANGED <<pending, stage>>
      BY <1>4 DEF Drain
    <2> HIDE DEF c
    <2>4. CASE TripStandby(c.unit)
      BY <2>2, <2>3, <2>4, OperatorStarts DEF TripStandby
    <2>5. CASE TripUnit(c.unit)
      BY <2>2, <2>3, <2>5 DEF TripUnit, InTurn, In, Standbys, TypeOK
    <2>6. CASE StartUnit(c.unit)
      BY <2>2, <2>3, <2>6, OperatorStarts DEF StartUnit
    <2>. QED  BY <1>4, <2>4, <2>5, <2>6 DEF Drain, c
  <1>5. CASE Stage
    <2>1. Min(Startable) \in Startable
      BY <1>5, MinMax DEF Stage, Startable, In
    <2>2. Min(Startable) \in Units /\ state[Min(Startable)] = "OFFLINE"
          /\ Min(Startable) \notin standby
      BY <2>1 DEF Startable, In
    <2>3. standby' \subseteq IF state'[Min(Startable)] = "STARTING"
                             THEN standby \ {Min(Startable)} ELSE standby
      BY <1>5, <2>2 DEF Stage
    <2>. QED  BY <1>5, <2>2, <2>3, EngineStartsInTurn DEF Stage, EngineStart, TypeOK
  <1>6. ASSUME NEW u \in Units, UnitTrip(u)
        PROVE  InTurn'
    BY <1>6 DEF UnitTrip, InTurn, In, TypeOK
  <1>7. CASE Advance
    <2>1. Due("STARTING") \subseteq In("STARTING") /\ Due("UNLOADING") \subseteq In("UNLOADING")
      BY DEF Due
    <2>2. /\ state' = [u \in Units |-> IF u \in Due("STARTING") THEN "SYNCHRONISED"
                                       ELSE IF u \in Due("UNLOADING") THEN "OFFLINE"
                                       ELSE state[u]]
          /\ manual' = manual \ Due("STARTING") /\ standby' = standby
          /\ pending' = Freed(state')
      BY <1>7 DEF Advance
    <2>3. standby \subseteq In("OFFLINE")'
      BY <2>1, <2>2 DEF InTurn, In
    <2>4. \A u \in Units : state'[u] = "STARTING" =>
            u \in In("STARTING") /\ u \notin Due("STARTING")
      BY <2>2 DEF In
    <2>5. In("STARTING")' \ manual' \subseteq {pending}
      BY <2>2, <2>4 DEF InTurn, In
    <2>6. In("STARTING")' \ manual' \subseteq {pending'}
      BY <2>2, <2>5 DEF Freed, In
    <2>7. pending' # None => state'[pending'] = "STARTING"
      <3>1. SUFFICES ASSUME pending' # None
                     PROVE  state'[pending'] = "STARTING"
        OBVIOUS
      <3>2. /\ pending' = pending /\ pending \in Units
            /\ state'[pending] \notin {"SYNCHRONISED", "OFFLINE"}
        BY <2>2, <3>1 DEF Freed, TypeOK
      <3>3. state[pending] \in {"STARTING", "OFFLINE"}
        BY <3>1, <3>2 DEF InTurn
      <3>. QED  BY <2>2, <3>2, <3>3
    <2>. QED  BY <2>2, <2>3, <2>6, <2>7 DEF InTurn
  <1>8. ASSUME NEW loaded \in BOOLEAN, Cascade(loaded)
        PROVE  InTurn'
    <2> DEFINE first == FirstOf(Standbys)
               rest == Standbys \ {first}
    <2>1. CASE UNCHANGED <<unitVars, reserveVars, pending>>
      BY <1>8, <2>1 DEF Cascade, InTurn, In
    <2>2. CASE /\ Standbys # {} /\ pending = None
               /\ Release(first, Promoted(thermal, rest, first))
      <3>1. first \in Standbys
        BY <2>2, FirstIsMember DEF Standbys, In
      <3>2. first \in Units /\ state[first] = "OFFLINE" /\ rest \in SUBSET Units
        BY <3>1 DEF Standbys, In
      <3>3. Promoted(thermal, rest, first) \in [Units -> Thermals]
        BY <3>2, PromotedType DEF TypeOK
      <3> HIDE DEF first, rest
      <3>. QED  BY <2>2, <3>2, <3>3, EngineStartsInTurn DEF Release
    <2>. QED  BY <1>8, <2>1, <2>2 DEF Cascade
  <1>9. ASSUME NEW e \in Demands, NEW enabled \in BOOLEAN, NEW descent \in 0 .. Descent,
               Commit(e, enabled, descent)
        PROVE  InTurn'
    <2>1. standby' = standby /\ stage = "commitment" /\ stage' = "contingency"
      BY <1>9 DEF Commit
    <2>2. CASE UNCHANGED <<state, manual, pending>>
      BY <2>1, <2>2 DEF InTurn, In
    <2>3. CASE Startable # {} /\ pending = None /\ EngineStart(FirstOf(Startable))
      <3> DEFINE first == FirstOf(Startable)
      <3>1. first \in Startable
        BY <2>3, FirstIsMember DEF Startable, In
      <3>2. first \in Units /\ state[first] = "OFFLINE" /\ first \notin standby
        BY <3>1 DEF Startable, In
      <3> HIDE DEF first
      <3>3. standby' \subseteq IF state'[first] = "STARTING" THEN standby \ {first} ELSE standby
        BY <2>1, <3>2
      <3>. QED  BY <2>3, <3>2, <3>3, EngineStartsInTurn DEF EngineStart, TypeOK, first
    <2>4. CASE /\ DecommitPath(e, enabled, descent)
               /\ CommandStop(Max(InReserve), descent)
               /\ decommit' = DecommitConfirm
      <3>1. DecommitTrigger(e)
        BY <2>4, TimesAssumption DEF DecommitPath, Sustained
      <3>2. Max(InReserve) \in InReserve
        BY <3>1, MinMax DEF DecommitTrigger, InReserve, In
      <3> DEFINE last == Max(InReserve)
      <3>3. last \in Units /\ state[last] = "SYNCHRONISED"
        BY <3>2 DEF InReserve, In
      <3> HIDE DEF last
      <3>4. /\ manual' = manual /\ pending' = pending
            /\ state' = state \/ state' = [state EXCEPT ![last] = "UNLOADING"]
        BY <2>4, <3>3, Stopped DEF DecommitPath, last
      <3>. QED  BY <2>1, <3>3, <3>4 DEF InTurn, In, TypeOK
    <2>. QED  BY <1>9, <2>2, <2>3, <2>4 DEF Commit, CommitPath, DecommitPath
  <1>10. ASSUME NEW risk \in BOOLEAN, Contingency(risk)
         PROVE  InTurn'
    <2> DEFINE first == FirstOf(Standbys)
    <2>1. CASE UNCHANGED <<unitVars, standby, pending>>
      BY <1>10, <2>1 DEF Contingency, InTurn, In
    <2>2. CASE Standbys # {} /\ pending = None /\ Release(first, thermal)
      <3>1. first \in Standbys
        BY <2>2, FirstIsMember DEF Standbys, In
      <3>2. first \in Units /\ state[first] = "OFFLINE"
        BY <3>1 DEF Standbys, In
      <3> HIDE DEF first
      <3>. QED  BY <2>2, <3>2, EngineStartsInTurn DEF Release, TypeOK
    <2>. QED  BY <1>10, <2>1, <2>2 DEF Contingency
  <1>11. CASE UNCHANGED vars
    BY <1>11 DEF vars, InTurn, In
  <1>. QED
    BY <1>1, <1>2, <1>3, <1>4, <1>5, <1>6, <1>7, <1>8, <1>9, <1>10, <1>11
    DEF Next, Tick, Outside

-----------------------------------------------------------------------------
(* Hot standbys never ran, and commands act.                               *)

LEMMA FreshStandbysStep ==
  ASSUME TypeOK, InTurn, FreshStandbys, [Next]_vars
  PROVE  FreshStandbys'
  <1> USE DEF FreshStandbys, unitVars, reserveVars, historyVars, timerVars, seenVars
  <1>1. \A u \in standby : u \in Units /\ state[u] = "OFFLINE"
    BY DEF InTurn, In
  <1>2. CASE UNCHANGED down /\ standby' \subseteq standby
    BY <1>2
  <1>3. CASE Drain
    BY <1>1, <1>3 DEF Drain, TripStandby, TripUnit, StartUnit, Standbys, In, TypeOK
  <1>4. CASE Advance
    BY <1>1, <1>4 DEF Advance, Due, In
  <1>5. ASSUME NEW risk \in BOOLEAN, Contingency(risk)
        PROVE  FreshStandbys'
    BY <1>1, <1>5 DEF Contingency, Release, Longer
  <1>. QED
    BY <1>2, <1>3, <1>4, <1>5
    DEF Next, Tick, Outside, vars, Command, Override, BeginTick, Stage, UnitTrip, Cascade,
        Commit, Release

LEMMA DrainedStep ==
  ASSUME TypeOK, Drained, [Next]_vars
  PROVE  Drained'
  BY DEF Drained, Next, Tick, Outside, vars, Command, Override, BeginTick, Drain, Stage,
         UnitTrip, Advance, Cascade, Commit, Contingency

\* What validation accepts, the drain carries out.
LEMMA ValidActs ==
  ASSUME TypeOK, InTurn, FreshStandbys, NEW c \in Orders, Valid(c)
  PROVE  Acts(c)
  <1>1. c.unit \in Units /\ c.action \in {"trip", "start"}
    BY DEF Orders
  <1>2. CASE c.action = "start"
    BY <1>1, <1>2 DEF Valid, Acts, Startable, In, Accepts
  <1>3. CASE c.action = "trip" /\ c.unit \in Standbys
    <2>1. state[c.unit] = "OFFLINE" /\ down[c.unit] = Never
      BY <1>3 DEF Standbys, In, FreshStandbys
    <2>. QED  BY <1>3, <2>1 DEF Acts, Accepts, Resting
  <1>4. CASE c.action = "trip" /\ c.unit \notin Standbys
    BY <1>1, <1>4 DEF Valid, Acts
  <1>. QED  BY <1>1, <1>2, <1>3, <1>4

LEMMA CommandsStep ==
  ASSUME IInv, [Next]_vars
  PROVE  AcceptedCommandsAct'
  <1> USE DEF unitVars, reserveVars, historyVars, timerVars, seenVars
  <1>1. ASSUME NEW c \in Orders, Command(c)
        PROVE  AcceptedCommandsAct'
    <2>1. /\ stage = "idle" /\ Acts(c) /\ commands' = Append(commands, c)
          /\ commands \in Seq(Orders)
      BY <1>1, ValidActs DEF IInv, Command, TypeOK
    <2>2. \A d \in Orders : Acts(d) => Acts(d)'
      BY <1>1 DEF Command, Acts, Accepts, Resting, Standbys, In
    <2>3. ASSUME NEW i \in DOMAIN commands',
                 \A k \in 1 .. i - 1 : commands'[k].unit # commands'[i].unit
          PROVE  \E d \in Orders : d = commands'[i] /\ Acts(d)
      <3>1. CASE i \in DOMAIN commands
        <4>1. commands'[i] = commands[i] /\ commands[i] \in Orders
          BY <2>1, <3>1
        <4>2. \A k \in 1 .. i - 1 : commands'[k] = commands[k]
          BY <2>1, <3>1
        <4>3. Acts(commands[i])
          BY <2>1, <2>3, <3>1, <4>1, <4>2 DEF IInv, AcceptedCommandsAct
        <4>. QED  BY <4>1, <4>3
      <3>2. CASE i \notin DOMAIN commands
        <4>1. commands'[i] = c
          BY <2>1, <3>2
        <4>. QED  BY <2>1, <4>1
      <3>. QED  BY <3>1, <3>2
    <2>. QED  BY <2>2, <2>3, <1>1 DEF AcceptedCommandsAct, Acts, Accepts, Resting, Standbys, In
  <1>2. ASSUME NEW u \in Units, NEW t \in Thermals, Override(u, t)
        PROVE  AcceptedCommandsAct'
    <2>1. UNCHANGED <<state, standby, down, commands, stage>>
      BY <1>2 DEF Override
    <2>. QED  BY <2>1 DEF IInv, AcceptedCommandsAct, Acts, Accepts, Resting, Standbys, In
  <1>3. ASSUME NEW risk \in BOOLEAN, Contingency(risk)
        PROVE  AcceptedCommandsAct'
    <2>1. commands' = <<>>
      BY <1>3 DEF IInv, Drained, Contingency
    <2>. QED  BY <2>1 DEF AcceptedCommandsAct
  <1>4. CASE UNCHANGED vars
    BY <1>4 DEF IInv, vars, AcceptedCommandsAct, Acts, Accepts, Resting, Standbys, In
  <1>5. CASE stage' # "idle"
    BY <1>5 DEF AcceptedCommandsAct
  <1>. QED
    BY <1>1, <1>2, <1>3, <1>4, <1>5
    DEF Next, Tick, Outside, BeginTick, Drain, Stage, UnitTrip, Advance, Cascade, Commit

-----------------------------------------------------------------------------
(* The theorems.                                                           *)

LEMMA InitInv == Init => IInv
  <1>1. SUFFICES ASSUME Init PROVE IInv
    OBVIOUS
  <1>2. TypeOK
    <2>1. /\ 0 \in 0 .. MinRun /\ Never \in Never .. MinDown /\ Never \in Never .. WarmUntil
          /\ UnloadTail \in 0 .. UnloadTail /\ 0 \in 0 .. CommitConfirm
          /\ 0 \in 0 .. DecommitConfirm /\ 0 \in 0 .. ReleaseConfirm
      BY TimesAssumption DEF Never
    <2>2. <<>> \in Seq(Orders)
      OBVIOUS
    <2>. QED  BY <1>1, <2>1, <2>2, FleetAssumption DEF Init, TypeOK, States
  <1>3. InTurn
    BY <1>1, FleetAssumption DEF Init, InTurn, In
  <1>4. FreshStandbys /\ Drained /\ AcceptedCommandsAct
    BY <1>1, FleetAssumption DEF Init, FreshStandbys, Drained, AcceptedCommandsAct
  <1>. QED  BY <1>2, <1>3, <1>4 DEF IInv

LEMMA Invariance == Spec => []IInv
  <1>1. IInv /\ [Next]_vars => IInv'
    BY TypesStep, InTurnStep, FreshStandbysStep, DrainedStep, CommandsStep DEF IInv
  <1>. QED  BY InitInv, <1>1, PTL DEF Spec

\* Every variable keeps its type, for any fleet.
THEOREM TypeCorrect == Spec => []TypeOK
  <1>1. IInv => TypeOK
    BY DEF IInv
  <1>. QED  BY Invariance, <1>1, PTL

\* The engine has at most one unit in its start sequence, and the register holds it.
THEOREM StartsInTurn == Spec => []SequentialStarts
  <1>1. IInv => SequentialStarts
    BY DEF IInv, InTurn, SequentialStarts, In, TypeOK, None
  <1>. QED  BY Invariance, <1>1, PTL

\* No command is dropped after its caller was told "ok".
THEOREM CommandsAct == Spec => []AcceptedCommandsAct
  <1>1. IInv => AcceptedCommandsAct
    BY DEF IInv
  <1>. QED  BY Invariance, <1>1, PTL
=============================================================================
