---------------------------- MODULE DieselFleet ----------------------------
(***************************************************************************)
(* The backup diesel fleet: core/diesel_fleet.py coordinates the units of  *)
(* core/asset_modules.py (DieselModule).  The simulation calls step() once *)
(* a tick with the demand the other sources left uncovered; the fleet      *)
(* opens an episode when that gap lasts, starts its primary units one by   *)
(* one, replaces a unit that fails to start by a standby, unloads the      *)
(* units when the gap is gone and holds a restart lockout before the       *)
(* next episode.                                                           *)
(*                                                                         *)
(* A clock that the code keeps as a time stamp is kept here as the ticks   *)
(* elapsed or left, capped where the code stops telling values apart.      *)
(* Power and fuel are left out: no decision of the fleet reads them.       *)
(***************************************************************************)
EXTENDS Integers, FiniteSets

CONSTANTS
  NActive,      \* the units needed on the bus, all primaries
  NTotal,       \* the units of the fleet, the standbys after the primaries
  Stagger,      \* ticks between the starts of two primaries
  DieselStart,  \* ticks from a start command to its outcome
  DieselMinRun, \* ticks a unit runs before it accepts a stop
  DieselMinDown,  \* ticks of the restart lockout
  Debounce,     \* ticks a gap must last to open an episode
  RestoreHold   \* ticks without a gap before unloading is completed

ASSUME DieselAssumption ==
  /\ NActive \in Nat \ {0} /\ NTotal \in Nat /\ NActive <= NTotal
  /\ {Stagger, DieselStart, DieselMinRun, DieselMinDown, Debounce, RestoreHold} \subseteq Nat

VARIABLES
  fleet, \* the coordinator and its units
  gap,   \* whether the last tick left demand uncovered
  beat   \* flips at every tick, so that a tick is never a stuttering step

fleetVars == <<fleet, gap, beat>>

FleetUnits == 1..NTotal
Primaries == 1..NActive
StandbyUnits == (NActive + 1)..NTotal
Offset(u) == (u - 1) * Stagger
LastOffset == (NActive - 1) * Stagger

NoCooldown == -1
Lesser(a, b) == IF a <= b THEN a ELSE b

Less(n) == IF n > 0 THEN n - 1 ELSE n

-----------------------------------------------------------------------------
(* The units of a fleet f: the units in each state, and their clocks.      *)

Offline(f) ==
  FleetUnits \ (f.starting \cup f.synchronised \cup f.unloading \cup f.failed)

CanStart(f) == {u \in Offline(f) \ f.attempted : f.lock[u] = 0}

\* The outcome of a start is drawn when the start is commanded.
CommandStarts(f, us, ok) ==
  [f EXCEPT !.starting = @ \cup us, !.attempted = @ \cup us,
            !.success = @ \cup (us \cap ok),
            !.left = [u \in FleetUnits |-> IF u \in us THEN DieselStart ELSE @[u]]]

\* advance() of every unit: one tick more, and the outcomes that are due.
AdvanceUnits(f) ==
  LET due == {u \in f.starting : f.left[u] <= 1} IN
  [f EXCEPT
     !.starting = @ \ due,
     !.synchronised = @ \cup (due \cap f.success),
     !.failed = @ \cup (due \ f.success),
     !.left = [u \in FleetUnits |-> IF u \in f.starting THEN Less(@[u]) ELSE @[u]],
     !.ran = [u \in FleetUnits |-> IF u \in due \cap f.success THEN 0
                               ELSE Lesser(@[u] + 1, DieselMinRun)],
     !.lock = [u \in FleetUnits |-> Less(@[u])]]

\* A stop within the minimum run time is refused.
CommandStops(f) ==
  LET us == {u \in f.synchronised : f.ran[u] >= DieselMinRun} IN
  [f EXCEPT !.synchronised = @ \ us, !.unloading = @ \cup us]

ResumeFromUnloading(f) ==
  [f EXCEPT !.synchronised = @ \cup f.unloading, !.unloading = {}]

CompleteUnloading(f) ==
  [f EXCEPT !.unloading = {},
            !.lock = [u \in FleetUnits |-> IF u \in f.unloading THEN DieselMinDown ELSE @[u]]]

\* The lockout is not among what an episode's end clears.
ResetForNewEpisode(f) ==
  [f EXCEPT !.attempted = {}, !.success = {},
            !.left = [u \in FleetUnits |-> 0], !.ran = [u \in FleetUnits |-> 0]]

-----------------------------------------------------------------------------
(* The fleet *)

StandbysReady(f) == CanStart(f) \cap StandbyUnits
Short(f) == Cardinality(f.synchronised) < NActive

\* The clocks of the fleet and of its units, one tick later.
Elapsed(f) ==
  [AdvanceUnits(f) EXCEPT !.since = Lesser(@ + 1, LastOffset), !.cooldown = Less(@)]

CompleteCooldownIfReady(f) ==
  IF f.cooldown = 0 /\ Offline(f) = FleetUnits
    THEN [ResetForNewEpisode(f) EXCEPT
            !.episode = FALSE, !.cooldown = NoCooldown, !.positive = 0,
            !.restored = 0, !.handled = {}, !.alert = FALSE]
    ELSE f

GapSeen(f, g) ==
  [f EXCEPT !.positive = IF g THEN Lesser(@ + 1, Debounce) ELSE 0]

BeginEpisode(f) ==
  [f EXCEPT !.episode = TRUE, !.since = 0, !.restored = 0, !.handled = {},
            !.alert = FALSE, !.rollup = "starting"]

DuePrimaries(f) == {u \in CanStart(f) \cap Primaries : f.since >= Offset(u)}

\* The gap is there.  The roll-up read here is the one of the tick before.
Called(f, ok) ==
  LET back == ResumeFromUnloading([f EXCEPT !.restored = 0]) IN
  IF f.rollup = "insufficient_start" THEN back
  ELSE CommandStarts(back, DuePrimaries(back), ok)

\* Mutant: the lockout of the first units to stop stands for all.
BugFinish(f) ==
  [CompleteUnloading(f) EXCEPT
     !.cooldown = IF @ = NoCooldown THEN DieselMinDown ELSE @]

\* finish_unloading(): every unit that is offline shares one lockout.
FinishUnloading(f) == [CompleteUnloading(f) EXCEPT !.cooldown = DieselMinDown]

\* Mutant: the units are told to stop only on the first tick without a gap.
BugReleased(f) ==
  LET told == IF f.restored = 0 THEN CommandStops(f) ELSE f
      held == IF f.unloading \cup f.synchronised = {} THEN told
              ELSE [told EXCEPT !.restored = Lesser(@ + 1, RestoreHold)]
  IN  IF held.restored >= RestoreHold /\ held.unloading # {}
        THEN FinishUnloading(held) ELSE held

\* With the gap gone the units are told to stop, and again at every tick
\* on which none of them unloads; the hold runs from the first such tick.
Released(f) ==
  LET told == IF f.unloading = {} THEN CommandStops(f) ELSE f
      held == IF f.unloading \cup f.synchronised = {} THEN told
              ELSE [told EXCEPT !.restored = Lesser(@ + 1, RestoreHold)]
  IN  IF held.restored >= RestoreHold /\ held.unloading # {}
        THEN FinishUnloading(held) ELSE held

\* Mutant: a failure that was answered is answered again.
BugHandleAgain(f, ok) ==
  LET ready == StandbysReady(f)
      first == {u \in ready : Cardinality({v \in ready : v < u}) < Cardinality(f.failed)}
  IN  CommandStarts(f, IF Short(f) THEN first ELSE {}, ok)

\* Mutant: a tick answers one of the failures it finds.
BugHandleOne(f, ok) ==
  LET new == f.failed \ f.handled
      first == {u \in StandbysReady(f) : \A v \in StandbysReady(f) : u <= v}
  IN  CommandStarts([f EXCEPT !.handled = @ \cup new],
                   IF Short(f) /\ new # {} THEN first ELSE {}, ok)

\* One standby, the first that is ready, for each unit that newly failed.
HandleFailedStarts(f, ok) ==
  LET new == f.failed \ f.handled
      ready == StandbysReady(f)
      first == {u \in ready : Cardinality({v \in ready : v < u}) < Cardinality(new)}
  IN  CommandStarts([f EXCEPT !.handled = @ \cup new],
                   IF Short(f) THEN first ELSE {}, ok)

UpdateInsufficientStart(f) ==
  [f EXCEPT !.alert = @ \/ (/\ Short(f)
                            /\ f.unloading = {} /\ f.starting = {}
                            /\ StandbysReady(f) = {})]

UpdateRollup(f) ==
  [f EXCEPT !.rollup =
     IF f.unloading # {} THEN "unloading"
     ELSE IF f.cooldown # NoCooldown THEN "cooldown"
     ELSE IF f.alert /\ Short(f) THEN "insufficient_start"
     ELSE IF f.starting # {} THEN "starting"
     ELSE IF ~Short(f) THEN "sustaining"
     ELSE IF f.episode THEN "starting" ELSE "idle"]

InEpisode(f, g, ok) ==
  UpdateInsufficientStart(
    HandleFailedStarts(IF g THEN Called(f, ok) ELSE Released(f), ok))

\* step(): what one tick makes of the fleet.
Stepped(f, g, ok) ==
  LET seen == GapSeen(CompleteCooldownIfReady(Elapsed(f)), g)
      opens == g /\ seen.positive >= Debounce /\ seen.cooldown = NoCooldown
  IN  UpdateRollup(
        IF seen.episode THEN InEpisode(seen, g, ok)
        ELSE IF opens THEN InEpisode(BeginEpisode(seen), g, ok)
        ELSE seen)

-----------------------------------------------------------------------------
NewFleet ==
  [starting |-> {}, synchronised |-> {}, unloading |-> {}, failed |-> {},
   attempted |-> {}, success |-> {},
   left |-> [u \in FleetUnits |-> 0], ran |-> [u \in FleetUnits |-> 0],
   lock |-> [u \in FleetUnits |-> 0],
   episode |-> FALSE, since |-> 0, positive |-> 0, restored |-> 0,
   handled |-> {}, cooldown |-> NoCooldown, alert |-> FALSE, rollup |-> "idle"]

FleetInit == fleet = NewFleet /\ gap = FALSE /\ beat = 0

\* The simulation calls step() at every tick.
Beat == beat' = 1 - beat

\* The gap and the outcomes of the starts are the environment's choice.
FleetTick ==
  \E g \in BOOLEAN, ok \in SUBSET FleetUnits :
    /\ gap' = g
    /\ fleet' = Stepped(fleet, g, ok)
    /\ Beat

FleetNext == FleetTick

FleetSpec == FleetInit /\ [][FleetNext]_fleetVars

\* Only FleetTick changes beat: this is fairness of FleetTick, in a form whose
\* ENABLED TLC evaluates quickly.
FairFleetSpec == FleetSpec /\ WF_beat(Beat)

-----------------------------------------------------------------------------
Rollups == {"idle", "starting", "sustaining", "unloading", "cooldown",
            "insufficient_start"}

FleetType ==
  [starting : SUBSET FleetUnits, synchronised : SUBSET FleetUnits,
   unloading : SUBSET FleetUnits, failed : SUBSET FleetUnits,
   attempted : SUBSET FleetUnits, success : SUBSET FleetUnits,
   left : [FleetUnits -> 0..DieselStart], ran : [FleetUnits -> 0..DieselMinRun],
   lock : [FleetUnits -> 0..DieselMinDown],
   episode : BOOLEAN, since : 0..LastOffset, positive : 0..Debounce,
   restored : 0..RestoreHold, handled : SUBSET FleetUnits,
   cooldown : NoCooldown..DieselMinDown, alert : BOOLEAN, rollup : Rollups]

\* The state is one the program can be in: a unit is in one state.
FleetTypeOK ==
  /\ fleet \in FleetType
  /\ \A u \in FleetUnits : \A s, t \in {"starting", "synchronised", "unloading", "failed"} :
       u \in fleet[s] /\ u \in fleet[t] => s = t
  /\ gap \in BOOLEAN
  /\ beat \in {0, 1}

\* However many starts fail, and whatever replaced them, the units that run,
\* start or unload are never more than the units the fleet needs (the test
\* test_synchronised_count_never_exceeds_active_target_during_multi_failure
\* samples one such sequence).
LiveWithinTarget ==
  Cardinality(fleet.starting \cup fleet.synchronised \cup fleet.unloading) <= NActive

\* The fleet never burns more than it was sized for, nor counts a unit twice.
FleetWithinTarget == FleetTypeOK /\ LiveWithinTarget

\* A failed start is never forgotten: in an episode every failed unit has
\* called one standby of its own, until the standbys are used up.
EveryFailureReplaced ==
  LET called == fleet.attempted \cap StandbyUnits IN
  fleet.episode => Cardinality(called) = Cardinality(fleet.failed) \/ called = StandbyUnits

\* Between two episodes every unit accepts a start: the lockout the fleet
\* waits for covers the lockouts the units keep, which reset_for_new_episode
\* does not clear, so that no primary of the next episode is refused.
ReadyWhenIdle == ~fleet.episode => CanStart(fleet) = FleetUnits

\* When the gap is gone for good the fleet closes its episode, unless a unit
\* that failed to start keeps it open (README, section 7).
EpisodeEnds == <>[](~gap) => []<>(~fleet.episode \/ fleet.failed # {})

\* A unit was stopped in this episode while another one ran on.
HalfStopped == fleet.cooldown # NoCooldown /\ Offline(fleet) # FleetUnits

\* A gap that stays is met by the full number of units, unless a start
\* failed or the gap came back between the stops of two units (README,
\* section 7).
GapServed ==
  <>[]gap => []<>(~Short(fleet) \/ fleet.failed # {} \/ HalfStopped)

\* In the long run the fleet does what the gap asks for.
FleetFollowsGap == EpisodeEnds /\ GapServed
=============================================================================
