------------------------- MODULE TurbineCommitment -------------------------
(***************************************************************************)
(* Commitment of the turbine fleet.  core/commitment.py decides once a     *)
(* tick which unit starts or stops; core/simulation_core.py acts on it,    *)
(* and starts units on two more paths of its own: the cascade, which       *)
(* releases a hot standby when the last unit on the bus is loaded, and the *)
(* release of a standby when an N-1 trip could not be covered.  A workload *)
(* event may stage a start (core/dispatch.py), a scripted one may trip a   *)
(* unit, and operators queue starts and trips that the run applies before  *)
(* the tick (runtime/run_manager.py).  The state machine of a unit is      *)
(* TurbineModule in core/asset_modules.py.                                 *)
(*                                                                         *)
(* Time stamps are kept as the ticks elapsed or left, capped where no      *)
(* comparison tells them apart.  Demand and ratings are small integers;    *)
(* what floating-point physics decides is open: whether the lead unit is   *)
(* loaded, the battery saturated, a trip covered, and how long a unit      *)
(* takes down to its minimum load.  The settle interval between starts is  *)
(* left out: it is only looked at with an empty register, and then holds.  *)
(*                                                                         *)
(* A tick is one synchronous call; stage orders its parts.                 *)
(***************************************************************************)
EXTENDS Integers, Sequences, FiniteSets, FiniteSetsExt

CONSTANTS
  NUnits,          \* the turbines, in roster order
  Rated,           \* rated power of each
  HotStandby,      \* the units commissioned as hot standby
  Spinning,        \* the units synchronised at the start
  Initial,         \* initial_thermal_state of each
  StartTime,       \* ticks of the start sequence, by thermal state
  HotUntil,        \* ticks off the bus until a unit is no longer hot
  WarmUntil,       \* ... nor warm
  MinRun, MinDown, \* ticks a unit runs before a stop, rests before a start
  UnloadTail,      \* ticks at minimum load before the breaker opens
  Descent,         \* bound of the ticks a unit takes down to minimum load
  CommitConfirm, DecommitConfirm, ReleaseConfirm,
  CommitPct, DecommitPct, RemovalPct,   \* utilisation thresholds in percent
  Cascading,       \* whether the site has a cascade_commit_fraction
  Demands,         \* the demands on the turbines to be explored
  MaxInputs        \* bound on commands, overrides and events

Units == 1 .. NUnits
HOT == 0
WARM == 1
COLD == 2
Thermals == {HOT, WARM, COLD}

ASSUME FleetAssumption ==
  /\ NUnits \in Nat \ {0} /\ Rated \in [Units -> Nat \ {0}]
  /\ HotStandby \subseteq Units /\ Spinning \subseteq Units \ HotStandby
  /\ Initial \in [Units -> Thermals]
ASSUME TimesAssumption ==
  /\ StartTime \in [Thermals -> Nat \ {0}]
  /\ HotUntil \in Nat /\ WarmUntil \in Nat /\ MinRun \in Nat /\ MinDown \in Nat
  /\ UnloadTail \in Nat /\ Descent \in Nat
  /\ CommitConfirm \in Nat \ {0} /\ DecommitConfirm \in Nat \ {0}
  /\ ReleaseConfirm \in Nat \ {0}
ASSUME SiteAssumption ==
  /\ CommitPct \in Nat /\ DecommitPct \in Nat /\ RemovalPct \in Nat
  /\ Cascading \in BOOLEAN /\ Demands \subseteq Nat /\ MaxInputs \in Nat

VARIABLES
  state, thermal, left,  \* per unit: its state, its thermal state, the ticks left
  manual,             \* the units an operator is starting, past the register
  standby,            \* the units that bear the hot_standby flag
  initial,            \* the initial thermal state, which promotion rewrites
  ran, down, idle,    \* ticks since the run began, since the stop, since it left the bus
  opened,             \* ticks since the last breaker opened
  pending,            \* the register of the pending start
  commit, decommit, release, armed,     \* the timers, and the episode of the release
  demand, force,      \* the demand last seen, and whether the cascade forces a commit
  commands,           \* ctx._operator_commands
  stage,              \* the part of the tick that comes next, "idle" between ticks
  inputs              \* commands, overrides and events so far

unitVars == <<state, thermal, left, manual>>
reserveVars == <<standby, initial>>
historyVars == <<ran, down, idle, opened>>
timerVars == <<commit, decommit, release, armed>>
seenVars == <<demand, force>>
vars == <<unitVars, reserveVars, historyVars, pending, timerVars, seenVars,
          commands, stage, inputs>>

None == 0
Never == -1

Least(a, b) == IF a <= b THEN a ELSE b
Longer(n, cap) == IF n = Never THEN Never ELSE Least(n + 1, cap)
Sustained(n, holds, threshold) == IF holds THEN Least(n + 1, threshold) ELSE 0

-----------------------------------------------------------------------------
(* The units. *)

In(s) == {u \in Units : state[u] = s}
OnBus == (In("SYNCHRONISED") \cup In("UNLOADING")) \ standby
InReserve == In("SYNCHRONISED") \ standby
Startable == In("OFFLINE") \ standby
Standbys == In("OFFLINE") \cap standby

\* Hot before warm before cold, then in roster order.
Before(u, v) ==
  \/ thermal[u] < thermal[v]
  \/ thermal[u] = thermal[v] /\ u < v
FirstOf(us) == CHOOSE u \in us : \A v \in us \ {u} : Before(u, v)

Resting(u) == down[u] # Never /\ down[u] < MinDown

Classified(u) ==
  CASE idle[u] = Never -> initial[u]
    [] idle[u] # Never /\ idle[u] < HotUntil -> HOT
    [] idle[u] >= HotUntil /\ idle[u] < WarmUntil -> WARM
    [] OTHER -> COLD

-----------------------------------------------------------------------------
(* Starts and stops of one unit. *)

\* The guards of command_start, past the flag of the hot standby.
Accepts(u) == state[u] = "OFFLINE" /\ ~Resting(u)

\* command_start, given the units that bear the flag and the thermal states: a start that
\* is refused is dropped without a word.
CommandStart(u, flagged, thermals, operator) ==
  IF u \notin flagged /\ Accepts(u)
  THEN /\ state' = [state EXCEPT ![u] = "STARTING"]
       /\ thermal' = [thermals EXCEPT ![u] = Classified(u)]
       /\ left' = [left EXCEPT ![u] = StartTime[Classified(u)]]
       /\ manual' = IF operator THEN manual \cup {u} ELSE manual \ {u}
  ELSE /\ thermal' = thermals
       /\ UNCHANGED <<state, left, manual>>

\* (mutant: the register is set although the start was dropped)
BugRecorded(u, states) == u
\* The register after a start of u: it holds a start that took.
Recorded(u, states) == IF states[u] = "STARTING" THEN u ELSE pending

\* A start by the engine of a unit without the flag.
EngineStart(u) ==
  /\ CommandStart(u, standby, thermal, FALSE)
  /\ pending' = Recorded(u, state')

\* A release by the engine: the flag goes, and comes back if the unit does not start.
Release(u, thermals) ==
  /\ CommandStart(u, standby \ {u}, thermals, FALSE)
  /\ standby' = IF state'[u] = "STARTING" THEN standby \ {u} ELSE standby
  /\ pending' = Recorded(u, state')

\* command_stop, by the sequential decommit: one unit at a time, and not before the
\* settling interval after the last breaker or the unit's minimum run time.
CommandStop(u, descent) ==
  /\ IF In("UNLOADING") = {} /\ opened = UnloadTail /\ ran[u] = MinRun
     THEN /\ state' = [state EXCEPT ![u] = "UNLOADING"]
          /\ left' = [left EXCEPT ![u] = descent + UnloadTail + 1]
     ELSE UNCHANGED <<state, left>>
  /\ UNCHANGED <<thermal, manual>>

-----------------------------------------------------------------------------
(* Operators, between ticks. *)

Orders == [unit : Units, action : {"trip", "start"}]

\* (mutant: the rest time is left to command_start)
BugValid(c) ==
  IF c.action = "trip"
  THEN state[c.unit] \in {"SYNCHRONISED", "UNLOADING"} \/ c.unit \in Standbys
  ELSE c.unit \in Startable
Valid(c) ==
  IF c.action = "trip"
  THEN state[c.unit] \in {"SYNCHRONISED", "UNLOADING"} \/ c.unit \in Standbys
  ELSE c.unit \in Startable /\ ~Resting(c.unit)

\* validate_and_enqueue_unit_command
Command(c) ==
  /\ stage = "idle" /\ inputs < MaxInputs
  /\ Valid(c)
  /\ commands' = Append(commands, c)
  /\ inputs' = inputs + 1
  /\ UNCHANGED <<unitVars, reserveVars, historyVars, pending, timerVars, seenVars, stage>>

\* set_unit_thermal_state
Override(u, t) ==
  /\ stage = "idle" /\ inputs < MaxInputs
  /\ u \in Startable /\ t # thermal[u]
  /\ thermal' = [thermal EXCEPT ![u] = t]
  /\ inputs' = inputs + 1
  /\ UNCHANGED <<state, left, manual, reserveVars, historyVars, pending, timerVars,
                 seenVars, commands, stage>>

-----------------------------------------------------------------------------
(* The inputs of a tick: the queue of commands first, then the events due. *)

BeginTick ==
  /\ stage = "idle" /\ stage' = "inputs"
  /\ UNCHANGED <<unitVars, reserveVars, historyVars, pending, timerVars, seenVars,
                 commands, inputs>>

\* The trip of a hot standby releases it, past the register.
TripStandby(u) ==
  /\ u \in Standbys
  /\ standby' = standby \ {u}
  /\ CommandStart(u, standby', thermal, TRUE)
  /\ UNCHANGED historyVars

TripUnit(u) ==
  /\ u \notin Standbys
  /\ state' = [state EXCEPT ![u] = "OFFLINE"]
  /\ left' = [left EXCEPT ![u] = 0]
  /\ down' = [down EXCEPT ![u] = 0]
  /\ idle' = [idle EXCEPT ![u] = IF u \in OnBus THEN 0 ELSE @]
  /\ UNCHANGED <<thermal, manual, standby, ran, opened>>

StartUnit(u) ==
  /\ CommandStart(u, standby, thermal, TRUE)
  /\ UNCHANGED <<standby, historyVars>>

Drain ==
  /\ stage = "inputs" /\ commands # <<>>
  /\ LET c == Head(commands) IN
     \/ c.action = "trip" /\ (TripStandby(c.unit) \/ TripUnit(c.unit))
     \/ c.action = "start" /\ StartUnit(c.unit)
  /\ commands' = Tail(commands)
  /\ UNCHANGED <<initial, pending, timerVars, seenVars, stage, inputs>>

\* stage_for_predicted_step: the first unit of the roster, if no start is pending.
Stage ==
  /\ stage = "inputs" /\ commands = <<>> /\ inputs < MaxInputs
  /\ pending = None /\ Startable # {}
  /\ EngineStart(Min(Startable))
  /\ inputs' = inputs + 1
  /\ UNCHANGED <<reserveVars, historyVars, timerVars, seenVars, commands, stage>>

\* A scripted trip leaves no stop time: the unit need not rest.
UnitTrip(u) ==
  /\ stage = "inputs" /\ commands = <<>> /\ inputs < MaxInputs
  /\ state' = [state EXCEPT ![u] = "OFFLINE"]
  /\ left' = [left EXCEPT ![u] = 0]
  /\ inputs' = inputs + 1
  /\ UNCHANGED <<thermal, manual, reserveVars, historyVars, pending, timerVars, seenVars,
                 commands, stage>>

-----------------------------------------------------------------------------
(* The tick. *)

Due(s) == {u \in In(s) : left[u] <= 1}

\* (mutant: the register waits for its unit to synchronise)
BugFreed(states) ==
  IF pending # None /\ states[pending] = "SYNCHRONISED" THEN None ELSE pending
\* The register is cleared when its unit synchronised, and is stale when it is offline.
Freed(states) ==
  IF pending # None /\ states[pending] \in {"SYNCHRONISED", "OFFLINE"} THEN None
  ELSE pending

\* A start sequence that is over puts its unit on the bus, and the breaker of a unit opens
\* once it has stayed at its minimum load.
Advance ==
  /\ stage = "inputs" /\ commands = <<>> /\ stage' = "cascade"
  /\ LET up == Due("STARTING")
         off == Due("UNLOADING")
     IN  /\ state' = [u \in Units |-> IF u \in up THEN "SYNCHRONISED"
                                      ELSE IF u \in off THEN "OFFLINE" ELSE state[u]]
         /\ manual' = manual \ up
         /\ ran' = [u \in Units |-> IF u \in up THEN 0 ELSE ran[u]]
         /\ down' = [u \in Units |-> IF u \in off THEN 0 ELSE down[u]]
         /\ idle' = [u \in Units |-> IF u \in off THEN 0 ELSE idle[u]]
         /\ opened' = IF off # {} THEN 0 ELSE opened
  /\ left' = [u \in Units |-> IF left[u] > 0 THEN left[u] - 1 ELSE 0]
  /\ pending' = Freed(state')
  /\ UNCHANGED <<thermal, reserveVars, timerVars, seenVars, commands, inputs>>

\* The standbys that remain are promoted: one hot, one warm and the others cold.
Labels(us) ==
  [u \in us |-> Least(Cardinality({v \in us : Before(v, u)}), COLD)]
Promoted(labels, us, u) ==
  IF Accepts(u)
  THEN [v \in Units |-> IF v \in us THEN Labels(us)[v] ELSE labels[v]]
  ELSE labels

\* The cascade, when the lead unit is loaded: a hot standby is released, or else a
\* commit is forced.
Cascade(loaded) ==
  /\ stage = "cascade" /\ stage' = "commitment"
  /\ LET fires == Cascading /\ loaded /\ OnBus # {}
         releases == fires /\ Standbys # {} /\ pending = None
         first == FirstOf(Standbys)
         rest == Standbys \ {first}
     IN  /\ force' = (fires /\ ~releases /\ Startable # {})
         /\ IF releases
            THEN /\ Release(first, Promoted(thermal, rest, first))
                 /\ initial' = Promoted(initial, rest, first)
            ELSE UNCHANGED <<unitVars, reserveVars, pending>>
  /\ UNCHANGED <<historyVars, timerVars, demand, commands, inputs>>

Capacity(us) == MapThenSumSet(LAMBDA u : Rated[u], us)
Largest(us) == IF us = {} THEN 0 ELSE Max({Rated[u] : u \in us})
FloorViolated(us, d) == Capacity(us) < d + Largest(us)

\* (mutant: one threshold for both)
BugCommitTrigger(d, forced) ==
  \/ forced
  \/ FloorViolated(InReserve, d)
  \/ InReserve # {} /\ 100 * d >= DecommitPct * Capacity(InReserve)
CommitTrigger(d, forced) ==
  \/ forced
  \/ FloorViolated(InReserve, d)
  \/ InReserve # {} /\ 100 * d >= CommitPct * Capacity(InReserve)

\* The last unit of the roster can go.
DecommitTrigger(d) ==
  /\ InReserve # {}
  /\ LET rest == InReserve \ {Max(InReserve)} IN
     /\ rest # {}
     /\ ~FloorViolated(InReserve, d) /\ ~FloorViolated(rest, d)
     /\ 100 * d <= DecommitPct * Capacity(InReserve)
     /\ 100 * d <= RemovalPct * Capacity(rest)

\* The commit path: the first offline unit, unless a start is pending.  The timer of the
\* decommit is left as it is.
CommitPath ==
  /\ IF pending = None THEN EngineStart(FirstOf(Startable))
     ELSE UNCHANGED <<unitVars, pending>>
  /\ UNCHANGED decommit

DecommitPath(d, enabled, descent) ==
  /\ decommit' = Sustained(decommit,
                           enabled /\ commit' < CommitConfirm /\ DecommitTrigger(d),
                           DecommitConfirm)
  /\ IF decommit' = DecommitConfirm THEN CommandStop(Max(InReserve), descent)
     ELSE UNCHANGED unitVars
  /\ UNCHANGED pending

\* evaluate_commitment and what is done with its decision.
Commit(d, enabled, descent) ==
  /\ stage = "commitment" /\ stage' = "contingency"
  /\ demand' = d
  /\ commit' = Sustained(commit, CommitTrigger(d, force), CommitConfirm)
  /\ IF commit' = CommitConfirm /\ Startable # {} THEN CommitPath
     ELSE DecommitPath(d, enabled, descent)
  /\ UNCHANGED <<reserveVars, historyVars, release, armed, force, commands, inputs>>

\* _release_hot_standby_for_contingency: one standby for an episode of sustained risk;
\* and the tick is over.
Contingency(risk) ==
  /\ stage = "contingency" /\ stage' = "idle"
  /\ release' = Sustained(release, risk, ReleaseConfirm)
  /\ IF risk /\ release' = ReleaseConfirm /\ armed /\ pending = None /\ Standbys # {}
     THEN LET first == FirstOf(Standbys) IN
          /\ Release(first, thermal)
          /\ armed' = (state'[first] # "STARTING")
     ELSE /\ armed' = (armed \/ ~risk)
          /\ UNCHANGED <<unitVars, standby, pending>>
  /\ ran' = [u \in Units |-> IF state[u] = "SYNCHRONISED" THEN Least(ran[u] + 1, MinRun)
                             ELSE 0]
  /\ down' = [u \in Units |-> Longer(down[u], MinDown)]
  /\ idle' = [u \in Units |-> Longer(idle[u], WarmUntil)]
  /\ opened' = Least(opened + 1, UnloadTail)
  /\ UNCHANGED <<initial, commit, decommit, seenVars, commands, inputs>>

-----------------------------------------------------------------------------
Init ==
  /\ state = [u \in Units |-> IF u \in Spinning THEN "SYNCHRONISED" ELSE "OFFLINE"]
  /\ thermal = Initial /\ initial = Initial /\ standby = HotStandby
  /\ left = [u \in Units |-> 0] /\ manual = {}
  /\ ran = [u \in Units |-> 0] /\ down = [u \in Units |-> Never]
  /\ idle = [u \in Units |-> Never] /\ opened = UnloadTail
  /\ pending = None
  /\ commit = 0 /\ decommit = 0 /\ release = 0 /\ armed = TRUE
  /\ demand = 0 /\ force = FALSE
  /\ commands = <<>> /\ stage = "idle" /\ inputs = 0

Tick ==
  \/ BeginTick \/ Drain \/ Advance
  \/ \E loaded \in BOOLEAN : Cascade(loaded)
  \/ \E d \in Demands, enabled \in BOOLEAN, descent \in 0 .. Descent :
       Commit(d, enabled, descent)
  \/ \E risk \in BOOLEAN : Contingency(risk)
Outside ==
  \/ \E c \in Orders : Command(c)
  \/ \E u \in Units : UnitTrip(u) \/ \E t \in Thermals : Override(u, t)
  \/ Stage

Next == Tick \/ Outside
Spec == Init /\ [][Next]_vars

\* The run goes on ticking.
FairSpec == Spec /\ WF_vars(Tick)

-----------------------------------------------------------------------------
(* Properties. *)

States == {"OFFLINE", "STARTING", "SYNCHRONISED", "UNLOADING"}

\* Every variable has its type.
TypeOK ==
  /\ state \in [Units -> States] /\ thermal \in [Units -> Thermals]
  /\ left \in [Units -> Nat] /\ manual \subseteq Units
  /\ standby \subseteq Units /\ initial \in [Units -> Thermals]
  /\ ran \in [Units -> 0 .. MinRun] /\ down \in [Units -> Never .. MinDown]
  /\ idle \in [Units -> Never .. WarmUntil] /\ opened \in 0 .. UnloadTail
  /\ pending \in Units \cup {None}
  /\ commit \in 0 .. CommitConfirm /\ decommit \in 0 .. DecommitConfirm
  /\ release \in 0 .. ReleaseConfirm /\ armed \in BOOLEAN
  /\ demand \in Demands \cup {0} /\ force \in BOOLEAN
  /\ commands \in Seq(Orders) /\ inputs \in Nat
  /\ stage \in {"idle", "inputs", "cascade", "commitment", "contingency"}

\* "At most one unit may be in STARTING at any time": of the four paths on which the
\* engine starts units none does while a start is pending, between ticks the register
\* holds the unit that is starting, and a hot standby is off until it is released.
SequentialStarts ==
  /\ standby \subseteq In("OFFLINE")
  /\ In("STARTING") \ manual \subseteq {pending}
  /\ stage = "idle" /\ pending # None => pending \in In("STARTING")

Acts(c) ==
  \/ c.action = "start" /\ c.unit \notin standby /\ Accepts(c.unit)
  \/ c.action = "trip" /\ c.unit \in Standbys /\ Accepts(c.unit)
  \/ c.action = "trip" /\ state[c.unit] # "OFFLINE"

\* A command that was accepted acts on its unit when it is drained, unless another one
\* for the same unit comes first: none is dropped after its caller was told "ok".
AcceptedCommandsAct ==
  stage = "idle" =>
    \A i \in DOMAIN commands :
      (\A k \in 1 .. i - 1 : commands[k].unit # commands[i].unit) => Acts(commands[i])

\* Every start and every controlled stop comes to its end, and the register is freed.
SequencesEnd ==
  /\ \A u \in Units : []<>(state[u] \in {"OFFLINE", "SYNCHRONISED"})
  /\ []<>(pending = None)

\* The thresholds leave room between a stop and the next start: once the demand stays as
\* it is and the lead unit is not loaded, the fleet settles, and either it carries the
\* demand with its reserve or every unit but the hot standbys is on the bus.
FleetSettles ==
  (<>[][FALSE]_demand /\ <>[]~force) =>
     <>[](/\ In("STARTING") \cup In("UNLOADING") = {}
          /\ CommitTrigger(demand, FALSE) => In("SYNCHRONISED") = Units \ standby)
=============================================================================
