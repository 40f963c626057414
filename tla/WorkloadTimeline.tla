-------------------------- MODULE WorkloadTimeline --------------------------
(***************************************************************************)
(* The event timeline of a run (RunContext and RunManager in               *)
(* runtime/run_manager.py): one list of workload events, sorted by         *)
(* timestamp, and a cursor behind which they have been applied.  Three     *)
(* sources write to it: the scenario, whose cluster admissions             *)
(* scenario_factory.py sums up before the run starts; the internal Slurm   *)
(* scheduler, advanced at each tick and at each runtime submission; and    *)
(* snapshots of external jobs, ingested between ticks.  GpuLoad is what    *)
(* the events do.                                                          *)
(*                                                                         *)
(* A tick is one synchronous call.  Its loops (submit what is due, advance *)
(* the scheduler, schedule, apply what is due) are the values of stage,    *)
(* and an iteration is a step; nothing else interleaves with them.         *)
(* Appending and sorting one event at a time gives the list that the code  *)
(* gets from extend and one stable sort.  The scheduler is abstract here:  *)
(* which jobs end how, are preempted or start is open (SlurmScheduler).    *)
(***************************************************************************)
EXTENDS GpuLoad, Sequences

CONSTANTS
    Cluster,     \* the aggregate job of the scripted cluster
    External,    \* jobs whose snapshots are ingested
    Internal,    \* jobs of the internal scheduler
    Arrival,     \* arrival_time of the authored internal jobs
    Duration,    \* of an internal job
    Outcome,     \* how each internal job ends that runs to its end
    Totals,      \* the admitted nodes of the cluster, by instant
    Dt,          \* TICK_INTERVAL_SIM_SECONDS
    EndTime,     \* end_sim_time
    MaxEvents    \* bound of the exploration

ASSUME JobsAssumption ==
    /\ Jobs = External \cup Internal \cup {Cluster}
    /\ External \cap Internal = {} /\ Cluster \notin External \cup Internal
    /\ Arrival \in [DOMAIN Arrival -> Nat] /\ DOMAIN Arrival \subseteq Internal
ASSUME OutcomeAssumption ==
    Outcome \in [Internal -> {"JOB_END", "JOB_FAILED", "JOB_TIMEOUT"}]
ASSUME TimesAssumption ==
    {Duration, Dt, EndTime} \subseteq Nat \ {0} /\ MaxEvents \in Nat
ASSUME TotalsAssumption == Totals \subseteq [0 .. EndTime -> Nat]

VARIABLES
    total,       \* the admitted nodes the scenario was written with
    events,      \* ctx.events
    cursor,      \* ctx._next_event_idx
    simTime,     \* ctx.sim_time
    stage,       \* the loop that runs, "idle" between calls
    ticking,     \* whether the caller is step or a runtime submission
    known,       \* ctx._slurm_job_states, "NONE" when there is no entry
    specs,       \* the authored jobs that are still to be submitted
    engine,      \* _state of the internal scheduler, "NEW" for an unknown job
    endAt        \* end_time of the allocations

engineVars == <<specs, engine, endAt>>
vars == <<total, events, cursor, simTime, stage, ticking, known, engineVars, loadVars>>

Event(job, kind, at, n) == [job |-> job, kind |-> kind, at |-> at, nodes |-> n]

-----------------------------------------------------------------------------
(* The list. *)

\* (mutant: the list is not sorted again)
BugInsert(e) == Append(events, e)
\* append and a stable sort by timestamp.
Insert(e) ==
    LET before == Cardinality({i \in DOMAIN events : events[i].at <= e.at})
    IN  SubSeq(events, 1, before) \o <<e>> \o SubSeq(events, before + 1, Len(events))

\* The aggregate events of the scenario: one where the total changes, STARTING
\* for the first, JOB_END at zero and SCALE otherwise.
Before(t, n) == IF n = 0 THEN 0 ELSE t[n - 1]
Changes(t) == {n \in 0 .. EndTime : t[n] # Before(t, n)}
Kind(t, n) ==
    CASE t[n] = 0 -> "JOB_END"
      [] t[n] > 0 /\ (\E m \in 0 .. n - 1 : t[m] > 0) -> "SCALE"
      [] OTHER -> "STARTING"
Nth(S, i) == CHOOSE n \in S : Cardinality({m \in S : m < n}) = i - 1
Aggregate(t) ==
    LET event(n) == Event(Cluster, Kind(t, n), n, t[n])
    IN  [i \in 1 .. Cardinality(Changes(t)) |-> event(Nth(Changes(t), i))]

\* (mutant: an event of this very instant waits for the next tick)
BugDue == cursor < Len(events) /\ events[cursor + 1].at < simTime
Due == cursor < Len(events) /\ events[cursor + 1].at <= simTime

-----------------------------------------------------------------------------
(* Requests between ticks. *)

Rank(kind) ==
    CASE kind = "QUEUED" -> 0
      [] kind = "RUNNING" -> 1
      [] kind \in {"JOB_END", "CANCELLED"} -> 2
      [] OTHER -> -1

Duplicate(j, kind) == \E i \in DOMAIN events : events[i].job = j /\ events[i].kind = kind
\* (mutant: a job may end twice)
BugStale(j, kind) == Rank(known[j]) > Rank(kind)
Stale(j, kind) ==
    \/ Rank(known[j]) > Rank(kind)
    \/ Rank(known[j]) = 2 /\ Rank(kind) = 2

\* (mutant: the snapshot keeps the time of its caller)
BugStamp(when) == when
Stamp(when) == IF when < simTime THEN simTime ELSE when

\* ingest_workload_signal: a snapshot that is neither a repetition nor late.
Ingest(j, kind, when) ==
    /\ stage = "idle" /\ simTime < EndTime
    /\ Len(events) < MaxEvents
    /\ ~Duplicate(j, kind) /\ ~Stale(j, kind)
    /\ events' = Insert(Event(j, kind, Stamp(when), 1))
    /\ known' = [known EXCEPT ![j] = kind]
    /\ UNCHANGED <<total, cursor, simTime, stage, ticking, engineVars, loadVars>>

\* submit_internal_slurm_job: the job is queued now, and the scheduler advances.
SubmitNow(j) ==
    /\ stage = "idle" /\ simTime < EndTime
    /\ Len(events) < MaxEvents
    /\ engine[j] = "NEW"
    /\ engine' = [engine EXCEPT ![j] = "PENDING"]
    /\ events' = Insert(Event(j, "QUEUED", simTime, 1))
    /\ stage' = "finish" /\ ticking' = FALSE
    /\ UNCHANGED <<total, cursor, simTime, known, specs, endAt, loadVars>>

-----------------------------------------------------------------------------
(* step, and the advance of the scheduler. *)

BeginStep ==
    /\ stage = "idle" /\ simTime < EndTime
    /\ stage' = "submit" /\ ticking' = TRUE
    /\ UNCHANGED <<total, events, cursor, simTime, known, engineVars, loadVars>>

\* The next authored job that is due, as of its own arrival time; a job_id that a
\* runtime submission has taken makes the submission, and so the tick, raise.
SubmitDue(j) ==
    /\ stage = "submit"
    /\ j \in specs /\ Arrival[j] <= simTime
    /\ \A k \in specs : Arrival[j] <= Arrival[k]
    /\ specs' = specs \ {j}
    /\ IF engine[j] = "NEW"
       THEN /\ engine' = [engine EXCEPT ![j] = "PENDING"]
            /\ events' = Insert(Event(j, "QUEUED", Arrival[j], 1))
            /\ UNCHANGED stage
       ELSE stage' = "raised" /\ UNCHANGED <<engine, events>>
    /\ UNCHANGED <<total, cursor, simTime, ticking, known, endAt, loadVars>>

AllSubmitted ==
    /\ stage = "submit"
    /\ \A j \in specs : Arrival[j] > simTime
    /\ stage' = "finish"
    /\ UNCHANGED <<total, events, cursor, simTime, ticking, known, engineVars, loadVars>>

Over == {j \in Internal : engine[j] = "RUNNING" /\ endAt[j] <= simTime}

\* A job whose time is up ends as of its end_time.
FinishJob(j) ==
    /\ stage = "finish" /\ j \in Over
    /\ engine' = [engine EXCEPT ![j] = "ENDED"]
    /\ events' = Insert(Event(j, Outcome[j], endAt[j], 1))
    /\ UNCHANGED <<total, cursor, simTime, stage, ticking, known, specs, endAt, loadVars>>

\* A running job gives way to a pending one and may go back to the queue; the QUEUED
\* that then follows changes no load and is left out.
PreemptJob(j) ==
    /\ stage = "finish" /\ Over = {}
    /\ engine[j] = "RUNNING" /\ \E k \in Internal : engine[k] = "PENDING"
    /\ Len(events) < MaxEvents
    /\ engine' \in {[engine EXCEPT ![j] = s] : s \in {"PENDING", "ENDED"}}
    /\ events' = Insert(Event(j, "JOB_PREEMPTED", simTime, 1))
    /\ UNCHANGED <<total, cursor, simTime, stage, ticking, known, specs, endAt, loadVars>>

Finished ==
    /\ stage = "finish" /\ Over = {}
    /\ stage' = "schedule"
    /\ UNCHANGED <<total, events, cursor, simTime, ticking, known, engineVars, loadVars>>

\* The scheduler's RUNNING reaches the list as STARTING.
StartJob(j) ==
    /\ stage = "schedule"
    /\ engine[j] = "PENDING"
    /\ Len(events) < MaxEvents
    /\ engine' = [engine EXCEPT ![j] = "RUNNING"]
    /\ endAt' = [endAt EXCEPT ![j] = simTime + Duration]
    /\ events' = Insert(Event(j, "STARTING", simTime, 1))
    /\ UNCHANGED <<total, cursor, simTime, stage, ticking, known, specs, loadVars>>

Scheduled ==
    /\ stage = "schedule"
    /\ stage' = IF ticking THEN "apply" ELSE "idle"
    /\ UNCHANGED <<total, events, cursor, simTime, ticking, known, engineVars, loadVars>>

\* _apply_due_events, one event.
ApplyDue ==
    /\ stage = "apply" /\ Due
    /\ ApplySignal(events[cursor + 1])
    /\ cursor' = cursor + 1
    /\ UNCHANGED <<total, events, simTime, stage, ticking, known, engineVars>>

\* evaluate_tick and the clock.
Evaluate ==
    /\ stage = "apply" /\ ~Due
    /\ AdvanceLoad(simTime, Dt)
    /\ simTime' = simTime + Dt
    /\ stage' = "idle"
    /\ UNCHANGED <<total, events, cursor, ticking, known, engineVars>>

-----------------------------------------------------------------------------
Init ==
    /\ total \in Totals
    /\ events = Aggregate(total)
    /\ cursor = 0 /\ simTime = 0
    /\ stage = "idle" /\ ticking = FALSE
    /\ known = [j \in External |-> "NONE"]
    /\ specs = DOMAIN Arrival
    /\ engine = [j \in Internal |-> "NEW"]
    /\ endAt = [j \in Internal |-> 0]
    /\ LoadInit

Snapshots == {"QUEUED", "RUNNING", "JOB_END", "CANCELLED"}

Step ==
    \/ BeginStep \/ AllSubmitted \/ Finished \/ Scheduled \/ ApplyDue \/ Evaluate
    \/ \E j \in Internal : SubmitDue(j) \/ FinishJob(j) \/ PreemptJob(j) \/ StartJob(j)

\* A caller passes the simulated time of the moment, or an older one.
Request ==
    \/ \E j \in External, kind \in Snapshots, when \in {0, simTime} : Ingest(j, kind, when)
    \/ \E j \in Internal : SubmitNow(j)

Next == Step \/ Request
Spec == Init /\ [][Next]_vars

\* The loop of the run goes on ticking.
FairSpec == Spec /\ WF_vars(Step)

-----------------------------------------------------------------------------
(* Properties. *)

EventKinds == Snapshots \cup {"STARTING", "SCALE", "JOB_FAILED", "JOB_TIMEOUT",
                              "JOB_PREEMPTED"}
TimelineEvent == [job : Jobs, kind : EventKinds, at : Nat, nodes : Nat]

\* Every variable has its type; no ramp goes past full power.
TypeOK ==
    /\ events \in Seq(TimelineEvent) /\ cursor \in 0 .. Len(events)
    /\ simTime \in Nat
    /\ stage \in {"idle", "submit", "finish", "schedule", "apply", "raised"}
    /\ ticking \in BOOLEAN /\ specs \subseteq DOMAIN Arrival
    /\ known \in [External -> Snapshots \cup {"NONE"}]
    /\ engine \in [Internal -> {"NEW", "PENDING", "RUNNING", "ENDED"}]
    /\ endAt \in [Internal -> Nat]
    /\ LoadTypeOK

\* "a newly queued event cannot land behind the already-consumed event cursor": no
\* sort moves an event across the cursor, so none is applied twice or skipped.
ConsumedIsFixed ==
    [][/\ cursor' >= cursor
       /\ SubSeq(events', 1, cursor) = SubSeq(events, 1, cursor)]_vars

\* Between calls, exactly the events up to the last tick have been applied.
DueExactlyApplied ==
    stage = "idle" =>
        \A i \in DOMAIN events : i <= cursor <=> events[i].at <= simTime - Dt

\* "never let a delayed RUNNING snapshot resurrect a terminal job": nothing of an
\* external job comes after its end.
TerminalIsLast ==
    \A i, k \in DOMAIN events :
        (/\ i < k /\ events[i].job = events[k].job
         /\ events[i].job \in External)
            => Rank(events[i].kind) < 2

\* Once its events are consumed, an internal job loads the GPUs exactly while the
\* scheduler has it running.
LoadFollowsEngine ==
    stage = "idle" => \A j \in Internal :
        (\A i \in DOMAIN events : i > cursor => events[i].job # j)
            => (KeysOf(j) # {} <=> engine[j] = "RUNNING")

\* After each tick the nodes of the cluster and its cohorts are the nodes the
\* scenario admitted at that time, however it grew and shrank.
ClusterLoadIsScripted ==
    (stage = "idle" /\ simTime >= Dt) => NodesOf(Cluster) = total[simTime - Dt]

\* An envelope without an end belongs to a load: otherwise it would keep the last
\* power of the load as heat for ever.
EnvelopesEnd ==
    \A k \in DOMAIN envelope : envelope[k] = Open => k \in DOMAIN load

\* The load that is left behind, and cooled, is the scheduled one, for every source of
\* events at once.
LoadFollows == TypeOK /\ LoadFollowsEngine /\ ClusterLoadIsScripted /\ EnvelopesEnd

\* A snapshot that was accepted in time is applied, unless a tick raises.
EveryAcceptedApplied ==
    \A j \in External, kind \in Snapshots :
        (\E i \in DOMAIN events :
            events[i].job = j /\ events[i].kind = kind /\ events[i].at <= EndTime - Dt)
        ~> \/ stage = "raised"
           \/ \E i \in 1 .. cursor : events[i].job = j /\ events[i].kind = kind
=============================================================================
