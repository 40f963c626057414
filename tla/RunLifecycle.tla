---------------------------- MODULE RunLifecycle ----------------------------
(***************************************************************************)
(* RunManager, RunContext and WebSocketHub (runtime/run_manager.py): the   *)
(* life of the runs of one server process and of the sockets that watch    *)
(* them.                                                                   *)
(*                                                                         *)
(* Each run has one asyncio task, _drive.  Tasks and request handlers take *)
(* turns on one event loop, so the code between two awaits is one step     *)
(* here and pc[r] is the await at which the task of run r stands:          *)
(*   created    the task exists and has not run yet                        *)
(*   waiting    at _pause_event.wait(), the event clear                    *)
(*   woken      the event was set, the task has not resumed yet            *)
(*   sending    in broadcast, waiting for the sends of one tick            *)
(*   sleeping   in the advisory executor or in the sleep of the tick       *)
(*   failing    in append_error, after an exception                        *)
(*   evaluating in get_eval_rows, get_tick_dicts or finalize               *)
(*   persisting in persist_completed_hook                                  *)
(*   notifying  in notify_run_complete                                     *)
(*   gone       the task has returned or raised                            *)
(*                                                                         *)
(* A tick is a number: what the physics computes is left out, but for the  *)
(* two flags of a tick the loop looks at.  Sockets are clients; each opens *)
(* once, for the run Target says.                                          *)
(***************************************************************************)
EXTENDS Integers, FiniteSets

CONSTANTS
    Runs, Clients,
    Target,      \* [Clients -> Runs], the run_id a socket asks for
    EndTick,     \* by run: end_sim_time / TICK_INTERVAL_SIM_SECONDS
    Islanding,   \* runs whose ticks may be protection_provisional
    Collapsing,  \* islanding runs that may collapse
    Raising,     \* runs whose tick may raise
    FinalizeRaises, \* runs for which sink.finalize may raise
    EarlyPause,  \* whether callers may pause a run before its first step
    Stalled      \* clients whose receive buffer never drains

ASSUME EndTickAssumption == EndTick \in [Runs -> Nat \ {0}]
ASSUME TargetAssumption == Target \in [Clients -> Runs]
ASSUME FlagsAssumption ==
    /\ FinalizeRaises \subseteq Runs /\ EarlyPause \in BOOLEAN
    /\ Collapsing \subseteq Islanding

VARIABLES
    pc,
    active,      \* the keys of _contexts and _tasks
    tick,        \* sim_time / TICK_INTERVAL_SIM_SECONDS
    cancelled,   \* ctx.cancelled
    paused,      \* ctx.paused
    gate,        \* ctx._pause_event is set
    collapse,    \* island_collapsed of the tick being sent
    completed,   \* the keys of _completed
    provisional, \* _run_provisional, one flag for the process
    latest,      \* _latest_ticks, 0 when there is no entry
    subs,        \* the sockets in _subscribers (each under its Target)
    pending,     \* the sends of a run that have not returned
    socket,      \* "off", "open" or "closed"
    seen,        \* the last tick a client has received
    told,        \* clients that received run_complete
    stopped,     \* history: runs cancelled by a caller
    raised,      \* history: runs ended by an exception
    sincePause   \* history: steps since the last pause_run, up to 2

loopVars == <<tick, cancelled, collapse>>
pauseVars == <<paused, gate, sincePause>>
hubVars == <<latest, subs, socket, seen, told>>
history == <<stopped, raised>>
vars == <<pc, active, completed, provisional, pending, loopVars, pauseVars,
          hubVars, history>>

IsComplete(r) == cancelled[r] \/ tick[r] >= EndTick[r]
Subscribers(r) == {c \in subs : Target[c] = r}

-----------------------------------------------------------------------------
(* The requests. *)

StartRun(r) ==
    /\ pc[r] = "new"
    /\ provisional' = FALSE
    /\ active' = active \cup {r}
    /\ pc' = [pc EXCEPT ![r] = "created"]
    /\ UNCHANGED <<completed, pending, loopVars, pauseVars, hubVars, history>>

\* _pause_event.set(): a task that waits becomes ready; it does not look at the
\* event again.
Wake(r) == pc' = IF pc[r] = "waiting" THEN [pc EXCEPT ![r] = "woken"] ELSE pc

\* (mutant: the pause event is left alone)
BugCancelRun(r) ==
    /\ r \in active
    /\ cancelled' = [cancelled EXCEPT ![r] = TRUE]
    /\ stopped' = stopped \cup {r}
    /\ UNCHANGED <<pc, gate, active, completed, provisional, pending, tick,
                   collapse, paused, sincePause, hubVars, raised>>
\* cancel_run up to its await of the task.
CancelRun(r) ==
    /\ r \in active
    /\ cancelled' = [cancelled EXCEPT ![r] = TRUE]
    /\ gate' = [gate EXCEPT ![r] = TRUE]
    /\ Wake(r)
    /\ stopped' = stopped \cup {r}
    /\ UNCHANGED <<active, completed, provisional, pending, tick, collapse,
                   paused, sincePause, hubVars, raised>>

PauseRun(r) ==
    /\ r \in active /\ ~IsComplete(r)
    /\ EarlyPause \/ pc[r] # "created"
    /\ paused' = [paused EXCEPT ![r] = TRUE]
    /\ gate' = [gate EXCEPT ![r] = FALSE]
    /\ sincePause' = [sincePause EXCEPT ![r] = 0]
    /\ UNCHANGED <<pc, active, completed, provisional, pending, loopVars,
                   hubVars, history>>

ResumeRun(r) ==
    /\ r \in active /\ ~IsComplete(r)
    /\ paused' = [paused EXCEPT ![r] = FALSE]
    /\ gate' = [gate EXCEPT ![r] = TRUE]
    /\ Wake(r)
    /\ UNCHANGED <<active, completed, provisional, pending, loopVars,
                   sincePause, hubVars, history>>

\* The socket handler accepts and subscribes whatever the run_id.
Subscribe(c) ==
    /\ socket[c] = "off"
    /\ socket' = [socket EXCEPT ![c] = "open"]
    /\ subs' = subs \cup {c}
    /\ UNCHANGED <<pc, active, completed, provisional, pending, loopVars,
                   pauseVars, latest, seen, told, history>>

Disconnect(c) ==
    /\ socket[c] = "open"
    /\ socket' = [socket EXCEPT ![c] = "closed"]
    /\ subs' = subs \ {c}
    /\ UNCHANGED <<pc, active, completed, provisional, pending, loopVars,
                   pauseVars, latest, seen, told, history>>

-----------------------------------------------------------------------------
(* The loop of _drive. *)

\* (mutant: only task.cancel() skips the verdict)
BugLeaveLoop(r, isCancelled) ==
    /\ pc' = [pc EXCEPT ![r] = "evaluating"]
    /\ active' = active
\* From the end of the loop to the next await: a run whose cancelled flag is set
\* has no verdict, leaves the active maps and is done.
LeaveLoop(r, isCancelled) ==
    /\ pc' = [pc EXCEPT ![r] = IF isCancelled THEN "gone" ELSE "evaluating"]
    /\ active' = IF isCancelled THEN active \ {r} ELSE active

\* From the return of broadcast to the next await.
AfterBroadcast(r, collapsed) ==
    IF collapsed
    THEN /\ cancelled' = [cancelled EXCEPT ![r] = TRUE]
         /\ LeaveLoop(r, TRUE)
    ELSE /\ pc' = [pc EXCEPT ![r] = "sleeping"]
         /\ UNCHANGED <<cancelled, active>>

\* (mutant: the loop does not look at the pause event)
BugResumes(r) ==
    \/ pc[r] \in {"created", "sleeping"} /\ ~IsComplete(r)
    \/ pc[r] = "woken"
\* The task goes on with a tick: at its first step it sets the pause event; a
\* woken task does not check is_complete again.
Resumes(r) ==
    \/ pc[r] = "created" /\ ~IsComplete(r)
    \/ pc[r] = "sleeping" /\ ~IsComplete(r) /\ gate[r]
    \/ pc[r] = "woken"

\* step, append, and broadcast up to its gather: the tick is cached and sent to
\* the sockets subscribed at this moment.
Tick(r) ==
    /\ Resumes(r)
    /\ gate' = [gate EXCEPT ![r] = @ \/ pc[r] = "created"]
    /\ tick' = [tick EXCEPT ![r] = @ + 1]
    /\ latest' = [latest EXCEPT ![r] = tick[r] + 1]
    /\ sincePause' = [sincePause EXCEPT ![r] = IF @ < 2 THEN @ + 1 ELSE 2]
    /\ \E islanded \in {FALSE, (r \in Islanding)} :
          /\ provisional' = (provisional \/ islanded)
          /\ \E collapsed \in {FALSE, (islanded /\ r \in Collapsing)} :
                IF Subscribers(r) = {}
                THEN AfterBroadcast(r, collapsed) /\ UNCHANGED collapse
                ELSE /\ pc' = [pc EXCEPT ![r] = "sending"]
                     /\ collapse' = [collapse EXCEPT ![r] = collapsed]
                     /\ UNCHANGED <<cancelled, active>>
    /\ pending' = [pending EXCEPT ![r] = Subscribers(r)]
    /\ UNCHANGED <<completed, paused, subs, socket, seen, told, stopped, raised>>

\* The tick raises before it is cached, in evaluate_tick or in sink.append.
Raise(r) ==
    /\ r \in Raising
    /\ Resumes(r)
    /\ gate' = [gate EXCEPT ![r] = @ \/ pc[r] = "created"]
    /\ pc' = [pc EXCEPT ![r] = "failing"]
    /\ raised' = raised \cup {r}
    /\ UNCHANGED <<active, completed, provisional, pending, loopVars, paused,
                   sincePause, hubVars, stopped>>

Wait(r) ==
    /\ pc[r] = "sleeping" /\ ~IsComplete(r) /\ ~gate[r]
    /\ pc' = [pc EXCEPT ![r] = "waiting"]
    /\ UNCHANGED <<active, completed, provisional, pending, loopVars, pauseVars,
                   hubVars, history>>

Sent(r) ==
    /\ pc[r] = "sending"
    /\ pending[r] = {}
    /\ AfterBroadcast(r, collapse[r])
    /\ UNCHANGED <<completed, provisional, pending, tick, collapse, pauseVars,
                   hubVars, history>>

Exit(r) ==
    /\ \/ pc[r] \in {"created", "sleeping"} /\ IsComplete(r)
       \/ pc[r] = "failing"
    /\ gate' = [gate EXCEPT ![r] = @ \/ pc[r] = "created"]
    /\ LeaveLoop(r, cancelled[r])
    /\ UNCHANGED <<completed, provisional, pending, loopVars, paused,
                   sincePause, hubVars, history>>

-----------------------------------------------------------------------------
(* The sends of a broadcast, each bounded by _SEND_TIMEOUT_S. *)

Deliver(r, c) ==
    /\ pc[r] = "sending" /\ c \in pending[r]
    /\ socket[c] = "open" /\ c \notin Stalled
    /\ seen' = [seen EXCEPT ![c] = latest[r]]
    /\ pending' = [pending EXCEPT ![r] = @ \ {c}]
    /\ UNCHANGED <<pc, active, completed, provisional, loopVars, pauseVars,
                   latest, subs, socket, told, history>>

\* The send times out or raises: the socket is unsubscribed and stays open.
Drop(r, c) ==
    /\ pc[r] = "sending" /\ c \in pending[r]
    /\ subs' = subs \ {c}
    /\ pending' = [pending EXCEPT ![r] = @ \ {c}]
    /\ UNCHANGED <<pc, active, completed, provisional, loopVars, pauseVars,
                   latest, socket, seen, told, history>>

-----------------------------------------------------------------------------
(* The end of a run that has a verdict. *)

Store(r) ==
    /\ pc[r] = "evaluating"
    /\ completed' = completed \cup {r}
    /\ pc' = [pc EXCEPT ![r] = "persisting"]
    /\ UNCHANGED <<active, provisional, pending, loopVars, pauseVars, hubVars,
                   history>>

\* finalize is awaited outside of any try: what follows it is skipped.
FinalizeFails(r) ==
    /\ r \in FinalizeRaises
    /\ pc[r] = "evaluating"
    /\ pc' = [pc EXCEPT ![r] = "gone"]
    /\ UNCHANGED <<active, completed, provisional, pending, loopVars, pauseVars,
                   hubVars, history>>

\* (mutant: subscribers are told as soon as the loop has ended)
BugDeregister(r) ==
    /\ pc[r] \in {"evaluating", "persisting"}
    /\ active' = active \ {r}
    /\ latest' = [latest EXCEPT ![r] = 0]
    /\ subs' = subs \ Subscribers(r)
    /\ pending' = [pending EXCEPT ![r] = Subscribers(r)]
    /\ pc' = [pc EXCEPT ![r] = IF Subscribers(r) = {} THEN "gone" ELSE "notifying"]
    /\ UNCHANGED <<completed, provisional, loopVars, pauseVars, socket, seen,
                   told, history>>

\* (mutant: the subscriber set is dropped with the run's context)
BugDeregisterSilently(r) ==
    /\ pc[r] = "persisting"
    /\ active' = active \ {r}
    /\ latest' = [latest EXCEPT ![r] = 0]
    /\ pc' = [pc EXCEPT ![r] = "gone"]
    /\ UNCHANGED <<completed, provisional, pending, subs, loopVars, pauseVars,
                   socket, seen, told, history>>
\* From the return of the hook to the gather of notify_run_complete.
Deregister(r) ==
    /\ pc[r] = "persisting"
    /\ active' = active \ {r}
    /\ latest' = [latest EXCEPT ![r] = 0]
    /\ subs' = subs \ Subscribers(r)
    /\ pending' = [pending EXCEPT ![r] = Subscribers(r)]
    /\ pc' = [pc EXCEPT ![r] = IF Subscribers(r) = {} THEN "gone" ELSE "notifying"]
    /\ UNCHANGED <<completed, provisional, loopVars, pauseVars, socket, seen,
                   told, history>>

Tell(r, c) ==
    /\ pc[r] = "notifying" /\ c \in pending[r]
    /\ socket[c] = "open" /\ c \notin Stalled
    /\ told' = told \cup {c}
    /\ socket' = [socket EXCEPT ![c] = "closed"]
    /\ pending' = [pending EXCEPT ![r] = @ \ {c}]
    /\ UNCHANGED <<pc, active, completed, provisional, loopVars, pauseVars,
                   latest, subs, seen, history>>

\* The send times out or raises, and so may the close that is tried after it.
TellFails(r, c) ==
    /\ pc[r] = "notifying" /\ c \in pending[r]
    /\ socket' \in {socket, [socket EXCEPT ![c] = "closed"]}
    /\ pending' = [pending EXCEPT ![r] = @ \ {c}]
    /\ UNCHANGED <<pc, active, completed, provisional, loopVars, pauseVars,
                   latest, subs, seen, told, history>>

Notified(r) ==
    /\ pc[r] = "notifying"
    /\ pending[r] = {}
    /\ pc' = [pc EXCEPT ![r] = "gone"]
    /\ UNCHANGED <<active, completed, provisional, pending, loopVars, pauseVars,
                   hubVars, history>>

-----------------------------------------------------------------------------
Init ==
    /\ pc = [r \in Runs |-> "new"]
    /\ active = {} /\ completed = {} /\ provisional = FALSE
    /\ tick = [r \in Runs |-> 0]
    /\ cancelled = [r \in Runs |-> FALSE]
    /\ collapse = [r \in Runs |-> FALSE]
    /\ paused = [r \in Runs |-> FALSE]
    /\ gate = [r \in Runs |-> FALSE]
    /\ sincePause = [r \in Runs |-> 0]
    /\ latest = [r \in Runs |-> 0]
    /\ pending = [r \in Runs |-> {}]
    /\ subs = {} /\ told = {}
    /\ socket = [c \in Clients |-> "off"]
    /\ seen = [c \in Clients |-> 0]
    /\ stopped = {} /\ raised = {}

Request(r) == StartRun(r) \/ CancelRun(r) \/ PauseRun(r) \/ ResumeRun(r)
Send(r, c) == Deliver(r, c) \/ Drop(r, c) \/ Tell(r, c) \/ TellFails(r, c)
Drive(r) ==
    \/ Tick(r) \/ Raise(r) \/ Wait(r) \/ Sent(r) \/ Exit(r)
    \/ Store(r) \/ FinalizeFails(r) \/ Deregister(r) \/ Notified(r)

Next ==
    \/ \E r \in Runs : Request(r) \/ Drive(r)
    \/ \E c \in Clients : Subscribe(c) \/ Disconnect(c)
    \/ \E r \in Runs, c \in Clients : Send(r, c)

Spec == Init /\ [][Next]_vars

\* asyncio resumes every task that is ready, and every send returns or times out.
FairSpec ==
    /\ Spec
    /\ \A r \in Runs : WF_vars(Drive(r))
    /\ \A r \in Runs, c \in Clients : WF_vars(Send(r, c))
-----------------------------------------------------------------------------
(* Properties. *)

Places == {"new", "created", "waiting", "woken", "sending", "sleeping",
           "failing", "evaluating", "persisting", "notifying", "gone"}

\* Every variable has its type, and no run goes past its end_sim_time.
TypeOK ==
    /\ pc \in [Runs -> Places]
    /\ active \subseteq Runs /\ completed \subseteq Runs
    /\ provisional \in BOOLEAN
    /\ tick \in [Runs -> Nat] /\ \A r \in Runs : tick[r] <= EndTick[r]
    /\ latest \in [Runs -> Nat]
    /\ cancelled \in [Runs -> BOOLEAN] /\ collapse \in [Runs -> BOOLEAN]
    /\ paused \in [Runs -> BOOLEAN] /\ gate \in [Runs -> BOOLEAN]
    /\ sincePause \in [Runs -> 0 .. 2]
    /\ pending \in [Runs -> SUBSET Clients]
    /\ subs \subseteq Clients /\ told \subseteq Clients
    /\ socket \in [Clients -> {"off", "open", "closed"}]
    /\ seen \in [Clients -> Nat]
    /\ stopped \subseteq Runs /\ raised \subseteq Runs

\* "Done AFTER verdict/CompletedRun are stored so the client's immediate GET
\* /runs/{id}/result call finds the data ready": the result of a run whose
\* client was told is stored, and the run is not reported as active any more.
ToldFindsResult ==
    \A c \in told : Target[c] \in completed /\ Target[c] \notin active

\* A run that a stop or a collapse cut short has no verdict: every stored result
\* that no exception ended covers all the ticks of its run.
NoVerdictOnCutShort ==
    \A r \in completed : r \in raised \/ tick[r] >= EndTick[r]

\* ctx.paused is what GET /runs/{id} reports, _pause_event is what the loop obeys:
\* they agree on every run whose loop has begun and that is not being stopped.
StatusTellsGate ==
    \A r \in active : (pc[r] # "created" \/ paused[r]) /\ ~cancelled[r]
        => paused[r] = ~gate[r]

\* "No in-progress tick is aborted": a pause of a run that is not being stopped
\* lets at most one more tick begin, that of a loop a resume had just woken.
PauseHolds == \A r \in Runs : (paused[r] /\ ~cancelled[r]) => sincePause[r] <= 1

\* A paused run is one that is told to be paused, and it stays so.
PauseKept == StatusTellsGate /\ PauseHolds

\* A client that watches a run receives its ticks in order, with none left out.
TicksInOrder ==
    [][\A c \in Clients : (seen[c] > 0 /\ seen'[c] # seen[c])
            => seen'[c] = seen[c] + 1]_vars

\* "Send a run_complete sentinel to every subscriber": when a run leaves the
\* active maps and no caller stopped it, all its subscribers are being told.
SubscribersTold ==
    [][\A r \in active \ stopped : r \notin active'
            => Subscribers(r) \subseteq pending'[r]]_vars

\* Whoever watches a run sees its ticks in order and is told of its end, with stops,
\* stalls and disconnections between any two sends.
WatchersServed == TicksInOrder /\ SubscribersTold

\* A cancelled run ends, and with it the cancel request that awaits its task; a run
\* whose finalize raises stays in the maps for ever.
CancelEnds == \A r \in Runs \ FinalizeRaises : (r \in stopped) ~> (r \notin active)

\* A run ends unless it is left paused, whatever the sockets that watch it do.
UnpausedEnds ==
    \A r \in Runs \ FinalizeRaises :
        (r \in active) ~> (r \notin active \/ paused[r])

\* No run is left behind, by a stop that races with a pause or by a stalled socket.
RunsEnd == CancelEnds /\ UnpausedEnds
=============================================================================
