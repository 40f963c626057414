--------------------------- MODULE TimeseriesSink ---------------------------
(***************************************************************************)
(* SqlitePersistedTimeseriesSink (runtime/persistence.py), shared by the   *)
(* runs of a process, and the end of a run as _drive goes through it.      *)
(*                                                                         *)
(* Ticks go through a bounded queue that drops when it is full, control    *)
(* events through one that has no bound; a drain task per queue writes     *)
(* them one at a time.  A run that has ended joins the tick queue, reads   *)
(* its rows, evaluates its verdict, joins both queues and writes it.  A    *)
(* queue's join returns once its count of unfinished items has been zero   *)
(* after the call, so the step that brings it to zero releases everyone    *)
(* who waits.                                                              *)
(***************************************************************************)
EXTENDS Verdict, Sequences

CONSTANTS
    Runs,
    EndTick,      \* by run: its ticks when nothing cuts it short
    QueueMax,     \* QUEUE_MAXSIZE
    Asserted,     \* the assertions a run may have
    Marks,        \* the sets of ticks at which its condition may hold
    MaxAudit,     \* bound of the exploration: control events of one run
    WriteFails,   \* the runs for whose rows an INSERT may raise
    Crash,        \* the runs a tick of which may raise
    K             \* the duration persistent_fuel_cell_deficit asks for, in ticks

ASSUME SizesAssumption ==
    /\ {QueueMax, K} \subseteq Nat \ {0} /\ MaxAudit \in Nat
    /\ EndTick \in [Runs -> Nat \ {0}]
ASSUME AssertedAssumption ==
    /\ Asserted \in [Runs -> SUBSET Checks]
    /\ \A r \in Runs : Marks[r] \subseteq SUBSET (1 .. EndTick[r])
ASSUME SwitchesAssumption == WriteFails \subseteq Runs /\ Crash \subseteq Runs

VARIABLES
    check,      \* the assertion of each run
    marked,     \* the ticks at which its condition holds
    pc,         \* running, joining, reading, flushing, flushed, flushingCe,
                \* recording, done
    tick,       \* the ticks the run has had
    queue,      \* _write_queue
    writing,    \* what _drain_loop holds, <<>> or one item
    unfinished, \* _unfinished_tasks of _write_queue
    rows,       \* RunTimeseries, the tick indices of each run
    dropped,    \* _dropped_ticks, one counter for the sink
    audit,      \* control events appended by each run
    ceQueue,    \* _ce_queue and what _ce_drain_loop holds
    auditRows,  \* ControlEvent rows of each run
    verdict,    \* the status written by finalize
    lost        \* history: ticks dropped, by run

runVars == <<check, marked, tick>>
tickVars == <<queue, writing, unfinished, rows, dropped, lost>>
ceVars == <<audit, ceQueue, auditRows>>
vars == <<runVars, pc, tickVars, ceVars, verdict>>

\* A tick of the run: append, put_nowait or a counted drop.
AppendTick(r) ==
    /\ pc[r] = "running" /\ tick[r] < EndTick[r]
    /\ tick' = [tick EXCEPT ![r] = @ + 1]
    /\ IF Len(queue) < QueueMax
       THEN /\ queue' = Append(queue, <<r, tick[r] + 1>>)
            /\ unfinished' = unfinished + 1
            /\ UNCHANGED <<dropped, lost>>
       ELSE /\ dropped' = dropped + 1
            /\ lost' = [lost EXCEPT ![r] = @ + 1]
            /\ UNCHANGED <<queue, unfinished>>
    /\ UNCHANGED <<check, marked, pc, writing, rows, ceVars, verdict>>

AppendControlEvent(r) ==
    /\ pc[r] = "running" /\ audit[r] < MaxAudit
    /\ audit' = [audit EXCEPT ![r] = @ + 1]
    /\ ceQueue' = Append(ceQueue, r)
    /\ UNCHANGED <<runVars, pc, tickVars, auditRows, verdict>>

\* The queue's join as a caller meets it: it returns at once on an idle queue.
Join(r, idle, after, waiting) ==
    pc' = [pc EXCEPT ![r] = IF idle THEN after ELSE waiting]

\* The loop of _drive has ended, by its last tick or by an exception;
\* get_eval_rows joins the tick queue.
End(r) ==
    /\ pc[r] = "running"
    /\ tick[r] = EndTick[r] \/ r \in Crash
    /\ Join(r, unfinished = 0, "reading", "joining")
    /\ UNCHANGED <<runVars, tickVars, ceVars, verdict>>

-----------------------------------------------------------------------------
(* The drain tasks. *)

Take ==
    /\ writing = <<>> /\ queue # <<>>
    /\ writing' = Head(queue)
    /\ queue' = Tail(queue)
    /\ UNCHANGED <<runVars, pc, unfinished, rows, dropped, lost, ceVars, verdict>>

\* task_done: at zero, get_eval_rows goes on to read and finalize to the join of
\* the control events.
TaskDone ==
    /\ unfinished' = unfinished - 1
    /\ pc' = [r \in Runs |->
            CASE unfinished = 1 /\ pc[r] = "joining" -> "reading"
              [] unfinished = 1 /\ pc[r] = "flushing" -> "flushed"
              [] OTHER -> pc[r]]

Write ==
    /\ writing # <<>>
    /\ rows' = [rows EXCEPT ![writing[1]] = @ \cup {writing[2]}]
    /\ TaskDone
    /\ writing' = <<>>
    /\ UNCHANGED <<runVars, queue, dropped, lost, ceVars, verdict>>

\* (mutant: task_done only after a write that succeeded)
BugWriteRaises ==
    /\ writing # <<>> /\ writing[1] \in WriteFails
    /\ writing' = <<>>
    /\ UNCHANGED <<runVars, pc, queue, unfinished, rows, dropped, lost, ceVars,
                   verdict>>
\* The INSERT raises: the tick is logged and forgotten.
WriteRaises ==
    /\ writing # <<>> /\ writing[1] \in WriteFails
    /\ TaskDone
    /\ writing' = <<>>
    /\ UNCHANGED <<runVars, queue, rows, dropped, lost, ceVars, verdict>>

CeTaskDone ==
    pc' = [r \in Runs |-> IF Len(ceQueue) = 1 /\ pc[r] = "flushingCe"
                          THEN "recording" ELSE pc[r]]

WriteControlEvent ==
    /\ ceQueue # <<>>
    /\ auditRows' = [auditRows EXCEPT ![Head(ceQueue)] = @ + 1]
    /\ ceQueue' = Tail(ceQueue)
    /\ CeTaskDone
    /\ UNCHANGED <<runVars, tickVars, audit, verdict>>

ControlEventRaises ==
    /\ ceQueue # <<>> /\ Head(ceQueue) \in WriteFails
    /\ ceQueue' = Tail(ceQueue)
    /\ CeTaskDone
    /\ UNCHANGED <<runVars, tickVars, audit, auditRows, verdict>>

-----------------------------------------------------------------------------
(* The verdict. *)

\* The rows are read and evaluated; finalize joins the tick queue again.
EvaluateVerdict(r) ==
    /\ pc[r] = "reading"
    /\ verdict' = [verdict EXCEPT ![r] =
            Evaluate(check[r], rows[r], dropped, EndTick[r], marked[r], K)]
    /\ Join(r, unfinished = 0, "flushed", "flushing")
    /\ UNCHANGED <<runVars, tickVars, ceVars>>

\* (mutant: finalize does not wait for the control events)
BugJoinControlEvents(r) ==
    /\ pc[r] = "flushed"
    /\ pc' = [pc EXCEPT ![r] = "recording"]
    /\ UNCHANGED <<runVars, tickVars, ceVars, verdict>>
JoinControlEvents(r) ==
    /\ pc[r] = "flushed"
    /\ Join(r, ceQueue = <<>>, "recording", "flushingCe")
    /\ UNCHANGED <<runVars, tickVars, ceVars, verdict>>

\* The Scenario row is committed.
Record(r) ==
    /\ pc[r] = "recording"
    /\ pc' = [pc EXCEPT ![r] = "done"]
    /\ UNCHANGED <<runVars, tickVars, ceVars, verdict>>

-----------------------------------------------------------------------------
Init ==
    /\ check \in {f \in [Runs -> Checks] : \A r \in Runs : f[r] \in Asserted[r]}
    /\ marked \in {f \in [Runs -> UNION {Marks[r] : r \in Runs}] :
                        \A r \in Runs : f[r] \in Marks[r]}
    /\ pc = [r \in Runs |-> "running"]
    /\ tick = [r \in Runs |-> 0]
    /\ queue = <<>> /\ writing = <<>> /\ unfinished = 0
    /\ rows = [r \in Runs |-> {}]
    /\ dropped = 0 /\ lost = [r \in Runs |-> 0]
    /\ audit = [r \in Runs |-> 0] /\ auditRows = [r \in Runs |-> 0]
    /\ ceQueue = <<>>
    /\ verdict = [r \in Runs |-> "none"]

Drain == Take \/ Write \/ WriteRaises
DrainControlEvents == WriteControlEvent \/ ControlEventRaises
Finish(r) == EvaluateVerdict(r) \/ JoinControlEvents(r) \/ Record(r)

Next ==
    \/ \E r \in Runs : AppendTick(r) \/ AppendControlEvent(r) \/ End(r) \/ Finish(r)
    \/ Drain
    \/ DrainControlEvents

Spec == Init /\ [][Next]_vars

\* The drain tasks and the task of each run are scheduled when they are ready.
FairSpec ==
    /\ Spec
    /\ WF_vars(Drain) /\ WF_vars(DrainControlEvents)
    /\ \A r \in Runs : WF_vars(AppendTick(r) \/ End(r)) /\ WF_vars(Finish(r))

-----------------------------------------------------------------------------
(* Properties. *)

Ticks == UNION {1 .. EndTick[r] : r \in Runs}
Item == Runs \X Ticks

\* Every variable has its type, and the queue its bound.
TypeOK ==
    /\ check \in [Runs -> Checks] /\ marked \in [Runs -> SUBSET Ticks]
    /\ pc \in [Runs -> {"running", "joining", "reading", "flushing", "flushed",
                        "flushingCe", "recording", "done"}]
    /\ tick \in [Runs -> Nat] /\ \A r \in Runs : tick[r] <= EndTick[r]
    /\ queue \in Seq(Item) /\ Len(queue) <= QueueMax
    /\ writing \in {<<>>} \cup Item
    /\ unfinished \in Nat /\ dropped \in Nat
    /\ rows \in [Runs -> SUBSET Ticks]
    /\ lost \in [Runs -> Nat] /\ audit \in [Runs -> Nat] /\ auditRows \in [Runs -> Nat]
    /\ ceQueue \in Seq(Runs)
    /\ verdict \in [Runs -> Status \cup {"none"}]

\* A verdict never says PASS or FAIL where a tick that was not retained could
\* make it wrong: what it says is true of the ticks the run had (all rules but that
\* of the peak, which looks at no gaps, and all runs whose writes do not fail, of
\* which only gaps in the middle tell).
VerdictSound ==
    \A r \in Runs \ WriteFails :
        check[r] # "peak" =>
            Truthful(verdict[r], check[r], tick[r], EndTick[r], marked[r], K)

\* "when finalize() returns all ticks, all ControlEvent rows, and the verdict are
\* durable": of a finalized run only the ticks dropped at the queue are missing, and,
\* the doc does not say so, the rows whose INSERT raised.
FinalizedIsDurable ==
    \A r \in Runs \ WriteFails : pc[r] = "done" =>
        /\ Cardinality(rows[r]) + lost[r] = tick[r]
        /\ auditRows[r] = audit[r]
        /\ verdict[r] \in Status

\* What passes through the queues and the drain tasks is never lost but for a reason
\* that was counted, and the queues keep their bounds.
NothingVanishes == TypeOK /\ FinalizedIsDurable

\* Every run that has ended is finalized, also when writes raise.
EveryRunFinalized == \A r \in Runs : (pc[r] # "running") ~> (pc[r] = "done")
=============================================================================
