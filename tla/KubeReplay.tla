----------------------------- MODULE KubeReplay -----------------------------
(***************************************************************************)
(* The replay of a pod trace (replay_kube_trace, runtime/                  *)
(* kube_trace_replay.py): the instants at which a pod of the trace is      *)
(* created or deleted, and the next instant the scheduler itself asks for  *)
(* after each tick, are visited in order.                                  *)
(***************************************************************************)
EXTENDS KubePods, SequencesExt

CONSTANTS
    Traces,     \* the traces to replay: some of the pods once, sorted by creation time
    Creation    \* of a pod; the completion of Pod is its deletion

ASSUME TraceAssumption ==
    /\ Creation \in [Pods -> Nat]
    /\ Traces \subseteq Seq(Pods)
    /\ \A t \in Traces : IsInjective(t) /\ \A i, j \in DOMAIN t : i < j => Creation[t[i]] <= Creation[t[j]]

VARIABLES
    trace,
    times,      \* the heap of instants
    index       \* pending_index

replayVars == <<now, phase, podVars, trace, times, index>>

ReplayInit ==
    /\ PodsInit /\ trace \in Traces /\ index = 0
    /\ times = {Creation[p] : p \in Range(trace)}
                \cup ({Pod[p].completion : p \in Range(trace)} \ {NoTime})

\* Visit the next instant: submit what was created by then, and tick.
Visit ==
    /\ phase = "idle" /\ times # {}
    /\ LET t == Min(times)
           due == Cardinality({i \in DOMAIN trace : Creation[trace[i]] <= t})
           created == SubSeq(trace, index + 1, due)
       IN  /\ now' = t /\ times' = times \ {t} /\ index' = index + Len(created)
           /\ Enqueue(created)
    /\ phase' = "due"
    /\ UNCHANGED <<attempts, readyAt, backoff, onNode, endsAt, allocated, passed, placed, trace>>

\* next_wakeup_time: the instants of the scheduler's own.
Wakeups == {readyAt[p] : p \in In("backoff")} \cup {endsAt[p] : p \in In("running")}

\* A wakeup that is due already needs another pass at the same instant.
Again ==
    /\ phase = "done" /\ Wakeups # {} /\ Min(Wakeups) <= now
    /\ phase' = "due" /\ UNCHANGED <<now, podVars, trace, times, index>>
Leave ==
    /\ phase = "done" /\ \A t \in Wakeups : t > now
    /\ phase' = "idle"
    /\ times' = IF Wakeups = {} THEN times ELSE times \cup {Min(Wakeups)}
    /\ UNCHANGED <<now, podVars, trace, index>>

ReplayNext == Visit \/ Again \/ Leave \/ (TickStep /\ UNCHANGED <<trace, times, index>>)
ReplaySpec == ReplayInit /\ [][ReplayNext]_replayVars
FairReplaySpec == ReplaySpec /\ WF_replayVars(ReplayNext)

-----------------------------------------------------------------------------
(* Properties. *)

\* The replay never steps over an instant at which a container ends or a backoff
\* expires, although after a tick it only notes the first of them.
NothingOverdue ==
    phase = "due" =>
        /\ \A p \in In("running") : endsAt[p] >= now
        /\ \A p \in In("backoff") : readyAt[p] >= now

\* A pod waits for good reason only, and not longer than it must.
ServedInTime == WaitingJustified /\ NothingOverdue

\* The replay comes to its end, and then every pod that fits on some empty node has
\* run, unless it was deleted first: neither backoff nor the wait for a completion
\* keeps it forever.
Ended == phase = "idle" /\ times = {}
Placeable(p) == \E n \in KubeNodes : Fits(p, n, [r \in Range(Resources) |-> 0])
EveryPodSettles ==
    <>(Ended /\ \A p \in Range(trace) : Placeable(p) => where[p] \in {"completed", "expired"})
=============================================================================
