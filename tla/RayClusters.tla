---------------------------- MODULE RayClusters ----------------------------
(***************************************************************************)
(* The lifecycle of Ray clusters and of their workers                      *)
(* (core/ray_cluster_engine.py).  The engine that admits requests to the   *)
(* infrastructure is a library of the code and is left open here: what is  *)
(* queued may be admitted, rejected or kept at every advance.  The engine  *)
(* is advanced by one unit of time at a time, and every timer is kept as   *)
(* the time that is left of it.  A cluster is one record; a scale record   *)
(* leaves the sequence when it is rejected, failed or scaled down, after   *)
(* which no code reads it.                                                 *)
(***************************************************************************)
EXTENDS Integers, FiniteSets, FiniteSetsExt, Sequences

CONSTANTS
    Clusters,
    Elastic,          \* the Kubernetes clusters, whose workers are scaled; the others are fixed
    MinWorkers, MaxWorkers,
    HeadDelay, WorkerDelay, RegistrationDelay

ASSUME ClustersAssumption ==
    /\ Elastic \subseteq Clusters
    /\ MinWorkers \in [Clusters -> Nat] /\ MaxWorkers \in [Clusters -> Nat]
    /\ \A c \in Clusters : MinWorkers[c] <= MaxWorkers[c]
    /\ {HeadDelay, WorkerDelay, RegistrationDelay} \subseteq Nat

VARIABLE cl    \* the record of every cluster

InitialWorkers(c) == IF c \in Elastic THEN MinWorkers[c] ELSE MaxWorkers[c]
Unknown == [life |-> "UNKNOWN", request |-> "none", allocation |-> FALSE,
            headIn |-> 0, startIn |-> 0, registerIn |-> 0,
            started |-> 0, registered |-> 0, allocated |-> 0, reuse |-> 0, scales |-> <<>>]
ClustersInit == cl = [c \in Clusters |-> Unknown]

Scale(replacement, reuses) ==
    [state |-> "queued", replacement |-> replacement, reuses |-> reuses, startIn |-> 0]
\* A sequence without the elements at the places I.
Without(s, I) ==
    LET kept == DOMAIN s \ I
        nth(n) == CHOOSE i \in kept : Cardinality({k \in kept : k <= i}) = n
    IN  [n \in 1 .. Cardinality(kept) |-> s[nth(n)]]
\* scaling_in_flight.
InFlight(r) == \E i \in DOMAIN r.scales : r.scales[i].state \in {"queued", "starting"}

-----------------------------------------------------------------------------
(* advance. *)

TimerLeft(n) == IF n = 0 THEN 0 ELSE n - 1
TimePasses(r) ==
    [r EXCEPT !.headIn = TimerLeft(@), !.startIn = TimerLeft(@), !.registerIn = TimerLeft(@),
              !.scales = [i \in DOMAIN r.scales |-> [r.scales[i] EXCEPT !.startIn = TimerLeft(@)]]]

\* What admission says of the cluster's own request; only a queued cluster listens.
Answered(c, r, outcome) ==
    IF r.request # "queued" \/ outcome = "keep" THEN r
    ELSE LET s == [r EXCEPT !.request = IF outcome = "admit" THEN "held" ELSE "none"]
         IN  IF r.life # "ADMISSION_QUEUED" THEN s
             ELSE IF outcome = "admit"
             THEN [s EXCEPT !.life = "HEAD_STARTING", !.allocation = TRUE,
                            !.headIn = HeadDelay, !.allocated = InitialWorkers(c)]
             ELSE [s EXCEPT !.life = "FAILED"]
\* And of its scale records, whatever became of the cluster.
ScalesAnswered(r, outcome) ==
    LET rejected == {i \in DOMAIN r.scales : r.scales[i].state = "queued" /\ outcome[i] = "reject"}
        admit(i) == IF r.scales[i].state = "queued" /\ outcome[i] = "admit"
                    THEN [r.scales[i] EXCEPT !.state = "starting", !.startIn = WorkerDelay]
                    ELSE r.scales[i]
    IN  [r EXCEPT !.scales = Without([i \in DOMAIN r.scales |-> admit(i)], rejected)]

\* _progress.
HeadProgress(c, r) ==
    IF r.life # "HEAD_STARTING" \/ r.headIn > 0 THEN r
    ELSE IF InitialWorkers(c) = 0 THEN [r EXCEPT !.life = "READY"]
    ELSE [r EXCEPT !.life = "WORKERS_STARTING", !.startIn = WorkerDelay]
WorkersStart(c, r) ==
    IF r.life = "WORKERS_STARTING" /\ r.startIn = 0 /\ r.started = 0
    THEN [r EXCEPT !.started = InitialWorkers(c), !.registerIn = RegistrationDelay] ELSE r
WorkersRegister(r) ==
    IF r.life = "WORKERS_STARTING" /\ r.started > 0 /\ r.registerIn = 0 /\ r.registered < r.started
    THEN [r EXCEPT !.registered = r.started, !.life = "READY"] ELSE r
\* _progress_scale: with a delay of registration the method sets the same instant and
\* returns, each time anew.
\* (mutant: a replacement that keeps an allocation never registers)
BugRegisters(s) == s.state = "starting" /\ s.startIn = 0 /\ ~s.reuses
Registers(s) == s.state = "starting" /\ s.startIn = 0 /\ RegistrationDelay = 0
AddsAllocation(s) == ~s.reuses
ScalesProgress(r) ==
    LET up == {i \in DOMAIN r.scales : Registers(r.scales[i])}
    IN  [r EXCEPT !.registered = @ + Cardinality(up),
                  !.allocated = @ + Cardinality({i \in up : AddsAllocation(r.scales[i])}),
                  !.scales = [i \in DOMAIN r.scales |->
                      IF i \in up THEN [r.scales[i] EXCEPT !.state = "READY"] ELSE r.scales[i]]]

Advanced(c, r, outcome) ==
    LET s == ScalesAnswered(Answered(c, TimePasses(r), outcome[0]), outcome)
    IN  ScalesProgress(WorkersRegister(WorkersStart(c, HeadProgress(c, s))))
\* The requests that wait for an answer: 0 is the cluster's own, i its scale record.
Asked(r) ==
    (IF r.request = "queued" THEN {0} ELSE {})
    \cup {i \in DOMAIN r.scales : r.scales[i].state = "queued"}
AdvanceEngine ==
    LET waiting == UNION {{c} \X Asked(cl[c]) : c \in Clusters}
        outcome(c, answer) ==
            [i \in 0 .. Len(cl[c].scales) |-> IF i \in Asked(cl[c]) THEN answer[<<c, i>>] ELSE "keep"]
    IN  \E answer \in [waiting -> {"keep", "admit", "reject"}] :
            cl' = [c \in Clusters |-> Advanced(c, cl[c], outcome(c, answer))]

-----------------------------------------------------------------------------
(* The requests. *)

SubmitCluster(c) ==
    /\ cl[c].life = "UNKNOWN"
    /\ \/ cl' = [cl EXCEPT ![c].life = "ADMISSION_QUEUED", ![c].request = "queued"]
       \/ cl' = [cl EXCEPT ![c].life = "FAILED"]

BeginDrain(c) ==
    /\ cl[c].life \in {"READY", "WORKERS_STARTING"}
    /\ cl' = [cl EXCEPT ![c].life = "DRAINING"]

\* _release_worker_scales: what is still queued is not taken back.
ScalesReleased(r) ==
    [r EXCEPT !.scales = Without(@, {i \in DOMAIN @ : @[i].state # "queued"})]
AllocationReleased(r) == IF r.allocation THEN [r EXCEPT !.request = "none"] ELSE r
Terminate(c) ==
    /\ cl[c].life \in {"DRAINING", "FAILED", "ADMISSION_QUEUED"}
    /\ cl' = [cl EXCEPT ![c] = [AllocationReleased(ScalesReleased(@)) EXCEPT !.life = "TERMINATED"]]
Fail(c) ==
    /\ cl[c].life \notin {"UNKNOWN", "TERMINATED", "FAILED"}
    /\ cl' = [cl EXCEPT ![c] =
          IF @.allocation THEN [AllocationReleased(ScalesReleased(@)) EXCEPT !.life = "FAILED"]
                          ELSE [@ EXCEPT !.life = "FAILED"]]

\* Worker requests are answered by admission at once only when they are rejected.
Requested(r, n, replacement, reuses) ==
    {[r EXCEPT !.scales = @ \o [i \in 1 .. k |-> Scale(replacement, reuses)]] : k \in 0 .. n}

\* The newest n workers that a scale record added, without the replacements.
Dynamic(r) == {i \in DOMAIN r.scales : r.scales[i].state = "READY" /\ ~r.scales[i].replacement}
Newest(S, n) == {i \in S : Cardinality({k \in S : k > i}) < n}
\* request_worker_count: a scale-down that finds too few of them raises after it
\* released those it found.
ScaledDown(r, target) ==
    LET n == r.allocated - target
        released == [r EXCEPT !.scales = Without(@, Newest(Dynamic(r), n))]
    IN  IF Cardinality(Dynamic(r)) < n THEN released
        ELSE [released EXCEPT !.allocated = target, !.registered = Min({r.registered, target})]
WorkerCounts(c, r, target) ==
    IF r.life # "READY" \/ InFlight(r) \/ target = r.allocated THEN {r}
    ELSE IF target > r.allocated THEN Requested(r, target - r.allocated, FALSE, FALSE)
    ELSE IF target < InitialWorkers(c) THEN {r} ELSE {ScaledDown(r, target)}

\* report_worker_failure of one worker.
WorkerLost(r) ==
    IF Dynamic(r) # {}
    THEN [r EXCEPT !.registered = @ - 1, !.allocated = @ - 1,
                   !.scales = Without(@, Newest(Dynamic(r), 1))]
    ELSE [r EXCEPT !.registered = @ - 1, !.reuse = @ + 1]
\* request_worker_replacement of one worker.
Replaced(c, r) ==
    IF r.registered + 1 > MaxWorkers[c] \/ InFlight(r) THEN {r}
    ELSE IF r.reuse >= 1 THEN Requested([r EXCEPT !.reuse = @ - 1], 1, TRUE, TRUE)
    ELSE Requested(r, 1, TRUE, FALSE)
=============================================================================
