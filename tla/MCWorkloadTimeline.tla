------------------------- MODULE MCWorkloadTimeline -------------------------
(***************************************************************************)
(* An instance of WorkloadTimeline for TLC: a scripted cluster, one        *)
(* external job and two internal ones, of which the scenario authors one.  *)
(***************************************************************************)
EXTENDS WorkloadTimeline, TLC

CONSTANTS cluster, x, y, z

\* The admitted nodes from the instants 0, 1, 3, 4 and 5 on; the last tick is at 4.
Script(p, q, r, s, u) ==
    [n \in 0 .. EndTime |->
        CASE n = 0 -> p [] n \in 1 .. 2 -> q [] n = 3 -> r [] n = 4 -> s [] OTHER -> u]
\* It grows, shrinks and grows; it grows twice and shrinks over both cohorts; it
\* empties, fills again and changes after the last tick.
MCTotals == {Script(1, 3, 2, 3, 3), Script(1, 2, 4, 1, 1), Script(2, 0, 1, 1, 3)}

MCArrival == y :> 1
MCOutcome == y :> "JOB_FAILED" @@ z :> "JOB_TIMEOUT"
=============================================================================
