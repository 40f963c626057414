--------------------------- MODULE MCRunLifecycle ---------------------------
(* Instances of RunLifecycle for TLC: two runs of one process and the sockets *)
(* that watch them.                                                           *)
EXTENDS RunLifecycle

CONSTANTS a, b, c1, c2

\* Both sockets watch the first run.
BothWatchA == [c \in Clients |-> a]
\* The second run is a short one.
MCEndTick == [r \in Runs |-> IF r = a THEN 3 ELSE 1]
=============================================================================
