-------------------------- MODULE MCTimeseriesSink --------------------------
(***************************************************************************)
(* An instance of TimeseriesSink for TLC: two runs that share one sink.    *)
(* The first has any assertion over some patterns of its three ticks, the  *)
(* second only fills the queues, and its writes may fail.                  *)
(***************************************************************************)
EXTENDS TimeseriesSink

CONSTANTS a, b

MCEndTick == [r \in Runs |-> IF r = a THEN 3 ELSE 1]
AnyOfFirst == [r \in Runs |-> IF r = a THEN Checks ELSE {"universal"}]
PatternsOfFirst == [r \in Runs |-> IF r = a THEN {{}, {3}, {1, 2}, {2, 3}} ELSE {{}}]
=============================================================================
