-------------------------- MODULE MCAdvisoryGate --------------------------
(* One run of three ticks with an eager agent and one that speaks seldom.   *)
EXTENDS AdvisoryGate

MCFloor == <<1, 2>>
=============================================================================
