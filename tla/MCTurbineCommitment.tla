------------------------ MODULE MCTurbineCommitment ------------------------
(* A small fleet: one unit on the bus and two hot standbys.                  *)
EXTENDS TurbineCommitment

MCRated == [u \in Units |-> 10]
MCStandby == {2, 3}
MCSpinning == {1}
MCInitial == [u \in Units |-> IF u = 2 THEN HOT ELSE WARM]
MCStartTime == [t \in Thermals |-> t + 1]
=============================================================================
