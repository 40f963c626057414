--------------------------- MODULE MCDieselFleet ---------------------------
(* The diesel fleet with three primaries and two standbys.                   *)
EXTENDS DieselFleet
=============================================================================
