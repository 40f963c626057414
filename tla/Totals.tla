------------------------------- MODULE Totals -------------------------------
(***************************************************************************)
(* The weight of a finite set: what the jobs of a node, the holders of a   *)
(* pool or the members of a limit take together.  w maps the elements to   *)
(* numbers.  A definition of its own, so that one set of lemmas            *)
(* (SetLemmas) serves every sum of the proofs.                             *)
(***************************************************************************)
EXTENDS FiniteSetsExt

Total(w, S) == MapThenSumSet(LAMBDA x : w[x], S)
=============================================================================
