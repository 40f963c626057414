--------------------------- MODULE MCRayExecution ---------------------------
(***************************************************************************)
(* An instance of RayExecution for TLC: an elastic cluster with up to two  *)
(* workers, of which one comes with it, and a fixed one to spill to; two   *)
(* replicas that may run anywhere, and one in a group that waits for them. *)
(***************************************************************************)
EXTENDS RayExecution

CONSTANTS e, f, task, member, gang

MCMin == [c \in Clusters |-> IF c = e THEN 1 ELSE 0]
MCMax == [c \in Clusters |-> IF c = e THEN 2 ELSE 0]
MCWork == [w \in {task, member} |->
    IF w = task
    THEN [cluster |-> e, spill |-> <<f>>, need |-> 1, replicas |-> 2,
          duration |-> 2, deps |-> {}, group |-> NoGroup, retries |-> 1]
    ELSE [cluster |-> e, spill |-> <<>>, need |-> 1, replicas |-> 1,
          duration |-> 1, deps |-> {task}, group |-> gang, retries |-> 0]]
MCGroup == [x \in {gang} |-> [cluster |-> e, bundles |-> <<1, 1>>, strategy |-> "STRICT_SPREAD"]]
MCWorks == <<task, member>>
MCGroups == <<gang>>
=============================================================================
