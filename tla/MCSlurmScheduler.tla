-------------------------- MODULE MCSlurmScheduler --------------------------
(***************************************************************************)
(* Small clusters and job mixes for TLC.  Each configuration picks one mix *)
(* of jobs; the nodes have two GPUs and two CPUs.                          *)
(***************************************************************************)
EXTENDS SlurmScheduler

MCDims == {"gpu", "cpu"}
MCNodes == 1 .. 2
MCCapacity == [n \in MCNodes |-> [gpu |-> 2, cpu |-> 2]]
MCOwners == {"alpha", "beta"}
MCWeight == [o \in MCOwners |-> IF o = "alpha" THEN 2 ELSE 1]

OnePool == {"license"}
OneLicense == [p \in OnePool |-> 1]
NoPool == {}
\* A burst buffer, and a license on a cluster that configures none.
TwoPools == {"buffer", "license"}
OneBuffer == [p \in TwoPools |-> IF p = "buffer" THEN 1 ELSE 0]
Unlicensed == {"license"}

NoReservation == {}
OneReservation == {"customer"}
MCWindow == [r \in OneReservation |-> [nodes |-> {2}, start |-> 1, end |-> 2]]
NoLimit == {}

Five == 1 .. 5
Six == 1 .. 6
ClusterBatches == {{1}, {2}, {3, 4}, {5, 6}}

\* A one-node job with one GPU and one CPU for two time units.
Plain(pools) ==
    [duration |-> 2, outcome |-> "COMPLETED", nodeCount |-> 1,
     request |-> [gpu |-> 1, cpu |-> 1], matching |-> MCNodes,
     exclusive |-> FALSE, pools |-> [p \in pools |-> 0], priority |-> 1,
     qosFactor |-> 1, owner |-> "alpha", dependencies |-> {},
     reservation |-> None, preemptible |-> TRUE, requeue |-> FALSE,
     preemptMode |-> "off", tres |-> 0, shareUsage |-> 0, group |-> 0,
     array |-> 0, arrayMax |-> 0]

After(kind, base, delay) == {[kind |-> kind, base |-> base, delay |-> delay]}

\* A weak job that takes all GPUs of a node and requeues by itself, an exclusive one
\* that takes none but the buffer, a two-node job after the first one succeeds and
\* one for the reserved node after the exclusive one, which both cancel their victims,
\* a short urgent one that wants the buffer and requeues its victims, and one that does
\* the latter in vain, because it waits for a license there is not.
ClusterJob ==
    LET p == Plain(TwoPools)
    IN  <<[p EXCEPT !.request = [gpu |-> 2, cpu |-> 1], !.requeue = TRUE],
          [p EXCEPT !.exclusive = TRUE, !.owner = "beta", !.duration = 1,
                    !.request = [gpu |-> 0, cpu |-> 1], !.preemptible = FALSE,
                    !.pools["buffer"] = 1],
          [p EXCEPT !.nodeCount = 2, !.dependencies = After("afterok", 1, 1),
                    !.outcome = "FAILED", !.priority = 2, !.preemptMode = "cancel"],
          [p EXCEPT !.reservation = "customer", !.preemptMode = "cancel",
                    !.dependencies = After("afterany", 2, 0)],
          [p EXCEPT !.priority = 3, !.duration = 1, !.preemptMode = "requeue",
                    !.pools["buffer"] = 1, !.outcome = "TIMEOUT"],
          [p EXCEPT !.priority = 2, !.preemptMode = "requeue", !.pools["license"] = 1]>>

\* Strict order without backfill: two tasks of an array, a heterogeneous pair that
\* shares a license with one of them and a TRES limit with the other, and a two-node
\* job that ranks between the pair and the array.
QueueJob ==
    LET p == Plain(OnePool)
    IN  <<[p EXCEPT !.array = 1, !.arrayMax = 1, !.pools["license"] = 1],
          [p EXCEPT !.array = 1, !.arrayMax = 1, !.tres = 1, !.duration = 1,
                    !.dependencies = After("after", 1, 0)],
          [p EXCEPT !.group = 1, !.duration = 1, !.priority = 3,
                    !.request = [gpu |-> 2, cpu |-> 2]],
          [p EXCEPT !.group = 1, !.tres = 1, !.owner = "beta", !.priority = 3,
                    !.pools["license"] = 1],
          [p EXCEPT !.nodeCount = 2, !.duration = 1, !.priority = 2,
                    !.outcome = "TIMEOUT"]>>
QueueBatches == {{1, 2}, {3, 4}, {5}}
QueueLimits == {[members |-> {2, 4}, maxJobs |-> 3, maxTres |-> 1]}

\* The mixes meet the conditions of the theorems about the properties they check.
ASSUME ClusterMeets ==
    Job = ClusterJob => CancelsHoldNoPool /\ ComponentsPoolsDisjoint
ASSUME QueueMeets ==
    Job = QueueJob =>
        GroupsWhole /\ ArraysUniform /\ ComponentsCountOnce /\ GroupsAlike
=============================================================================
