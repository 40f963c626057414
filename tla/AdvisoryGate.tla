---------------------------- MODULE AdvisoryGate ----------------------------
(***************************************************************************)
(* The advisory proposals of one run: AdvisoryGate (runtime/               *)
(* advisory_gate.py), the agents that feed it (advisory/agents/base.py and *)
(* agent_registry.py), the fuel-cell readiness controller, the reserve     *)
(* alerts, and the reviewers (api/routes/advisory.py).                     *)
(*                                                                         *)
(* The run's task, _drive, and the request handlers share the event loop;  *)
(* run_all works in a thread of an executor, for which the task waits.  So *)
(* a handler may run between any two steps of the agents, and a step of an *)
(* agent between the two halves of a handler.  pc is where the task is:    *)
(*   waiting   between two ticks                                           *)
(*   sending   in the sink and the broadcast of a tick                     *)
(*   advising  waiting for the agents                                      *)
(*   ended     gone; the registry is kept for the reviewers                *)
(* A proposal is its place in the order of proposals.  Of its content only *)
(* matters whether it is within the bounds of the gate; of a model's or a  *)
(* heuristic's answer, that it may be anything.                            *)
(***************************************************************************)
EXTENDS Integers, Sequences

CONSTANTS
  AgentCount,     \* the agents of a registry, run in this order
  Floor,          \* by agent: wall time between its calls
  MinTicks,       \* ticks of evidence an agent needs
  Lifetime,       \* ticks from the creation of a proposal to its expiry
  EndTick,        \* the tick at which the run is complete
  WallSteps,      \* wall time that may pass from one tick to the next
  MaxProposals    \* bound on the proposals of a behaviour

Agents == 1..AgentCount

ASSUME AdvisoryAssumption ==
  /\ AgentCount \in Nat /\ MinTicks \in Nat /\ EndTick \in Nat
  /\ Lifetime \in Nat \ {0} /\ MaxProposals \in Nat
  /\ Floor \in [Agents -> Nat]
  /\ WallSteps \subseteq Nat

VARIABLES
  pc,
  tick,      \* ctx.sim_time, in ticks
  cancelled,
  props,     \* the proposals of the gate, in the order they came
  readiness, \* _last_proposal_id of the readiness controller, 0 if none
  cursor,    \* the agent run_all has reached
  judging,   \* the proposal of an agent that validate() is judging, or 0
  silent,    \* by agent: wall time since its last valid proposal, capped
  review     \* the handler between its check and its write

vars == <<pc, tick, cancelled, props, readiness, cursor, judging, silent, review>>

Terminal == {"accepted", "rejected", "expired", "superseded"}
Sources == {"agent", "readiness", "alert", "outlook"}
NoReview == [id |-> 0, verdict |-> "none", at |-> 0]
LoopFree == review = NoReview

-----------------------------------------------------------------------------
(* The gate *)

Proposal(source, within, created) ==
  [source |-> source, within |-> within, state |-> "pending",
   created |-> created, expires |-> created + Lifetime, at |-> -1]

\* The verdict of validate() on a proposal that is stored already.
Judged(p) == IF p.within THEN p ELSE [p EXCEPT !.state = "rejected"]

\* Mutant: the proposal is stored without being judged.
BugValidated(ps, p) == Append(ps, p)

\* validate(), when no other thread looks: stored and judged at once.
Validated(ps, p) == Append(ps, Judged(p))

\* Mutant: the proposals that are decided expire too.
BugExpired(ps, now) ==
  [i \in DOMAIN ps |-> IF ps[i].expires <= now
                       THEN [ps[i] EXCEPT !.state = "expired"] ELSE ps[i]]

\* Mutant: a proposal lives one tick past its deadline.
BugExpiredLate(ps, now) ==
  [i \in DOMAIN ps |-> IF ps[i].state = "pending" /\ ps[i].expires < now
                       THEN [ps[i] EXCEPT !.state = "expired"] ELSE ps[i]]

\* tick(): the deadline of a proposal has come.
Expired(ps, now) ==
  [i \in DOMAIN ps |-> IF ps[i].state = "pending" /\ ps[i].expires <= now
                       THEN [ps[i] EXCEPT !.state = "expired"] ELSE ps[i]]

\* supersede(): no effect on a proposal that is decided.
Superseded(ps, i) ==
  IF i # 0 /\ ps[i].state \notin Terminal
    THEN [ps EXCEPT ![i].state = "superseded"] ELSE ps

-----------------------------------------------------------------------------
(* The task of the run *)

\* Mutant: the proposal that is replaced is forgotten, not superseded.
BugAdvised(n, within) ==
  /\ readiness' = IF within THEN n ELSE readiness
  /\ props' = Validated(props, Proposal("readiness", within, tick))

\* evaluate() of the readiness controller: a valid proposal replaces the last.
Advised(n, within) ==
  LET offered == Validated(props, Proposal("readiness", within, tick)) IN
  /\ readiness' = IF within THEN n ELSE readiness
  /\ props' = IF within THEN Superseded(offered, readiness) ELSE offered

\* ctx.step(), which moves sim_time on, then the reserve alert of the tick.
Evaluate(source, within) ==
  /\ LoopFree
  /\ pc = "waiting" /\ tick < EndTick /\ ~cancelled
  /\ pc' = "sending" /\ tick' = tick + 1
  /\ source # "none" => Len(props) < MaxProposals
  /\ source = "readiness" => Advised(Len(props) + 1, within)
  /\ source = "alert" => props' = Validated(props, Proposal("alert", within, tick))
  /\ source = "none" => props' = props
  /\ source # "readiness" => readiness' = readiness
  /\ UNCHANGED <<cancelled, cursor, judging, silent, review>>

Capped(n, a) == IF n <= Floor[a] THEN n ELSE Floor[a]

\* registry.tick() with the time of the tick, then run_all in the executor.
StartAgents(wall) ==
  /\ LoopFree
  /\ pc = "sending"
  /\ pc' = "advising" /\ cursor' = 1
  /\ props' = Expired(props, tick - 1)
  /\ silent' = [a \in Agents |-> Capped(silent[a] + wall, a)]
  /\ UNCHANGED <<tick, cancelled, readiness, judging, review>>

AgentsDone ==
  /\ LoopFree
  /\ pc = "advising" /\ cursor > AgentCount
  /\ pc' = "waiting"
  /\ UNCHANGED <<tick, cancelled, props, readiness, cursor, judging, silent, review>>

\* The registry outlives the task.
End ==
  /\ LoopFree
  /\ pc = "waiting" /\ (tick = EndTick \/ cancelled)
  /\ pc' = "ended"
  /\ UNCHANGED <<tick, cancelled, props, readiness, cursor, judging, silent, review>>

-----------------------------------------------------------------------------
(* The agents, in their thread *)

\* maybe_run of the agent at the cursor may speak.
Due(a) == silent[a] >= Floor[a] /\ tick >= MinTicks

\* It does not: too early, nothing to say (which its ceiling overrides), or
\* its evidence cannot be made.
AgentPasses ==
  /\ pc = "advising" /\ cursor <= AgentCount /\ judging = 0
  /\ cursor' = cursor + 1
  /\ UNCHANGED <<pc, tick, cancelled, props, readiness, judging, silent, review>>

\* It does, by its model or its heuristic: validate() stores the proposal,
\* which is pending, before it looks at the bounds.
AgentProposes(within) ==
  /\ pc = "advising" /\ cursor <= AgentCount /\ judging = 0
  /\ Due(cursor) /\ Len(props) < MaxProposals
  /\ props' = Append(props, Proposal("agent", within, tick - 1))
  /\ judging' = Len(props) + 1
  /\ UNCHANGED <<pc, tick, cancelled, readiness, cursor, silent, review>>

\* Only a proposal that passes starts the floor of its agent anew.
Judge ==
  /\ judging # 0
  /\ props' = [props EXCEPT ![judging] = Judged(@)]
  /\ silent' = IF props[judging].within
                 THEN [silent EXCEPT ![cursor] = 0] ELSE silent
  /\ judging' = 0 /\ cursor' = cursor + 1
  /\ UNCHANGED <<pc, tick, cancelled, readiness, review>>

-----------------------------------------------------------------------------
(* The request handlers *)

\* The sim_time a handler records: that of the run, or 0.0 once it is gone.
Now == IF pc = "ended" THEN 0 ELSE tick

\* accept_proposal and reject_proposal: the check that it is not decided ...
BeginReview(i, verdict) ==
  /\ LoopFree
  /\ props[i].state \notin Terminal
  /\ review' = [id |-> i, verdict |-> verdict, at |-> Now]
  /\ UNCHANGED <<pc, tick, cancelled, props, readiness, cursor, judging, silent>>

\* ... and the write.
EndReview ==
  /\ ~LoopFree
  /\ props' = [props EXCEPT ![review.id].state = review.verdict,
                            ![review.id].at = review.at]
  /\ review' = NoReview
  /\ UNCHANGED <<pc, tick, cancelled, readiness, cursor, judging, silent>>

\* submit_proposal of the capacity outlook, whose impact is clamped to the
\* default bound; a registry may have a narrower one.
SubmitOutlook(within) ==
  /\ LoopFree /\ Len(props) < MaxProposals
  /\ props' = Validated(props, Proposal("outlook", within, Now))
  /\ UNCHANGED <<pc, tick, cancelled, readiness, cursor, judging, silent, review>>

CancelRun ==
  /\ LoopFree /\ pc # "ended" /\ ~cancelled
  /\ cancelled' = TRUE
  /\ UNCHANGED <<pc, tick, props, readiness, cursor, judging, silent, review>>

-----------------------------------------------------------------------------
Init ==
  /\ pc = "waiting" /\ tick = 0 /\ cancelled = FALSE
  /\ props = <<>> /\ readiness = 0
  /\ cursor = 1 /\ judging = 0 /\ silent = Floor
  /\ review = NoReview

Task ==
  \/ \E source \in {"none", "readiness", "alert"}, within \in BOOLEAN :
       Evaluate(source, within)
  \/ \E wall \in WallSteps : StartAgents(wall)
  \/ AgentsDone
  \/ End

Thread ==
  \/ AgentPasses
  \/ \E within \in BOOLEAN : AgentProposes(within)
  \/ Judge

Handlers ==
  \/ \E i \in DOMAIN props, verdict \in {"accepted", "rejected"} :
       BeginReview(i, verdict)
  \/ EndReview
  \/ \E within \in BOOLEAN : SubmitOutlook(within)
  \/ CancelRun

Next == Task \/ Thread \/ Handlers

Spec == Init /\ [][Next]_vars

-----------------------------------------------------------------------------
ProposalType ==
  [source : Sources, within : BOOLEAN, state : {"pending"} \cup Terminal,
   created : Nat, expires : Nat, at : Nat \cup {-1}]

\* The state is one the program can be in, and the thread works only while
\* the task waits for it.
TypeOK ==
  /\ pc \in {"waiting", "sending", "advising", "ended"}
  /\ tick \in 0..EndTick /\ cancelled \in BOOLEAN
  /\ props \in Seq(ProposalType)
  /\ readiness \in 0..Len(props) /\ judging \in 0..Len(props)
  /\ cursor \in 1..(AgentCount + 1)
  /\ silent \in [Agents -> Nat]
  /\ review \in [id : 0..Len(props), verdict : {"none", "accepted", "rejected"},
                 at : Nat]
  /\ review.id = 0 <=> review = NoReview
  /\ judging # 0 => pc = "advising" /\ cursor <= AgentCount

\* A decided proposal is never decided again, though the deadline, the
\* readiness controller, the agents' thread and the reviewers all write to
\* it ("Once terminal, no further state transition is permitted",
\* advisory_gate.py:19).  A proposal out of bounds is left out: a reviewer
\* who finds it pending while validate() judges it races the verdict.
DecidedOnce ==
  [][\A i \in DOMAIN props :
       props[i].within /\ props[i].state \in Terminal
         => props'[i].state = props[i].state]_vars

\* A proposal out of bounds is pending only while its agent's call of
\* validate() is under way; no other path offers it to a reviewer (TC-30).
OutOfBoundsNotOffered ==
  \A i \in DOMAIN props :
    ~props[i].within /\ props[i].state = "pending" => i = judging

\* At most one readiness proposal waits for review, the newest valid one,
\* whatever the reviewers and the deadlines did to the ones before.
OneReadinessPending ==
  \A i \in DOMAIN props :
    props[i].source = "readiness" /\ props[i].state = "pending" => i = readiness

\* While the run lives a proposal waits, or is accepted, at most one tick
\* past its deadline: sim_time moves on before the gate hears of it.
DeadlineKept ==
  \A i \in DOMAIN props :
    /\ props[i].state = "pending" /\ pc # "ended" => tick <= props[i].expires + 1
    /\ props[i].state = "accepted" => props[i].at <= props[i].expires + 1
=============================================================================
