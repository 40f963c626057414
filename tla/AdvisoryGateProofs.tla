------------------------ MODULE AdvisoryGateProofs ------------------------
(***************************************************************************)
(* The proofs about AdvisoryGate, for any number of agents, ticks and      *)
(* proposals, any floors and any lifetime of a proposal.                   *)
(***************************************************************************)
EXTENDS AdvisoryGate, TLAPS

\* When the gate was last told the time: what is pending has not expired by
\* it, and in the tick that is being sent by at most one tick.
Current ==
  \A i \in DOMAIN props :
    props[i].state = "pending" =>
      /\ pc \in {"waiting", "advising"} => tick <= props[i].expires
      /\ pc = "sending" => tick <= props[i].expires + 1

AcceptedInTime ==
  \A i \in DOMAIN props :
    props[i].state = "accepted" => props[i].at <= props[i].expires + 1

\* A handler that has looked at a proposal holds the event loop: only a
\* verdict of the agents' thread may come before its write.
ReviewHolds ==
  review.id # 0 =>
    /\ props[review.id].within => props[review.id].state = "pending"
    /\ review.at <= props[review.id].expires + 1
    /\ review.verdict # "none"

Begun == pc \in {"sending", "advising"} => tick >= 1

IInv ==
  /\ TypeOK /\ Begun
  /\ OutOfBoundsNotOffered /\ OneReadinessPending
  /\ Current /\ AcceptedInTime /\ ReviewHolds

USE DEF Agents

-----------------------------------------------------------------------------
(* The operators of the gate.                                              *)

\* What an update of proposal p may leave as it was.
Keeps(q, p) ==
  /\ q.source = p.source /\ q.within = p.within
  /\ q.expires = p.expires /\ q.at = p.at

\* tick() of the gate leaves every proposal but those whose time has come.
LEMMA ExpiredFacts ==
  ASSUME NEW ps \in Seq(ProposalType), NEW now \in Int
  PROVE  /\ Expired(ps, now) \in Seq(ProposalType)
         /\ DOMAIN Expired(ps, now) = DOMAIN ps
         /\ Len(Expired(ps, now)) = Len(ps)
         /\ \A i \in DOMAIN ps :
              /\ Keeps(Expired(ps, now)[i], ps[i])
              /\ Expired(ps, now)[i].state =
                   IF ps[i].state = "pending" /\ ps[i].expires <= now
                     THEN "expired" ELSE ps[i].state
  <1>1. \A i \in DOMAIN ps : ps[i] \in ProposalType
    OBVIOUS
  <1>2. DOMAIN ps = 1..Len(ps) /\ Len(ps) \in Nat
    OBVIOUS
  <1>3. ASSUME NEW i \in DOMAIN ps
        PROVE  /\ Expired(ps, now)[i] \in ProposalType
               /\ Keeps(Expired(ps, now)[i], ps[i])
               /\ Expired(ps, now)[i].state =
                    IF ps[i].state = "pending" /\ ps[i].expires <= now
                      THEN "expired" ELSE ps[i].state
    BY <1>1 DEF Expired, Keeps, ProposalType, Terminal
  <1>4. Expired(ps, now) = [i \in 1..Len(ps) |-> Expired(ps, now)[i]]
    BY <1>2 DEF Expired
  <1>5. Expired(ps, now) \in [1..Len(ps) -> ProposalType]
    BY <1>2, <1>3, <1>4
  <1>. QED
    BY <1>2, <1>3, <1>5

LEMMA SupersededFacts ==
  ASSUME NEW ps \in Seq(ProposalType), NEW k \in 0..Len(ps)
  PROVE  /\ Superseded(ps, k) \in Seq(ProposalType)
         /\ DOMAIN Superseded(ps, k) = DOMAIN ps
         /\ Len(Superseded(ps, k)) = Len(ps)
         /\ \A i \in DOMAIN ps :
              /\ Keeps(Superseded(ps, k)[i], ps[i])
              /\ Superseded(ps, k)[i].state =
                   IF i = k /\ ps[i].state \notin Terminal
                     THEN "superseded" ELSE ps[i].state
  <1>1. DOMAIN ps = 1..Len(ps) /\ Len(ps) \in Nat
        /\ \A i \in DOMAIN ps : ps[i] \in ProposalType
    OBVIOUS
  <1>2. CASE k # 0 /\ ps[k].state \notin Terminal
    <2>1. Superseded(ps, k) = [ps EXCEPT ![k] = [ps[k] EXCEPT !.state = "superseded"]]
      BY <1>2 DEF Superseded
    <2>2. k \in DOMAIN ps
      BY <1>1, <1>2
    <2>3. /\ [ps[k] EXCEPT !.state = "superseded"] \in ProposalType
          /\ Keeps([ps[k] EXCEPT !.state = "superseded"], ps[k])
          /\ [ps[k] EXCEPT !.state = "superseded"].state = "superseded"
      BY <1>1, <2>2 DEF Keeps, ProposalType, Terminal
    <2>. DEFINE q == [ps[k] EXCEPT !.state = "superseded"]
    <2>4. \A i \in DOMAIN ps : Keeps(ps[i], ps[i])
      BY DEF Keeps
    <2>5. /\ Superseded(ps, k) = [ps EXCEPT ![k] = q] /\ q \in ProposalType
          /\ Keeps(q, ps[k]) /\ q.state = "superseded"
      BY <2>1, <2>3
    <2>. HIDE DEF q
    <2>. QED
      BY <1>1, <1>2, <2>2, <2>4, <2>5
  <1>3. CASE k = 0 \/ ps[k].state \in Terminal
    BY <1>1, <1>3 DEF Superseded, Keeps
  <1>. QED
    BY <1>2, <1>3

\* validate() judges what it stores, and what it stores comes last.
LEMMA ValidatedFacts ==
  ASSUME NEW ps \in Seq(ProposalType), NEW p \in ProposalType, p.state = "pending"
  PROVE  /\ Validated(ps, p) \in Seq(ProposalType)
         /\ Len(Validated(ps, p)) = Len(ps) + 1
         /\ DOMAIN Validated(ps, p) = 1..(Len(ps) + 1)
         /\ \A i \in DOMAIN ps : Validated(ps, p)[i] = ps[i]
         /\ Keeps(Validated(ps, p)[Len(ps) + 1], p)
         /\ Validated(ps, p)[Len(ps) + 1].state =
              IF p.within THEN "pending" ELSE "rejected"
  <1>1. /\ Judged(p) \in ProposalType /\ Keeps(Judged(p), p)
        /\ Judged(p).state = IF p.within THEN "pending" ELSE "rejected"
    BY DEF Judged, Keeps, ProposalType, Terminal
  <1>2. Validated(ps, p) = Append(ps, Judged(p))
    BY DEF Validated
  <1>. QED
    BY <1>1, <1>2

-----------------------------------------------------------------------------
(* The initial states and the steps.                                       *)

LEMMA InitIInv == Init => IInv
  <1>. SUFFICES ASSUME Init
                PROVE  IInv
    OBVIOUS
  <1>1. props \in Seq(ProposalType) /\ Len(props) = 0 /\ DOMAIN props = {}
    BY DEF Init
  <1>2. TypeOK
    <2>1. /\ review = NoReview /\ review.id = 0
          /\ review \in [id : 0..Len(props),
                         verdict : {"none", "accepted", "rejected"}, at : Nat]
      BY <1>1 DEF Init, NoReview
    <2>2. /\ tick \in 0..EndTick /\ silent \in [Agents -> Nat]
          /\ cursor \in 1..(AgentCount + 1) /\ readiness = 0 /\ judging = 0
      BY AdvisoryAssumption DEF Init
    <2>. QED
      BY <1>1, <2>1, <2>2 DEF Init, TypeOK
  <1>3. ReviewHolds /\ Begun
    BY DEF Init, ReviewHolds, Begun, NoReview
  <1>. QED
    BY <1>1, <1>2, <1>3 DEF IInv, OutOfBoundsNotOffered, OneReadinessPending,
                            Current, AcceptedInTime

\* What the types of the state say of the numbers a step compares.
LEMMA Numbers ==
  ASSUME TypeOK
  PROVE  /\ tick \in Nat /\ Len(props) \in Nat /\ DOMAIN props = 1..Len(props)
         /\ \A i \in DOMAIN props :
              /\ props[i] \in ProposalType
              /\ props[i].expires \in Nat /\ props[i].at \in Int
              /\ props[i].within \in BOOLEAN
              /\ props[i].state \in {"pending"} \cup Terminal
         /\ review.id \in 0..Len(props) /\ review.at \in Nat
         /\ review.id # 0 => review.id \in DOMAIN props
         /\ judging # 0 => judging \in DOMAIN props
         /\ readiness \in 0..Len(props)
  <1>1. /\ tick \in Nat /\ Len(props) \in Nat /\ DOMAIN props = 1..Len(props)
        /\ \A i \in DOMAIN props : props[i] \in ProposalType
    BY DEF TypeOK
  <1>2. \A i \in DOMAIN props :
          /\ props[i].expires \in Nat /\ props[i].at \in Int
          /\ props[i].within \in BOOLEAN
          /\ props[i].state \in {"pending"} \cup Terminal
    BY <1>1 DEF ProposalType
  <1>3. /\ review.id \in 0..Len(props) /\ review.at \in Nat
        /\ judging \in 0..Len(props) /\ readiness \in 0..Len(props)
    BY DEF TypeOK
  <1>. QED
    BY <1>1, <1>2, <1>3

LEMMA StutterIInv == IInv /\ UNCHANGED vars => IInv'
  BY DEF IInv, TypeOK, Begun, OutOfBoundsNotOffered, OneReadinessPending,
         Current, AcceptedInTime, ReviewHolds, vars

\* The gate forgets what has expired when it is told the time.
LEMMA StartAgentsIInv ==
  ASSUME IInv, NEW wall \in WallSteps, StartAgents(wall)
  PROVE  IInv'
  <1>1. /\ props' \in Seq(ProposalType) /\ DOMAIN props' = DOMAIN props
        /\ Len(props') = Len(props)
        /\ \A i \in DOMAIN props :
             /\ Keeps(props'[i], props[i])
             /\ props'[i].state =
                  IF props[i].state = "pending" /\ props[i].expires <= tick - 1
                    THEN "expired" ELSE props[i].state
    BY ExpiredFacts DEF IInv, TypeOK, StartAgents
  <1>2. TypeOK'
    <2>1. silent' \in [Agents -> Nat]
      BY AdvisoryAssumption DEF IInv, TypeOK, StartAgents, Capped
    <2>2. TypeOK
      BY DEF IInv
    <2>3. /\ review' = review /\ readiness' = readiness /\ judging' = judging
          /\ tick' = tick /\ cancelled' = cancelled
          /\ pc' = "advising" /\ cursor' = 1
      BY DEF StartAgents
    <2>4. AgentCount \in Nat /\ 1 \in 1..(AgentCount + 1)
      BY AdvisoryAssumption
    <2>5. judging # 0 => cursor' <= AgentCount
      BY <2>2, <2>3, <2>4 DEF TypeOK, StartAgents
    <2>6. /\ readiness' \in 0..Len(props') /\ judging' \in 0..Len(props')
          /\ review' \in [id : 0..Len(props'), verdict : {"none", "accepted", "rejected"},
                          at : Nat]
          /\ review'.id = 0 <=> review' = NoReview
      <3>1. Len(props') = Len(props)
        BY <1>1
      <3>. QED  BY <2>2, <2>3, <3>1 DEF TypeOK
    <2>7. /\ cursor' \in 1..(AgentCount + 1) /\ tick' \in 0..EndTick
          /\ cancelled' \in BOOLEAN
          /\ judging' # 0 => cursor' <= AgentCount
      BY <2>2, <2>3, <2>4, <2>5 DEF TypeOK
    <2>8. props' \in Seq(ProposalType)
      BY <1>1
    <2>. QED  BY <2>1, <2>3, <2>6, <2>7, <2>8 DEF TypeOK
  <1>3. Begun'
    BY DEF IInv, Begun, StartAgents
  <1>4. OutOfBoundsNotOffered' /\ OneReadinessPending' /\ AcceptedInTime'
    <2>1. readiness' = readiness /\ judging' = judging
      BY DEF StartAgents
    <2>2. \A i \in DOMAIN props :
            /\ props'[i].within = props[i].within /\ props'[i].source = props[i].source
            /\ props'[i].state = props[i].state \/ props'[i].state = "expired"
      BY <1>1 DEF Keeps
    <2>3. OutOfBoundsNotOffered' /\ OneReadinessPending'
      BY <1>1, <2>1, <2>2 DEF IInv, OutOfBoundsNotOffered, OneReadinessPending
    <2>4. AcceptedInTime'
      BY <1>1 DEF IInv, AcceptedInTime, Keeps
    <2>. QED  BY <2>3, <2>4
  <1>5. Current'
    <2>. SUFFICES ASSUME NEW i \in DOMAIN props, props'[i].state = "pending"
                  PROVE  tick <= props[i].expires
      BY <1>1 DEF Current, Keeps, StartAgents
    <2>1. props[i].expires \in Nat /\ tick \in Nat
      BY Numbers DEF IInv
    <2>2. ~(props[i].expires <= tick - 1)
      BY <1>1
    <2>. QED
      BY <2>1, <2>2
  <1>6. ReviewHolds'
    BY DEF IInv, ReviewHolds, StartAgents, LoopFree, NoReview
  <1>. QED
    BY <1>2, <1>3, <1>4, <1>5, <1>6 DEF IInv

\* The task waits, or ends: no proposal is written.
LEMMA WaitIInv ==
  ASSUME IInv, AgentsDone \/ End \/ AgentPasses \/ CancelRun
  PROVE  IInv'
  <1>1. TypeOK'
    <2>1. CASE AgentsDone
      BY <2>1, AdvisoryAssumption DEF IInv, TypeOK, AgentsDone
    <2>2. CASE End
      BY <2>2 DEF IInv, TypeOK, End
    <2>3. CASE AgentPasses
      BY <2>3, AdvisoryAssumption DEF IInv, TypeOK, AgentPasses
    <2>4. CASE CancelRun
      BY <2>4 DEF IInv, TypeOK, CancelRun
    <2>. QED
      BY <2>1, <2>2, <2>3, <2>4
  <1>2. Begun' /\ OutOfBoundsNotOffered' /\ OneReadinessPending' /\ AcceptedInTime'
        /\ ReviewHolds'
    BY DEF IInv, Begun, OutOfBoundsNotOffered, OneReadinessPending, AcceptedInTime,
           ReviewHolds, AgentsDone, End, AgentPasses, CancelRun
  <1>3. Current'
    BY DEF IInv, Current, AgentsDone, End, AgentPasses, CancelRun
  <1>. QED
    BY <1>1, <1>2, <1>3 DEF IInv

\* A review that begins finds its proposal undecided and in time.
LEMMA BeginReviewIInv ==
  ASSUME IInv, NEW i \in DOMAIN props,
         NEW verdict \in {"accepted", "rejected"}, BeginReview(i, verdict)
  PROVE  IInv'
  <1>1. TypeOK /\ i \in 1..Len(props) /\ Len(props) \in Nat /\ Now \in Nat
    BY Numbers DEF IInv, Now
  <1>2. TypeOK'
    BY <1>1 DEF TypeOK, BeginReview, NoReview
  <1>3. ReviewHolds'
    <2>1. props[i].state = "pending" /\ props[i].expires \in Nat /\ tick \in Nat
      BY <1>1, Numbers DEF BeginReview
    <2>2. pc # "ended" => tick <= props[i].expires + 1
      BY <1>1, <2>1 DEF IInv, Current, TypeOK
    <2>3. Now <= props[i].expires + 1
      BY <2>1, <2>2 DEF Now
    <2>. QED
      BY <2>1, <2>3 DEF BeginReview, ReviewHolds
  <1>. QED
    BY <1>2, <1>3 DEF IInv, Begun, OutOfBoundsNotOffered, OneReadinessPending,
                      AcceptedInTime, Current, BeginReview

\* The write of a verdict hits the proposal the check found.
LEMMA EndReviewIInv ==
  ASSUME IInv, EndReview
  PROVE  IInv'
  <1>. DEFINE k == review.id
              p == [props[k] EXCEPT !.state = review.verdict, !.at = review.at]
  <1>1. /\ TypeOK /\ k \in DOMAIN props /\ k # 0
        /\ review.verdict \in {"accepted", "rejected"} /\ review.at \in Nat
        /\ review.at <= props[k].expires + 1
    BY Numbers DEF IInv, TypeOK, EndReview, LoopFree, ReviewHolds
  <1>2. /\ p \in ProposalType /\ p.source = props[k].source
        /\ p.within = props[k].within /\ p.expires = props[k].expires
        /\ p.state = review.verdict /\ p.at = review.at
    <2>1. props[k] \in ProposalType
      BY <1>1, Numbers
    <2>. QED
      BY <1>1, <2>1 DEF ProposalType, Terminal
  <1>3. props' = [props EXCEPT ![k] = p]
    BY DEF EndReview
  <1>. HIDE DEF p, k
  <1>4. /\ props' \in Seq(ProposalType) /\ DOMAIN props' = DOMAIN props
        /\ Len(props') = Len(props) /\ props'[k] = p
        /\ \A i \in DOMAIN props : i # k => props'[i] = props[i]
    BY <1>1, <1>2, <1>3 DEF TypeOK
  <1>5. TypeOK'
    BY <1>1, <1>4, AdvisoryAssumption DEF TypeOK, EndReview, NoReview
  <1>6. OutOfBoundsNotOffered' /\ OneReadinessPending' /\ AcceptedInTime'
    <2>. SUFFICES ASSUME NEW i \in DOMAIN props
                  PROVE  /\ ~props'[i].within /\ props'[i].state = "pending"
                              => i = judging
                         /\ props'[i].source = "readiness" /\ props'[i].state = "pending"
                              => i = readiness
                         /\ props'[i].state = "accepted"
                              => props'[i].at <= props'[i].expires + 1
      BY <1>4 DEF OutOfBoundsNotOffered, OneReadinessPending, AcceptedInTime, EndReview
    <2>1. CASE i = k
      BY <1>1, <1>2, <1>4, <2>1
    <2>2. CASE i # k
      BY <1>4, <2>2 DEF IInv, OutOfBoundsNotOffered, OneReadinessPending, AcceptedInTime
    <2>. QED
      BY <2>1, <2>2
  <1>7. Current'
    BY <1>1, <1>2, <1>4 DEF IInv, Current, EndReview
  <1>8. ReviewHolds' /\ Begun'
    BY DEF IInv, ReviewHolds, Begun, EndReview, NoReview
  <1>. QED
    BY <1>5, <1>6, <1>7, <1>8 DEF IInv

\* validate() rejects the proposal it judges or leaves it as it is.
LEMMA JudgeIInv ==
  ASSUME IInv, Judge
  PROVE  IInv'
  <1>. DEFINE p == Judged(props[judging])
  <1>1. TypeOK /\ judging \in DOMAIN props /\ pc = "advising" /\ cursor <= AgentCount
    BY Numbers DEF IInv, TypeOK, Judge
  <1>2. /\ p \in ProposalType /\ Keeps(p, props[judging])
        /\ p.state = IF props[judging].within THEN props[judging].state ELSE "rejected"
    <2>1. props[judging] \in ProposalType
      BY <1>1, Numbers
    <2>. QED
      BY <2>1 DEF Judged, Keeps, ProposalType, Terminal
  <1>3. props' = [props EXCEPT ![judging] = p]
    BY DEF Judge
  <1>. HIDE DEF p
  <1>4. /\ props' \in Seq(ProposalType) /\ DOMAIN props' = DOMAIN props
        /\ Len(props') = Len(props) /\ props'[judging] = p
        /\ \A i \in DOMAIN props : i # judging => props'[i] = props[i]
    BY <1>1, <1>2, <1>3 DEF TypeOK
  <1>5. TypeOK'
    <2>1. silent' \in [Agents -> Nat] /\ cursor' \in 1..(AgentCount + 1)
      <3>1. cursor \in 1..(AgentCount + 1) /\ silent \in [Agents -> Nat]
        BY <1>1 DEF TypeOK
      <3>2. silent' \in [Agents -> Nat]
        BY <3>1 DEF Judge
      <3>. QED
        BY <1>1, <3>1, <3>2, AdvisoryAssumption DEF Judge
    <2>. QED
      BY <1>1, <1>4, <2>1 DEF TypeOK, Judge
  <1>6. OutOfBoundsNotOffered' /\ OneReadinessPending' /\ AcceptedInTime'
    BY <1>1, <1>2, <1>4, Numbers
       DEF IInv, OutOfBoundsNotOffered, OneReadinessPending, AcceptedInTime,
           Judge, Keeps
  <1>7. Current'
    BY <1>1, <1>2, <1>4 DEF IInv, Current, Judge, Keeps
  <1>8. ReviewHolds' /\ Begun'
    BY <1>1, <1>2, <1>4, Numbers DEF IInv, ReviewHolds, Begun, Judge, Keeps
  <1>. QED
    BY <1>5, <1>6, <1>7, <1>8 DEF IInv

\* validate() stores the proposal of an agent before it judges it.
LEMMA AgentProposesIInv ==
  ASSUME IInv, NEW within \in BOOLEAN, AgentProposes(within)
  PROVE  IInv'
  <1>. DEFINE p == Proposal("agent", within, tick - 1)
              n == Len(props) + 1
  <1>1. /\ TypeOK /\ pc = "advising" /\ tick \in Nat /\ tick >= 1 /\ judging = 0
        /\ Len(props) \in Nat /\ DOMAIN props = 1..Len(props)
    BY Numbers DEF IInv, Begun, AgentProposes
  <1>2. /\ p \in ProposalType /\ p.source = "agent" /\ p.within = within
        /\ p.expires = tick - 1 + Lifetime /\ p.state = "pending"
    <2>1. tick - 1 \in Nat
      BY <1>1
    <2>. HIDE <1>1
    <2>. QED
      BY <2>1, AdvisoryAssumption DEF Proposal, ProposalType, Sources
  <1>3. props' = Append(props, p) /\ judging' = n
    BY DEF AgentProposes
  <1>. HIDE DEF p
  <1>4. /\ props' \in Seq(ProposalType) /\ DOMAIN props' = 1..n
        /\ Len(props') = n /\ props'[n] = p
        /\ \A i \in DOMAIN props : props'[i] = props[i]
    BY <1>1, <1>2, <1>3 DEF TypeOK
  <1>5. TypeOK'
    <2>1. readiness \in 0..n /\ judging' \in 0..n /\ review.id \in 0..n
      BY <1>1, <1>3, Numbers
    <2>2. review \in [id : 0..n, verdict : {"none", "accepted", "rejected"}, at : Nat]
      BY <1>1, <2>1 DEF TypeOK
    <2>. QED
      BY <1>1, <1>4, <2>1, <2>2 DEF TypeOK, AgentProposes
  <1>6. Current'
    <2>1. tick <= p.expires
      BY <1>1, <1>2, AdvisoryAssumption
    <2>. QED
      BY <1>1, <1>2, <1>4, <2>1 DEF IInv, Current, AgentProposes
  <1>7. OutOfBoundsNotOffered' /\ OneReadinessPending' /\ AcceptedInTime'
    BY <1>1, <1>2, <1>3, <1>4
       DEF IInv, OutOfBoundsNotOffered, OneReadinessPending, AcceptedInTime, AgentProposes
  <1>8. ReviewHolds' /\ Begun'
    BY <1>1, <1>4, Numbers DEF IInv, ReviewHolds, Begun, AgentProposes
  <1>. QED
    BY <1>5, <1>6, <1>7, <1>8 DEF IInv

\* The outlook's proposal is judged as it is stored.
LEMMA SubmitOutlookIInv ==
  ASSUME IInv, NEW within \in BOOLEAN, SubmitOutlook(within)
  PROVE  IInv'
  <1>. DEFINE n == Len(props) + 1
  <1>1. /\ TypeOK /\ tick \in Nat /\ Now \in Nat /\ review = NoReview
        /\ Len(props) \in Nat /\ DOMAIN props = 1..Len(props)
    BY Numbers DEF IInv, Now, SubmitOutlook, LoopFree
  <1>2. /\ props' \in Seq(ProposalType) /\ Len(props') = n /\ DOMAIN props' = 1..n
        /\ \A i \in DOMAIN props : props'[i] = props[i]
        /\ props'[n].source = "outlook" /\ props'[n].within = within
        /\ props'[n].expires = Now + Lifetime
        /\ props'[n].state = IF within THEN "pending" ELSE "rejected"
    <2>. DEFINE p == Proposal("outlook", within, Now)
    <2>1. /\ p \in ProposalType /\ p.source = "outlook" /\ p.state = "pending"
          /\ p.expires = Now + Lifetime /\ p.within = within
      BY <1>1, AdvisoryAssumption DEF Proposal, ProposalType, Sources
    <2>2. props' = Validated(props, p) /\ props \in Seq(ProposalType)
      BY <1>1 DEF TypeOK, SubmitOutlook
    <2>. HIDE DEF p
    <2>3. /\ Validated(props, p) \in Seq(ProposalType)
          /\ Len(Validated(props, p)) = n /\ DOMAIN Validated(props, p) = 1..n
          /\ \A i \in DOMAIN props : Validated(props, p)[i] = props[i]
          /\ Keeps(Validated(props, p)[n], p)
          /\ Validated(props, p)[n].state = IF p.within THEN "pending" ELSE "rejected"
      BY <2>1, <2>2, ValidatedFacts
    <2>. QED
      BY <2>1, <2>2, <2>3 DEF Keeps
  <1>3. TypeOK'
    <2>1. readiness \in 0..n /\ judging \in 0..n
      BY <1>1 DEF TypeOK
    <2>2. review \in [id : 0..n, verdict : {"none", "accepted", "rejected"}, at : Nat]
      BY <1>1 DEF NoReview
    <2>. QED
      BY <1>1, <1>2, <2>1, <2>2 DEF TypeOK, SubmitOutlook
  <1>4. Current'
    <2>1. pc # "ended" => tick + 1 <= props'[n].expires
      BY <1>1, <1>2, AdvisoryAssumption DEF Now
    <2>2. props'[n].expires \in Nat
      BY <1>1, <1>2, AdvisoryAssumption
    <2>. QED
      BY <1>1, <1>2, <2>1, <2>2 DEF IInv, Current, SubmitOutlook
  <1>5. OutOfBoundsNotOffered' /\ OneReadinessPending' /\ AcceptedInTime'
    <2>1. \A i \in DOMAIN props' : i = n \/ i \in DOMAIN props
      BY <1>1, <1>2
    <2>2. readiness' = readiness /\ judging' = judging
      BY DEF SubmitOutlook
    <2>3. OutOfBoundsNotOffered'
      BY <1>2, <2>1, <2>2 DEF IInv, OutOfBoundsNotOffered
    <2>4. OneReadinessPending'
      BY <1>2, <2>1, <2>2 DEF IInv, OneReadinessPending
    <2>5. AcceptedInTime'
      BY <1>2, <2>1 DEF IInv, AcceptedInTime
    <2>. QED  BY <2>3, <2>4, <2>5
  <1>6. ReviewHolds' /\ Begun'
    BY <1>1 DEF IInv, ReviewHolds, Begun, SubmitOutlook, NoReview
  <1>. QED
    BY <1>3, <1>4, <1>5, <1>6 DEF IInv

\* A tick adds one proposal at most; a new readiness proposal that passes
\* the gate supersedes the one before.
LEMMA EvaluateIInv ==
  ASSUME IInv, NEW source \in {"none", "readiness", "alert"},
         NEW within \in BOOLEAN, Evaluate(source, within)
  PROVE  IInv'
  <1>. DEFINE n == Len(props) + 1
              p == Proposal(source, within, tick)
              qs == Validated(props, p)
  <1>1. /\ TypeOK /\ tick \in Nat /\ review = NoReview /\ judging = 0
        /\ Len(props) \in Nat /\ DOMAIN props = 1..Len(props)
        /\ readiness \in 0..Len(props) /\ props \in Seq(ProposalType)
    BY Numbers DEF IInv, TypeOK, Evaluate, LoopFree
  <1>2. ASSUME source # "none"
        PROVE  /\ qs \in Seq(ProposalType) /\ Len(qs) = n /\ DOMAIN qs = 1..n
               /\ \A i \in DOMAIN props : qs[i] = props[i]
               /\ qs[n].source = source /\ qs[n].expires = tick + Lifetime
               /\ qs[n].state \in {"pending", "rejected"}
               /\ qs[n].state = "pending" => qs[n].within
               /\ within <=> qs[n].state = "pending"
    <2>1. /\ p \in ProposalType /\ p.source = source /\ p.state = "pending"
          /\ p.expires = tick + Lifetime /\ p.within = within
      BY <1>1, <1>2, AdvisoryAssumption DEF Proposal, ProposalType, Sources
    <2>. HIDE DEF p
    <2>2. /\ Validated(props, p) \in Seq(ProposalType)
          /\ Len(Validated(props, p)) = n /\ DOMAIN Validated(props, p) = 1..n
          /\ \A i \in DOMAIN props : Validated(props, p)[i] = props[i]
          /\ Keeps(Validated(props, p)[n], p)
          /\ Validated(props, p)[n].state = IF p.within THEN "pending" ELSE "rejected"
      BY <1>1, <2>1, ValidatedFacts
    <2>. QED
      BY <2>1, <2>2 DEF Keeps
  <1>. HIDE DEF qs, p
  \* Whatever the source is: what the step does to the proposals.
  <1>3. /\ props' \in Seq(ProposalType)
        /\ Len(props') \in {Len(props), n} /\ DOMAIN props' = 1..Len(props')
        /\ readiness' \in 0..Len(props')
        /\ \A i \in DOMAIN props :
             /\ Keeps(props'[i], props[i])
             /\ props'[i].state \in {props[i].state, "superseded"}
        /\ Len(props') = n =>
             /\ props'[n].expires = tick + Lifetime
             /\ props'[n].state = "pending" => props'[n].within
             /\ props'[n].state \in {"pending", "rejected"}
        /\ \A i \in DOMAIN props' :
             props'[i].source = "readiness" /\ props'[i].state = "pending"
               => i = readiness'
    <2>0. /\ n # Len(props) /\ n \in Nat /\ n \notin DOMAIN props
          /\ \A i \in 1..n : i \in DOMAIN props \/ i = n
      <3>1. Len(props) \in Nat /\ DOMAIN props = 1..Len(props)
        BY <1>1
      <3>2. \A m \in Nat : m + 1 # m /\ m + 1 \in Nat /\ m + 1 \notin 1..m
        OBVIOUS
      <3>3. ASSUME NEW i \in 1..n, i # n
            PROVE  i \in 1..Len(props)
        BY <3>1, <3>3
      <3>. QED
        BY <3>1, <3>2, <3>3
    <2>1. \A i \in DOMAIN props :
            /\ Keeps(props[i], props[i])
            /\ props[i].source = "readiness" /\ props[i].state = "pending" => i = readiness
      BY DEF Keeps, IInv, OneReadinessPending
    <2>2. CASE source = "none"
      <3>1. props' = props /\ readiness' = readiness
        BY <2>2 DEF Evaluate
      <3>. QED
        BY <1>1, <2>0, <2>1, <3>1
    <2>3. CASE source = "alert" \/ (source = "readiness" /\ ~within)
      <3>1. props' = qs /\ readiness' = readiness /\ source # "none"
        BY <2>3 DEF Evaluate, Advised, qs, p
      <3>2. qs[n].source = "readiness" => qs[n].state # "pending"
        BY <1>2, <2>3
      <3>3. \A i \in DOMAIN props : qs[i] = props[i]
        BY <1>2, <3>1
      <3>4. \A i \in 1..n :
              qs[i].source = "readiness" /\ qs[i].state = "pending" => i = readiness
        BY <2>0, <2>1, <3>2, <3>3
      <3>5. readiness \in 0..n
        BY <1>1
      <3>. QED
        BY <1>2, <2>1, <3>1, <3>3, <3>4, <3>5
    <2>4. CASE source = "readiness" /\ within
      <3>1. props' = Superseded(qs, readiness) /\ readiness' = n
        BY <2>4 DEF Evaluate, Advised, qs, p
      <3>2. /\ props' \in Seq(ProposalType) /\ Len(props') = n /\ DOMAIN props' = 1..n
            /\ \A i \in 1..n :
                 /\ Keeps(props'[i], qs[i])
                 /\ props'[i].state = IF i = readiness /\ qs[i].state \notin Terminal
                                        THEN "superseded" ELSE qs[i].state
        BY <1>1, <1>2, <2>4, <3>1, SupersededFacts
      <3>3. /\ props'[n].state = "pending" /\ props'[n].within
            /\ props'[n].expires = tick + Lifetime
        <4>1. n \in 1..n /\ n # readiness
          BY <1>1
        <4>. QED
          BY <1>2, <2>4, <3>2, <4>1 DEF Keeps
      <3>4. ASSUME NEW i \in DOMAIN props
            PROVE  /\ Keeps(props'[i], props[i])
                   /\ props'[i].state \in {props[i].state, "superseded"}
                   /\ ~(props'[i].source = "readiness" /\ props'[i].state = "pending")
        <4>1. i \in 1..n /\ qs[i] = props[i]
          BY <1>1, <1>2, <2>4
        <4>2. /\ Keeps(props'[i], props[i])
              /\ props'[i].state = IF i = readiness /\ props[i].state \notin Terminal
                                     THEN "superseded" ELSE props[i].state
          BY <3>2, <4>1
        <4>3. props[i].source = "readiness" /\ props[i].state = "pending"
                => i = readiness
          BY DEF IInv, OneReadinessPending
        <4>. QED
          BY <4>2, <4>3 DEF Keeps, Terminal
      <3>. QED
        BY <1>1, <3>1, <3>2, <3>3, <3>4
    <2>. QED
      BY <2>1, <2>2, <2>3, <2>4
  <1>4. pc = "waiting" /\ pc' = "sending" /\ tick' = tick + 1 /\ judging' = 0
        /\ tick < EndTick /\ review' = NoReview /\ review' = review
        /\ cursor' = cursor /\ silent' = silent /\ cancelled' = cancelled
    BY <1>1 DEF Evaluate
  <1>5. /\ Len(props') \in Nat
         /\ \A i \in DOMAIN props' : i \notin DOMAIN props => i = n /\ Len(props') = n
    <2>1. CASE Len(props') = Len(props)
      BY <1>1, <1>3, <2>1
    <2>2. CASE Len(props') = n
      BY <1>1, <1>3, <2>2
    <2>. QED
      BY <1>3, <2>1, <2>2
  <1>6. TypeOK'
    <2>1. review' \in [id : 0..Len(props'), verdict : {"none", "accepted", "rejected"},
                       at : Nat]
          /\ (review'.id = 0 <=> review' = NoReview)
      BY <1>4, <1>5 DEF NoReview
    <2>2. tick' \in 0..EndTick /\ judging' \in 0..Len(props')
      BY <1>1, <1>4, <1>5, AdvisoryAssumption
    <2>3. /\ cancelled' \in BOOLEAN /\ cursor' \in 1..(AgentCount + 1)
          /\ silent' \in [Agents -> Nat]
      BY <1>1, <1>4 DEF TypeOK
    <2>. QED
      BY <1>3, <1>4, <2>1, <2>2, <2>3 DEF TypeOK
  <1>7. Current'
    <2>. SUFFICES ASSUME NEW i \in DOMAIN props', props'[i].state = "pending"
                  PROVE  tick + 1 <= props'[i].expires + 1
      BY <1>4 DEF Current
    <2>1. CASE i \in DOMAIN props
      <3>1. props[i].state = "pending" /\ props'[i].expires = props[i].expires
        BY <1>3, <2>1 DEF Keeps
      <3>2. tick <= props[i].expires /\ props[i].expires \in Nat
        BY <1>1, <1>4, <2>1, <3>1, Numbers DEF IInv, Current
      <3>. QED
        BY <1>1, <3>1, <3>2
    <2>2. CASE i \notin DOMAIN props
      <3>1. i = n /\ Len(props') = n
        BY <1>5, <2>2
      <3>. QED
        BY <1>1, <1>3, <3>1, AdvisoryAssumption
    <2>. QED
      BY <2>1, <2>2
  <1>8. OutOfBoundsNotOffered' /\ AcceptedInTime'
    <2>. SUFFICES ASSUME NEW i \in DOMAIN props'
                  PROVE  /\ props'[i].state = "pending" => props'[i].within
                         /\ props'[i].state = "accepted"
                              => props'[i].at <= props'[i].expires + 1
      BY DEF OutOfBoundsNotOffered, AcceptedInTime
    <2>1. CASE i \in DOMAIN props
      <3>1. props[i].state = "pending" => props[i].within
        BY <1>1, <2>1, Numbers DEF IInv, OutOfBoundsNotOffered
      <3>. QED
        BY <1>3, <2>1, <3>1 DEF IInv, AcceptedInTime, Keeps
    <2>2. CASE i \notin DOMAIN props
      <3>1. i = n /\ Len(props') = n
        BY <1>5, <2>2
      <3>. QED
        BY <1>3, <3>1
    <2>. QED
      BY <2>1, <2>2
  <1>9. OneReadinessPending'
    BY <1>3 DEF OneReadinessPending
  <1>10. Begun' /\ ReviewHolds'
    BY <1>1, <1>4 DEF Begun, ReviewHolds, NoReview
  <1>. QED
    BY <1>6, <1>7, <1>8, <1>9, <1>10 DEF IInv

\* IInv is an inductive invariant.
LEMMA NextIInv == IInv /\ [Next]_vars => IInv'
  <1>. SUFFICES ASSUME IInv, [Next]_vars
                PROVE  IInv'
    OBVIOUS
  <1>1. ASSUME NEW source \in {"none", "readiness", "alert"}, NEW within \in BOOLEAN,
               Evaluate(source, within)
        PROVE  IInv'
    BY <1>1, EvaluateIInv
  <1>2. ASSUME NEW wall \in WallSteps, StartAgents(wall)
        PROVE  IInv'
    BY <1>2, StartAgentsIInv
  <1>3. CASE AgentsDone \/ End \/ AgentPasses \/ CancelRun
    BY <1>3, WaitIInv
  <1>4. ASSUME NEW within \in BOOLEAN, AgentProposes(within)
        PROVE  IInv'
    BY <1>4, AgentProposesIInv
  <1>5. CASE Judge
    BY <1>5, JudgeIInv
  <1>6. ASSUME NEW i \in DOMAIN props, NEW verdict \in {"accepted", "rejected"},
               BeginReview(i, verdict)
        PROVE  IInv'
    BY <1>6, BeginReviewIInv
  <1>7. CASE EndReview
    BY <1>7, EndReviewIInv
  <1>8. ASSUME NEW within \in BOOLEAN, SubmitOutlook(within)
        PROVE  IInv'
    BY <1>8, SubmitOutlookIInv
  <1>9. CASE UNCHANGED vars
    BY <1>9, StutterIInv
  <1>. QED
    BY <1>1, <1>2, <1>3, <1>4, <1>5, <1>6, <1>7, <1>8, <1>9
       DEF Next, Task, Thread, Handlers

LEMMA SpecIInv == Spec => []IInv
  BY InitIInv, NextIInv, PTL DEF Spec

-----------------------------------------------------------------------------
(* The theorems                                                            *)

\* The state is one the program can be in, for any constants.
THEOREM TypeCorrect == Spec => []TypeOK
  <1>1. IInv => TypeOK
    BY DEF IInv
  <1>. QED
    BY SpecIInv, <1>1, PTL

\* No proposal out of bounds waits for review but while its agent's call of
\* validate() is under way.
THEOREM BoundsKept == Spec => []OutOfBoundsNotOffered
  <1>1. IInv => OutOfBoundsNotOffered
    BY DEF IInv
  <1>. QED
    BY SpecIInv, <1>1, PTL

\* The readiness controller has at most one proposal waiting, its newest.
THEOREM OneReadiness == Spec => []OneReadinessPending
  <1>1. IInv => OneReadinessPending
    BY DEF IInv
  <1>. QED
    BY SpecIInv, <1>1, PTL

\* No proposal waits, and none is accepted, more than one tick past its
\* deadline, while the run lives.
THEOREM DeadlinesKept == Spec => []DeadlineKept
  <1>1. IInv => DeadlineKept
    <2>. SUFFICES ASSUME IInv, NEW i \in DOMAIN props
                  PROVE  /\ props[i].state = "pending" /\ pc # "ended"
                              => tick <= props[i].expires + 1
                         /\ props[i].state = "accepted"
                              => props[i].at <= props[i].expires + 1
      BY DEF DeadlineKept
    <2>1. tick \in Nat /\ props[i].expires \in Nat
      BY Numbers DEF IInv
    <2>2. pc \in {"waiting", "sending", "advising", "ended"}
      BY DEF IInv, TypeOK
    <2>. QED
      BY <2>1, <2>2 DEF IInv, Current, AcceptedInTime
  <1>. QED
    BY SpecIInv, <1>1, PTL

\* A proposal within bounds that is decided is never decided again.
THEOREM NeverDecidedTwice == Spec => DecidedOnce
  <1>. DEFINE Once == \A i \in DOMAIN props :
                props[i].within /\ props[i].state \in Terminal
                  => props'[i].state = props[i].state
  <1>1. IInv /\ [Next]_vars => [Once]_vars
    <2>. SUFFICES ASSUME IInv, [Next]_vars, NEW i \in DOMAIN props,
                         props[i].within, props[i].state \in Terminal
                  PROVE  props'[i].state = props[i].state
      OBVIOUS
    <2>0. /\ TypeOK /\ i \in 1..Len(props) /\ Len(props) \in Nat
          /\ props[i].state # "pending" /\ props[i] \in ProposalType
          /\ props \in Seq(ProposalType) /\ tick \in Nat
      BY Numbers DEF IInv, TypeOK, Terminal
    <2>1. ASSUME NEW source \in {"none", "readiness", "alert"}, NEW within \in BOOLEAN,
                 Evaluate(source, within)
          PROVE  props'[i].state = props[i].state
      <3>. DEFINE qs == Validated(props, Proposal(source, within, tick))
      <3>1. qs[i] = props[i]
        BY <2>0 DEF Validated
      <3>2. Superseded(qs, readiness)[i] = props[i]
        BY <3>1 DEF Superseded
      <3>. HIDE DEF qs
      <3>3. props' \in {props, qs, Superseded(qs, readiness)}
        BY <2>1 DEF Evaluate, Advised, qs
      <3>. QED
        BY <3>1, <3>2, <3>3
    <2>2. ASSUME NEW wall \in WallSteps, StartAgents(wall)
          PROVE  props'[i].state = props[i].state
      BY <2>0, <2>2, ExpiredFacts DEF StartAgents
    <2>3. CASE AgentsDone \/ End \/ AgentPasses \/ CancelRun
      BY <2>3 DEF AgentsDone, End, AgentPasses, CancelRun
    <2>4. ASSUME NEW within \in BOOLEAN, AgentProposes(within)
          PROVE  props'[i].state = props[i].state
      BY <2>0, <2>4 DEF AgentProposes
    <2>5. CASE Judge
      <3>1. Judged(props[i]) = props[i]
        BY DEF Judged
      <3>. QED
        BY <2>0, <2>5, <3>1 DEF Judge
    <2>6. ASSUME NEW j \in DOMAIN props, NEW verdict \in {"accepted", "rejected"},
                 BeginReview(j, verdict)
          PROVE  props'[i].state = props[i].state
      BY <2>6 DEF BeginReview
    <2>7. CASE EndReview
      <3>1. review.id # i
        BY <2>0, <2>7 DEF IInv, TypeOK, ReviewHolds, EndReview, LoopFree
      <3>. QED
        BY <2>0, <2>7, <3>1 DEF EndReview
    <2>8. ASSUME NEW within \in BOOLEAN, SubmitOutlook(within)
          PROVE  props'[i].state = props[i].state
      BY <2>0, <2>8 DEF SubmitOutlook, Validated
    <2>9. CASE UNCHANGED vars
      BY <2>9 DEF vars
    <2>. QED
      BY <2>1, <2>2, <2>3, <2>4, <2>5, <2>6, <2>7, <2>8, <2>9
         DEF Next, Task, Thread, Handlers
  <1>. QED
    BY SpecIInv, <1>1, PTL DEF Spec, DecidedOnce
=============================================================================
