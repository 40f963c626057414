-------------------------- MODULE RunLifecycleProofs --------------------------
(***************************************************************************)
(* Theorems of RunLifecycle, for any number of runs and sockets.           *)
(*                                                                         *)
(* The safety properties are not inductive: a client is told in the last   *)
(* phase of its run, so the invariant says what each phase guarantees: the *)
(* result is stored before the run persists it, a run that is notifying    *)
(* has left the active maps, a run whose verdict is evaluated was not cut  *)
(* short, a pending send is one to a watcher of the run.                   *)
(***************************************************************************)
EXTENDS RunLifecycle, TLAPS

\* What the phase of a run guarantees: a task that waits has a tick left to do.
PhasesInv ==
    \A r \in Runs :
        /\ pc[r] \in {"persisting", "notifying"} => r \in completed
        /\ pc[r] = "notifying" => r \notin active
        /\ pc[r] \in {"waiting", "woken"} => tick[r] < EndTick[r]
        /\ pc[r] = "failing" => r \in raised
        /\ pc[r] = "evaluating" => r \in raised \/ tick[r] >= EndTick[r]

\* Only watchers of a run are sent its messages, and those who were told watch a
\* run in its last phase.
SendsInv ==
    /\ \A r \in Runs : \A c \in pending[r] : Target[c] = r
    /\ \A c \in told : /\ Target[c] \in completed /\ Target[c] \notin active
                       /\ pc[Target[c]] \in {"notifying", "gone"}

\* A run is cancelled by a caller or by its collapse.
CancelInv ==
    \A r \in Runs :
        /\ collapse[r] => r \in Collapsing
        /\ cancelled[r] => r \in stopped \/ r \in Collapsing

\* The two pause flags, and the steps a pause has let through: a task that was
\* woken has its step before it, any other has had it.
PauseOK(r) ==
    /\ pc[r] = "new" => r \notin active /\ ~paused[r]
    /\ pc[r] = "created" => ~paused[r]
    /\ pc[r] \in {"created", "waiting", "woken", "sending", "sleeping"}
          => r \in active
    /\ (r \in active /\ pc[r] # "created" /\ ~cancelled[r])
          => (paused[r] <=> ~gate[r])
    /\ (paused[r] /\ ~cancelled[r]) =>
          IF pc[r] = "woken" THEN sincePause[r] = 0 ELSE sincePause[r] <= 1
PauseInv == \A r \in Runs : PauseOK(r)

\* A run that still ticks has its last tick cached.
Ticking == {"new", "created", "waiting", "woken", "sending", "sleeping"}
CachedInv == \A r \in Runs : pc[r] \in Ticking => latest[r] = tick[r]

\* Who watches a run that ticks has received its last tick, or, while it is being
\* sent, the one before.
WatchOK(c) ==
    /\ socket[c] = "off" => c \notin subs /\ seen[c] = 0
    /\ (pc[Target[c]] = "sending" /\ c \in pending[Target[c]] /\ socket[c] = "open")
          => c \in subs
    /\ (c \in subs /\ seen[c] > 0 /\ pc[Target[c]] \in Ticking) =>
          IF pc[Target[c]] = "sending" /\ c \in pending[Target[c]]
          THEN latest[Target[c]] = seen[c] + 1 ELSE latest[Target[c]] = seen[c]
WatchInv == \A c \in Clients : WatchOK(c)

IndInv == TypeOK /\ PhasesInv /\ SendsInv /\ CancelInv

-----------------------------------------------------------------------------
\* Every step keeps the types.
LEMMA TypeStep ==
  ASSUME TypeOK, PhasesInv, [Next]_vars
  PROVE  TypeOK'
<1> USE EndTickAssumption, TargetAssumption DEF TypeOK, Places, IsComplete,
        vars, loopVars, pauseVars, hubVars, history
<1>1. ASSUME NEW r \in Runs, Request(r)
      PROVE  TypeOK'
  <2>1. CASE StartRun(r)
    BY <2>1 DEF StartRun
  <2>2. CASE CancelRun(r)
    BY <2>2 DEF CancelRun, Wake
  <2>3. CASE PauseRun(r)
    BY <2>3 DEF PauseRun
  <2>4. CASE ResumeRun(r)
    BY <2>4 DEF ResumeRun, Wake
  <2> QED  BY <1>1, <2>1, <2>2, <2>3, <2>4 DEF Request
<1>2. ASSUME NEW r \in Runs, Drive(r)
      PROVE  TypeOK'
  <2>1. CASE Tick(r)
    <3>1. provisional' \in BOOLEAN /\ paused' \in [Runs -> BOOLEAN]
      BY <2>1 DEF Tick
    <3>2. gate' \in [Runs -> BOOLEAN]
      BY <2>1, Zenon DEF Tick
    <3>3. /\ cancelled' \in [Runs -> BOOLEAN] /\ collapse' \in [Runs -> BOOLEAN]
          /\ pc' \in [Runs -> Places] /\ active' \subseteq Runs
      BY <2>1 DEF Tick, AfterBroadcast, LeaveLoop
    <3>4. /\ tick' \in [Runs -> Nat] /\ \A q \in Runs : tick'[q] <= EndTick[q]
          /\ latest' \in [Runs -> Nat] /\ sincePause' \in [Runs -> 0 .. 2]
      <4>1. tick[r] < EndTick[r] /\ EndTick[r] \in Nat
        BY <2>1 DEF Tick, Resumes, PhasesInv
      <4> QED  BY <2>1, <4>1 DEF Tick
    <3>5. pending' \in [Runs -> SUBSET Clients]
      BY <2>1 DEF Tick, Subscribers
    <3> QED  BY <2>1, <3>1, <3>2, <3>3, <3>4, <3>5 DEF Tick
  <2>2. CASE Raise(r)
    BY <2>2 DEF Raise, Resumes
  <2>3. CASE Wait(r)
    BY <2>3 DEF Wait
  <2>4. CASE Sent(r)
    BY <2>4 DEF Sent, AfterBroadcast, LeaveLoop
  <2>5. CASE Exit(r)
    BY <2>5 DEF Exit, LeaveLoop
  <2>6. CASE Store(r)
    BY <2>6 DEF Store
  <2>7. CASE FinalizeFails(r)
    BY <2>7 DEF FinalizeFails
  <2>8. CASE Deregister(r)
    BY <2>8 DEF Deregister, Subscribers
  <2>9. CASE Notified(r)
    BY <2>9 DEF Notified
  <2> QED  BY <1>2, <2>1, <2>2, <2>3, <2>4, <2>5, <2>6, <2>7, <2>8, <2>9 DEF Drive
<1>3. ASSUME NEW c \in Clients, Subscribe(c) \/ Disconnect(c)
      PROVE  TypeOK'
  BY <1>3 DEF Subscribe, Disconnect
<1>4. ASSUME NEW r \in Runs, NEW c \in Clients, Send(r, c)
      PROVE  TypeOK'
  <2>1. CASE Deliver(r, c)
    BY <2>1 DEF Deliver
  <2>2. CASE Drop(r, c)
    BY <2>2 DEF Drop
  <2>3. CASE Tell(r, c)
    BY <2>3 DEF Tell
  <2>4. CASE TellFails(r, c)
    BY <2>4 DEF TellFails
  <2> QED  BY <1>4, <2>1, <2>2, <2>3, <2>4 DEF Send
<1>5. CASE UNCHANGED vars
  BY <1>5
<1> QED  BY <1>1, <1>2, <1>3, <1>4, <1>5 DEF Next

\* The types hold in the initial state.
LEMMA TypeInit == Init => TypeOK
<1> SUFFICES ASSUME Init PROVE TypeOK
  OBVIOUS
<1>1. /\ provisional \in BOOLEAN
      /\ cancelled \in [Runs -> BOOLEAN] /\ collapse \in [Runs -> BOOLEAN]
      /\ paused \in [Runs -> BOOLEAN] /\ gate \in [Runs -> BOOLEAN]
  BY Zenon DEF Init
<1>2. /\ pc \in [Runs -> Places] /\ pending \in [Runs -> SUBSET Clients]
      /\ socket \in [Clients -> {"off", "open", "closed"}]
  BY DEF Init, Places
<1>3. /\ tick \in [Runs -> Nat] /\ \A r \in Runs : tick[r] <= EndTick[r]
      /\ latest \in [Runs -> Nat]
      /\ sincePause \in [Runs -> 0 .. 2] /\ seen \in [Clients -> Nat]
  BY EndTickAssumption DEF Init
<1> QED  BY <1>1, <1>2, <1>3 DEF Init, TypeOK

-----------------------------------------------------------------------------
\* Every step keeps what the phases guarantee.
LEMMA PhasesStep ==
  ASSUME TypeOK, PhasesInv, [Next]_vars
  PROVE  PhasesInv'
<1> USE EndTickAssumption DEF TypeOK, Places, PhasesInv, IsComplete,
        vars, loopVars, pauseVars, hubVars, history
<1>1. ASSUME NEW r \in Runs, Request(r)
      PROVE  PhasesInv'
  <2>1. CASE StartRun(r)
    BY <2>1 DEF StartRun
  <2>2. CASE CancelRun(r)
    BY <2>2 DEF CancelRun, Wake
  <2>3. CASE PauseRun(r)
    BY <2>3 DEF PauseRun
  <2>4. CASE ResumeRun(r)
    BY <2>4 DEF ResumeRun, Wake
  <2> QED  BY <1>1, <2>1, <2>2, <2>3, <2>4 DEF Request
<1>2. ASSUME NEW r \in Runs, Drive(r)
      PROVE  PhasesInv'
  <2>1. CASE Tick(r)
    BY <2>1 DEF Tick, AfterBroadcast, LeaveLoop, Resumes, Subscribers
  <2>2. CASE Raise(r)
    BY <2>2 DEF Raise, Resumes
  <2>3. CASE Wait(r)
    BY <2>3 DEF Wait
  <2>4. CASE Sent(r)
    BY <2>4 DEF Sent, AfterBroadcast, LeaveLoop
  <2>5. CASE Exit(r)
    BY <2>5 DEF Exit, LeaveLoop
  <2>6. CASE Store(r)
    BY <2>6 DEF Store
  <2>7. CASE FinalizeFails(r)
    BY <2>7 DEF FinalizeFails
  <2>8. CASE Deregister(r)
    BY <2>8 DEF Deregister, Subscribers
  <2>9. CASE Notified(r)
    BY <2>9 DEF Notified
  <2> QED  BY <1>2, <2>1, <2>2, <2>3, <2>4, <2>5, <2>6, <2>7, <2>8, <2>9 DEF Drive
<1>3. ASSUME NEW c \in Clients, Subscribe(c) \/ Disconnect(c)
      PROVE  PhasesInv'
  BY <1>3 DEF Subscribe, Disconnect
<1>4. ASSUME NEW r \in Runs, NEW c \in Clients, Send(r, c)
      PROVE  PhasesInv'
  <2>1. CASE Deliver(r, c)
    BY <2>1 DEF Deliver
  <2>2. CASE Drop(r, c)
    BY <2>2 DEF Drop
  <2>3. CASE Tell(r, c)
    BY <2>3 DEF Tell
  <2>4. CASE TellFails(r, c)
    BY <2>4 DEF TellFails
  <2> QED  BY <1>4, <2>1, <2>2, <2>3, <2>4 DEF Send
<1>5. CASE UNCHANGED vars
  BY <1>5
<1> QED  BY <1>1, <1>2, <1>3, <1>4, <1>5 DEF Next

-----------------------------------------------------------------------------
\* Every step keeps who is sent what.
LEMMA SendsStep ==
  ASSUME TypeOK, PhasesInv, SendsInv, [Next]_vars
  PROVE  SendsInv'
<1> USE TargetAssumption DEF TypeOK, Places, PhasesInv, SendsInv, IsComplete,
        vars, loopVars, pauseVars, hubVars, history
<1>1. ASSUME NEW r \in Runs, Request(r)
      PROVE  SendsInv'
  <2>1. CASE StartRun(r)
    BY <2>1 DEF StartRun
  <2>2. CASE CancelRun(r)
    BY <2>2 DEF CancelRun, Wake
  <2>3. CASE PauseRun(r)
    BY <2>3 DEF PauseRun
  <2>4. CASE ResumeRun(r)
    BY <2>4 DEF ResumeRun, Wake
  <2> QED  BY <1>1, <2>1, <2>2, <2>3, <2>4 DEF Request
<1>2. ASSUME NEW r \in Runs, Drive(r)
      PROVE  SendsInv'
  <2>1. CASE Tick(r)
    BY <2>1 DEF Tick, AfterBroadcast, LeaveLoop, Resumes, Subscribers
  <2>2. CASE Raise(r)
    BY <2>2 DEF Raise, Resumes
  <2>3. CASE Wait(r)
    BY <2>3 DEF Wait
  <2>4. CASE Sent(r)
    BY <2>4 DEF Sent, AfterBroadcast, LeaveLoop
  <2>5. CASE Exit(r)
    BY <2>5 DEF Exit, LeaveLoop
  <2>6. CASE Store(r)
    BY <2>6 DEF Store
  <2>7. CASE FinalizeFails(r)
    BY <2>7 DEF FinalizeFails
  <2>8. CASE Deregister(r)
    BY <2>8 DEF Deregister, Subscribers
  <2>9. CASE Notified(r)
    BY <2>9 DEF Notified
  <2> QED  BY <1>2, <2>1, <2>2, <2>3, <2>4, <2>5, <2>6, <2>7, <2>8, <2>9 DEF Drive
<1>3. ASSUME NEW c \in Clients, Subscribe(c) \/ Disconnect(c)
      PROVE  SendsInv'
  BY <1>3 DEF Subscribe, Disconnect
<1>4. ASSUME NEW r \in Runs, NEW c \in Clients, Send(r, c)
      PROVE  SendsInv'
  <2>1. CASE Deliver(r, c)
    BY <2>1 DEF Deliver
  <2>2. CASE Drop(r, c)
    BY <2>2 DEF Drop
  <2>3. CASE Tell(r, c)
    BY <2>3 DEF Tell
  <2>4. CASE TellFails(r, c)
    BY <2>4 DEF TellFails
  <2> QED  BY <1>4, <2>1, <2>2, <2>3, <2>4 DEF Send
<1>5. CASE UNCHANGED vars
  BY <1>5
<1> QED  BY <1>1, <1>2, <1>3, <1>4, <1>5 DEF Next

-----------------------------------------------------------------------------
\* Every step keeps who cancels a run.
LEMMA CancelStep ==
  ASSUME TypeOK, CancelInv, [Next]_vars
  PROVE  CancelInv'
<1> USE FlagsAssumption DEF TypeOK, Places, CancelInv, IsComplete,
        vars, loopVars, pauseVars, hubVars, history
<1>1. ASSUME NEW r \in Runs, Request(r)
      PROVE  CancelInv'
  <2>1. CASE StartRun(r)
    BY <2>1 DEF StartRun
  <2>2. CASE CancelRun(r)
    BY <2>2 DEF CancelRun, Wake
  <2>3. CASE PauseRun(r)
    BY <2>3 DEF PauseRun
  <2>4. CASE ResumeRun(r)
    BY <2>4 DEF ResumeRun, Wake
  <2> QED  BY <1>1, <2>1, <2>2, <2>3, <2>4 DEF Request
<1>2. ASSUME NEW r \in Runs, Drive(r)
      PROVE  CancelInv'
  <2>1. CASE Tick(r)
    <3>1. PICK collapsed \in BOOLEAN :
             /\ collapsed => r \in Collapsing
             /\ \/ AfterBroadcast(r, collapsed) /\ UNCHANGED collapse
                \/ /\ collapse' = [collapse EXCEPT ![r] = collapsed]
                   /\ UNCHANGED cancelled
      <4>1. PICK islanded \in {FALSE, (r \in Islanding)} :
              \E collapsed \in {FALSE, (islanded /\ r \in Collapsing)} :
                 IF Subscribers(r) = {}
                 THEN AfterBroadcast(r, collapsed) /\ UNCHANGED collapse
                 ELSE /\ pc' = [pc EXCEPT ![r] = "sending"]
                      /\ collapse' = [collapse EXCEPT ![r] = collapsed]
                      /\ UNCHANGED <<cancelled, active>>
        BY <2>1, Zenon DEF Tick
      <4>2. PICK collapsed \in {FALSE, (islanded /\ r \in Collapsing)} :
                 IF Subscribers(r) = {}
                 THEN AfterBroadcast(r, collapsed) /\ UNCHANGED collapse
                 ELSE /\ pc' = [pc EXCEPT ![r] = "sending"]
                      /\ collapse' = [collapse EXCEPT ![r] = collapsed]
                      /\ UNCHANGED <<cancelled, active>>
        BY <4>1, Zenon
      <4>3. collapsed \in BOOLEAN /\ (collapsed => r \in Collapsing)
        BY <4>2, Zenon
      <4> QED  BY <4>2, <4>3, Zenon
    <3>2. stopped' = stopped
      BY <2>1 DEF Tick
    <3>3. CASE AfterBroadcast(r, collapsed) /\ UNCHANGED collapse
      BY <3>1, <3>2, <3>3 DEF AfterBroadcast
    <3>4. CASE collapse' = [collapse EXCEPT ![r] = collapsed] /\ UNCHANGED cancelled
      <4>1. ASSUME NEW q \in Runs, collapse'[q]
            PROVE  q \in Collapsing
        BY <3>1, <3>4, <4>1, Zenon
      <4> QED  BY <3>2, <3>4, <4>1, Zenon
    <3> QED  BY <3>1, <3>3, <3>4
  <2>2. CASE Raise(r)
    BY <2>2 DEF Raise, Resumes
  <2>3. CASE Wait(r)
    BY <2>3 DEF Wait
  <2>4. CASE Sent(r)
    BY <2>4 DEF Sent, AfterBroadcast, LeaveLoop
  <2>5. CASE Exit(r)
    BY <2>5 DEF Exit, LeaveLoop
  <2>6. CASE Store(r)
    BY <2>6 DEF Store
  <2>7. CASE FinalizeFails(r)
    BY <2>7 DEF FinalizeFails
  <2>8. CASE Deregister(r)
    BY <2>8 DEF Deregister, Subscribers
  <2>9. CASE Notified(r)
    BY <2>9 DEF Notified
  <2> QED  BY <1>2, <2>1, <2>2, <2>3, <2>4, <2>5, <2>6, <2>7, <2>8, <2>9 DEF Drive
<1>3. ASSUME NEW c \in Clients, Subscribe(c) \/ Disconnect(c)
      PROVE  CancelInv'
  BY <1>3 DEF Subscribe, Disconnect
<1>4. ASSUME NEW r \in Runs, NEW c \in Clients, Send(r, c)
      PROVE  CancelInv'
  <2>1. CASE Deliver(r, c)
    BY <2>1 DEF Deliver
  <2>2. CASE Drop(r, c)
    BY <2>2 DEF Drop
  <2>3. CASE Tell(r, c)
    BY <2>3 DEF Tell
  <2>4. CASE TellFails(r, c)
    BY <2>4 DEF TellFails
  <2> QED  BY <1>4, <2>1, <2>2, <2>3, <2>4 DEF Send
<1>5. CASE UNCHANGED vars
  BY <1>5
<1> QED  BY <1>1, <1>2, <1>3, <1>4, <1>5 DEF Next

-----------------------------------------------------------------------------
\* When callers pause no run before its first step, every step keeps the pause
\* flags together.
LEMMA PauseStep ==
  ASSUME EarlyPause = FALSE, TypeOK, PauseInv, [Next]_vars
  PROVE  PauseInv'
<1> USE EndTickAssumption DEF TypeOK, Places, PauseInv, PauseOK, IsComplete,
        vars, loopVars, pauseVars, hubVars, history
<1>1. ASSUME NEW r \in Runs, Request(r)
      PROVE  PauseInv'
  <2>1. CASE StartRun(r)
    BY <2>1 DEF StartRun
  <2>2. CASE CancelRun(r)
    BY <2>2 DEF CancelRun, Wake
  <2>3. CASE PauseRun(r)
    BY <2>3 DEF PauseRun
  <2>4. CASE ResumeRun(r)
    BY <2>4 DEF ResumeRun, Wake
  <2> QED  BY <1>1, <2>1, <2>2, <2>3, <2>4 DEF Request
<1>2. ASSUME NEW r \in Runs, Drive(r)
      PROVE  PauseInv'
  <2>1. CASE Tick(r)
    <3>1. /\ paused' = paused
          /\ \A q \in Runs \ {r} : /\ pc'[q] = pc[q] /\ gate'[q] = gate[q]
                                   /\ sincePause'[q] = sincePause[q]
                                   /\ q \in active' <=> q \in active
                                   /\ cancelled'[q] = cancelled[q]
      BY <2>1 DEF Tick, AfterBroadcast, LeaveLoop
    <3>2. /\ sincePause[r] = 0 => sincePause'[r] <= 1
          /\ pc'[r] \in {"sending", "sleeping", "gone"}
          /\ pc'[r] = "gone" \/ r \in active'
          /\ r \in active' => r \in active /\ cancelled'[r] = cancelled[r]
          /\ cancelled[r] => cancelled'[r]
      BY <2>1 DEF Tick, AfterBroadcast, LeaveLoop, Resumes
    <3>3. gate'[r] <=> (gate[r] \/ pc[r] = "created")
      BY <2>1, Zenon DEF Tick
    <3>4. \/ pc[r] = "created"
          \/ pc[r] = "sleeping" /\ ~cancelled[r] /\ gate[r]
          \/ pc[r] = "woken"
      BY <2>1 DEF Tick, Resumes
    <3>5. PauseOK(r)'
      BY <3>1, <3>2, <3>3, <3>4
    <3>6. ASSUME NEW q \in Runs \ {r} PROVE PauseOK(q)'
      BY <3>1, <3>6
    <3> QED  BY <3>5, <3>6
  <2>2. CASE Raise(r)
    <3>1. /\ UNCHANGED <<active, paused, sincePause, cancelled>>
          /\ pc' = [pc EXCEPT ![r] = "failing"]
          /\ \/ pc[r] = "created"
             \/ pc[r] = "sleeping" /\ ~cancelled[r] /\ gate[r]
             \/ pc[r] = "woken"
      BY <2>2 DEF Raise, Resumes
    <3>2. gate'[r] <=> (gate[r] \/ pc[r] = "created")
      BY <2>2, Zenon DEF Raise
    <3>3. \A q \in Runs \ {r} : gate'[q] = gate[q]
      BY <2>2 DEF Raise
    <3>4. PauseOK(r)'
      BY <3>1, <3>2
    <3>5. ASSUME NEW q \in Runs \ {r} PROVE PauseOK(q)'
      BY <3>1, <3>3, <3>5
    <3> QED  BY <3>4, <3>5
  <2>3. CASE Wait(r)
    BY <2>3 DEF Wait
  <2>4. CASE Sent(r)
    BY <2>4 DEF Sent, AfterBroadcast, LeaveLoop
  <2>5. CASE Exit(r)
    BY <2>5 DEF Exit, LeaveLoop
  <2>6. CASE Store(r)
    BY <2>6 DEF Store
  <2>7. CASE FinalizeFails(r)
    BY <2>7 DEF FinalizeFails
  <2>8. CASE Deregister(r)
    BY <2>8 DEF Deregister, Subscribers
  <2>9. CASE Notified(r)
    BY <2>9 DEF Notified
  <2> QED  BY <1>2, <2>1, <2>2, <2>3, <2>4, <2>5, <2>6, <2>7, <2>8, <2>9 DEF Drive
<1>3. ASSUME NEW c \in Clients, Subscribe(c) \/ Disconnect(c)
      PROVE  PauseInv'
  BY <1>3 DEF Subscribe, Disconnect
<1>4. ASSUME NEW r \in Runs, NEW c \in Clients, Send(r, c)
      PROVE  PauseInv'
  <2>1. CASE Deliver(r, c)
    BY <2>1 DEF Deliver
  <2>2. CASE Drop(r, c)
    BY <2>2 DEF Drop
  <2>3. CASE Tell(r, c)
    BY <2>3 DEF Tell
  <2>4. CASE TellFails(r, c)
    BY <2>4 DEF TellFails
  <2> QED  BY <1>4, <2>1, <2>2, <2>3, <2>4 DEF Send
<1>5. CASE UNCHANGED vars
  BY <1>5
<1> QED  BY <1>1, <1>2, <1>3, <1>4, <1>5 DEF Next

-----------------------------------------------------------------------------
LEMMA Invariance == Spec => []IndInv
<1>1. Init => IndInv
  BY TypeInit DEF Init, IndInv, PhasesInv, SendsInv, CancelInv
<1>2. IndInv /\ [Next]_vars => IndInv'
  BY TypeStep, PhasesStep, SendsStep, CancelStep DEF IndInv
<1> QED  BY <1>1, <1>2, PTL DEF Spec

\* Every variable keeps its type, and no run goes past its end_sim_time, though a
\* task that was woken does not look at is_complete again.
THEOREM TypeCorrect == Spec => []TypeOK
<1>1. IndInv => TypeOK
  BY DEF IndInv
<1> QED  BY <1>1, Invariance, PTL

\* A client that was told run_complete finds the result of its run stored, and the
\* run out of the active maps.
THEOREM ResultBeforeNotice == Spec => []ToldFindsResult
<1>1. IndInv => ToldFindsResult
  BY DEF IndInv, SendsInv, ToldFindsResult
<1> QED  BY <1>1, Invariance, PTL

-----------------------------------------------------------------------------
\* Runs that ended by an exception stay so, no run goes back in time, and a result
\* is stored from the evaluation of its run only.
LEMMA History ==
  ASSUME TypeOK, [Next]_vars, NEW q \in Runs
  PROVE  /\ q \in raised => q \in raised'
         /\ tick'[q] >= tick[q]
         /\ q \in completed' => q \in completed \/ pc[q] = "evaluating"
<1> USE DEF TypeOK, vars, loopVars, pauseVars, hubVars, history
<1>1. ASSUME NEW r \in Runs, Drive(r)
      PROVE  /\ q \in raised => q \in raised'
             /\ tick'[q] >= tick[q]
             /\ q \in completed' => q \in completed \/ pc[q] = "evaluating"
  <2>1. CASE Tick(r)
    BY <2>1 DEF Tick
  <2>2. CASE Raise(r)
    BY <2>2 DEF Raise
  <2>3. CASE Sent(r)
    BY <2>3 DEF Sent
  <2>4. CASE Exit(r)
    BY <2>4 DEF Exit
  <2>5. CASE Store(r)
    BY <2>5 DEF Store
  <2>6. CASE Wait(r) \/ FinalizeFails(r) \/ Deregister(r) \/ Notified(r)
    BY <2>6 DEF Wait, FinalizeFails, Deregister, Notified
  <2> QED  BY <1>1, <2>1, <2>2, <2>3, <2>4, <2>5, <2>6 DEF Drive
<1>2. CASE UNCHANGED <<raised, tick, completed>>
  BY <1>2
<1>3. ASSUME ~ \E r \in Runs : Drive(r)
      PROVE  UNCHANGED <<raised, tick, completed>>
  BY <1>3 DEF Next, Request, StartRun, CancelRun, PauseRun, ResumeRun,
     Subscribe, Disconnect, Send, Deliver, Drop, Tell, TellFails
<1> QED  BY <1>1, <1>2, <1>3

\* A stored result is that of a run no stop and no collapse cut short.
THEOREM CutShortHasNoVerdict == Spec => []NoVerdictOnCutShort
<1>1. Init => NoVerdictOnCutShort
  BY DEF Init, NoVerdictOnCutShort
<1>2. ASSUME IndInv, NoVerdictOnCutShort, [Next]_vars
      PROVE  NoVerdictOnCutShort'
  <2> SUFFICES ASSUME NEW q \in Runs, q \in completed', q \notin raised'
               PROVE  tick'[q] >= EndTick[q]
    BY <1>2, TypeStep DEF IndInv, TypeOK, NoVerdictOnCutShort
  <2>1. /\ q \notin raised /\ tick'[q] >= tick[q]
        /\ q \in completed \/ pc[q] = "evaluating"
    BY <1>2, History DEF IndInv
  <2>2. tick[q] >= EndTick[q]
    BY <1>2, <2>1 DEF IndInv, PhasesInv, NoVerdictOnCutShort
  <2>3. tick[q] \in Nat /\ tick'[q] \in Nat /\ EndTick[q] \in Nat
    BY <1>2, TypeStep, EndTickAssumption DEF IndInv, TypeOK
  <2> QED  BY <2>1, <2>2, <2>3
<1> QED  BY <1>1, <1>2, Invariance, PTL DEF Spec

-----------------------------------------------------------------------------
\* Every step keeps the last tick cached.
LEMMA CachedStep ==
  ASSUME TypeOK, CachedInv, [Next]_vars
  PROVE  CachedInv'
<1> USE DEF TypeOK, Places, Ticking, CachedInv, vars, loopVars, pauseVars, hubVars, history
<1>1. ASSUME NEW r \in Runs, Request(r)
      PROVE  CachedInv'
  BY <1>1 DEF Request, StartRun, CancelRun, PauseRun, ResumeRun, Wake
<1>2. ASSUME NEW r \in Runs, Drive(r)
      PROVE  CachedInv'
  <2>1. CASE Tick(r)
    <3>1. latest'[r] = tick'[r]
      BY <2>1 DEF Tick
    <3>2. \A q \in Runs \ {r} : pc'[q] = pc[q] /\ latest'[q] = latest[q] /\ tick'[q] = tick[q]
      BY <2>1 DEF Tick, AfterBroadcast, LeaveLoop
    <3> QED  BY <3>1, <3>2
  <2>2. CASE Raise(r) \/ Wait(r)
    BY <2>2 DEF Raise, Wait
  <2>3. CASE Sent(r) \/ Exit(r)
    BY <2>3 DEF Sent, Exit, AfterBroadcast, LeaveLoop
  <2>4. CASE Store(r) \/ FinalizeFails(r) \/ Deregister(r) \/ Notified(r)
    BY <2>4 DEF Store, FinalizeFails, Deregister, Notified
  <2> QED  BY <1>2, <2>1, <2>2, <2>3, <2>4 DEF Drive
<1>3. ASSUME ~ \E r \in Runs : Request(r) \/ Drive(r)
      PROVE  UNCHANGED <<pc, latest, tick>>
  BY <1>3 DEF Next, Subscribe, Disconnect, Send, Deliver, Drop, Tell, TellFails
<1>4. CASE UNCHANGED <<pc, latest, tick>>
  BY <1>4
<1> QED  BY <1>1, <1>2, <1>3, <1>4

\* Every step keeps what the watchers have received.
LEMMA WatchStep ==
  ASSUME TypeOK, SendsInv, CachedInv, WatchInv, [Next]_vars
  PROVE  WatchInv'
<1> SUFFICES ASSUME NEW c \in Clients
             PROVE  WatchOK(c)'
  BY DEF WatchInv
<1>c. WatchOK(c) /\ Target[c] \in Runs
  BY TargetAssumption DEF WatchInv
<1> USE <1>c DEF TypeOK, Places, Ticking, WatchOK, vars, loopVars, pauseVars, hubVars, history
<1>1. ASSUME NEW r \in Runs, Request(r)
      PROVE  WatchOK(c)'
  BY <1>1 DEF Request, StartRun, CancelRun, PauseRun, ResumeRun, Wake
<1>2. ASSUME NEW r \in Runs, Drive(r)
      PROVE  WatchOK(c)'
  <2>1. CASE Tick(r) /\ r = Target[c]
    <3>1. /\ pc[r] \in Ticking \ {"sending"} /\ latest[r] = tick[r]
          /\ UNCHANGED <<subs, socket, seen>>
      BY <2>1 DEF Tick, Resumes, CachedInv
    <3>2. /\ latest'[r] = tick[r] + 1
          /\ pending'[r] = {q \in subs : Target[q] = r}
          /\ \/ pc'[r] = "sending"
             \/ pc'[r] # "sending" /\ pending'[r] = {}
      BY <2>1 DEF Tick, AfterBroadcast, LeaveLoop, Subscribers
    <3> QED  BY <2>1, <3>1, <3>2
  <2>2. CASE Tick(r) /\ r # Target[c]
    BY <2>2 DEF Tick, AfterBroadcast, LeaveLoop
  <2>3. CASE Raise(r) \/ Wait(r)
    BY <2>3 DEF Raise, Wait
  <2>4. CASE Sent(r) \/ Exit(r)
    BY <2>4 DEF Sent, Exit, AfterBroadcast, LeaveLoop
  <2>5. CASE Store(r) \/ FinalizeFails(r) \/ Notified(r)
    BY <2>5 DEF Store, FinalizeFails, Notified
  <2>6. CASE Deregister(r)
    BY <2>6 DEF Deregister, Subscribers
  <2> QED  BY <1>2, <2>1, <2>2, <2>3, <2>4, <2>5, <2>6 DEF Drive
<1>3. ASSUME NEW d \in Clients, Subscribe(d) \/ Disconnect(d)
      PROVE  WatchOK(c)'
  BY <1>3 DEF Subscribe, Disconnect
<1>4. ASSUME NEW r \in Runs, NEW d \in Clients, Send(r, d)
      PROVE  WatchOK(c)'
  <2>1. Target[d] = r
    BY <1>4 DEF SendsInv, Send, Deliver, Drop, Tell, TellFails
  <2>2. CASE Deliver(r, d)
    BY <2>1, <2>2 DEF Deliver
  <2>3. CASE Drop(r, d)
    BY <2>1, <2>3 DEF Drop
  <2>4. CASE Tell(r, d)
    BY <2>1, <2>4 DEF Tell
  <2>5. CASE TellFails(r, d)
    BY <2>1, <2>5 DEF TellFails
  <2> QED  BY <1>4, <2>2, <2>3, <2>4, <2>5 DEF Send
<1>5. CASE UNCHANGED vars
  BY <1>5
<1> QED  BY <1>1, <1>2, <1>3, <1>4, <1>5 DEF Next

\* Only a send delivers, and only the tick that is cached, to who still watches.
LEMMA DeliveredInOrder ==
  ASSUME TypeOK, SendsInv, WatchInv, [Next]_vars,
         NEW c \in Clients, seen[c] > 0, seen'[c] # seen[c]
  PROVE  seen'[c] = seen[c] + 1
<1> USE DEF TypeOK, vars, loopVars, pauseVars, hubVars, history
<1>1. PICK r \in Runs : Deliver(r, c)
  <2>1. ASSUME ~ \E r \in Runs, d \in Clients : Deliver(r, d)
        PROVE  seen' = seen
    BY <2>1 DEF Next, Request, StartRun, CancelRun, PauseRun, ResumeRun, Drive, Tick,
       Raise, Wait, Sent, Exit, Store, FinalizeFails, Deregister, Notified,
       Subscribe, Disconnect, Send, Drop, Tell, TellFails
  <2>2. PICK r \in Runs, d \in Clients : Deliver(r, d)
    BY <2>1
  <2>3. d = c
    BY <2>2 DEF Deliver
  <2> QED  BY <2>2, <2>3
<1>2. r = Target[c]
  BY <1>1 DEF SendsInv, Deliver
<1>3. seen'[c] = latest[r] /\ pc[r] = "sending" /\ c \in pending[r] /\ socket[c] = "open"
  BY <1>1 DEF Deliver
<1> QED  BY <1>2, <1>3 DEF WatchInv, WatchOK, Ticking

\* A run that leaves the active maps by itself, and whose island did not collapse,
\* has a send pending to each of its subscribers.
LEMMA EndIsSent ==
  ASSUME IndInv, Next, NEW q \in active \ stopped, q \notin active', q \notin Collapsing
  PROVE  Subscribers(q) \subseteq pending'[q]
<1> USE DEF vars, loopVars, pauseVars, hubVars, history
<1>1. /\ q \in Runs /\ ~cancelled[q] /\ ~collapse[q]
      /\ pending \in [Runs -> SUBSET Clients]
  BY DEF IndInv, TypeOK, CancelInv
<1>2. PICK r \in Runs : Drive(r)
  BY DEF Next, Request, StartRun, CancelRun, PauseRun, ResumeRun,
     Subscribe, Disconnect, Send, Deliver, Drop, Tell, TellFails
<1>3. CASE Deregister(r)
  BY <1>1, <1>3 DEF Deregister
<1>4. CASE Tick(r)
  BY <1>1, <1>4 DEF Tick, AfterBroadcast, LeaveLoop
<1>5. CASE Sent(r)
  BY <1>1, <1>5 DEF Sent, AfterBroadcast, LeaveLoop
<1>6. CASE Exit(r)
  BY <1>1, <1>6 DEF Exit, LeaveLoop
<1>7. CASE Raise(r) \/ Wait(r) \/ Store(r) \/ FinalizeFails(r) \/ Notified(r)
  BY <1>7 DEF Raise, Wait, Store, FinalizeFails, Notified
<1> QED  BY <1>2, <1>3, <1>4, <1>5, <1>6, <1>7 DEF Drive

\* Where nobody watches a run whose island may collapse, watchers receive every tick
\* in its turn and are told of the end of a run no caller stopped.
THEOREM WatchersAreServed ==
  ASSUME \A c \in Clients : Target[c] \notin Collapsing
  PROVE  Spec => WatchersServed
<1>1. Init => CachedInv /\ WatchInv
  BY TargetAssumption DEF Init, CachedInv, WatchInv, WatchOK
<1>2. IndInv /\ CachedInv /\ WatchInv /\ [Next]_vars => CachedInv' /\ WatchInv'
  BY CachedStep, WatchStep DEF IndInv
<1>3. ASSUME IndInv, CachedInv, WatchInv, [Next]_vars
      PROVE  [\A c \in Clients : (seen[c] > 0 /\ seen'[c] # seen[c])
                 => seen'[c] = seen[c] + 1]_vars
  BY <1>3, DeliveredInOrder DEF IndInv
<1>4. ASSUME IndInv, [Next]_vars
      PROVE  [\A r \in active \ stopped : r \notin active'
                 => Subscribers(r) \subseteq pending'[r]]_vars
  <2> SUFFICES ASSUME Next, NEW q \in active \ stopped, q \notin active'
               PROVE  Subscribers(q) \subseteq pending'[q]
    BY <1>4 DEF vars
  <2>1. CASE q \in Collapsing
    BY <1>4, <2>1 DEF Subscribers, IndInv, TypeOK
  <2>2. CASE q \notin Collapsing
    BY <1>4, <2>2, EndIsSent
  <2> QED  BY <2>1, <2>2
<1> QED  BY <1>1, <1>2, <1>3, <1>4, Invariance, PTL
         DEF Spec, WatchersServed, TicksInOrder, SubscribersTold

\* When callers pause no run before its first step, the status GET /runs/{id}
\* reports is the one the loop obeys, and a pause lets at most one tick through.
THEOREM PauseIsKept ==
  ASSUME EarlyPause = FALSE
  PROVE  Spec => []PauseKept
<1>1. Init => PauseInv
  BY DEF Init, PauseInv, PauseOK
<1>2. IndInv /\ PauseInv /\ [Next]_vars => PauseInv'
  BY PauseStep DEF IndInv
<1>3. IndInv /\ PauseInv => PauseKept
  BY DEF IndInv, TypeOK, PauseInv, PauseOK, PauseKept, StatusTellsGate, PauseHolds
<1> QED  BY <1>1, <1>2, <1>3, Invariance, PTL DEF Spec
===============================================================================
