# GridSignal simulator: specifications, model checking and proofs

The repository holds a simulator of the electrical supply of GPU data centres:
`attached_assets/gridsignal_sim_v2_build_package/gridsignal_sim_v2/gridsignal_sim`
(paths below are relative to it). A run plays a scenario tick by tick: workload events change
the GPU load, a physics step balances generation against it, each tick is sent to the browsers
that watch and stored, and at the end the run gets a verdict. Runs are asyncio tasks of one
server process, next to HTTP and WebSocket handlers.

This directory models the discrete core of that program in TLA+: the three workload schedulers
(Slurm, Kubernetes, Ray), the event timeline and the GPU load they leave behind, the commitment of the turbines and the standby diesel fleet, the
life of a run, of its sockets and of its advisory proposals, and the path of a tick to the database and to the
verdict. Floating-point physics is not modelled.

## 1. Inventory

| Component | State | Operations | Hard behaviours | What makes it correct |
|---|---|---|---|---|
| Slurm scheduler `core/slurm_scheduler.py` | job states, allocations, licence and burst-buffer counters, fair-share usage, emitted signals | `submit`, `submit_array`, `cancel`, `advance` (finish, preempt, sort, start) | four loops over shared counters; preemption with requeue; heterogeneous groups, arrays, limits, dependencies, reservations | no GPU or node is shared wrongly, counters balance, dependencies and ranks are respected, jobs end |
| Kubernetes scheduler and demand `core/kube_scheduler.py`, `core/kube_demand.py`, `runtime/kube_trace_replay.py` | activeQ, backoffQ, unschedulable pods, node allocations; reorder buffer, seen identifiers, hold timer | `submit`, `tick`; the agent's `tick`; the replay of a trace | wake-ups that race with back-off; two gates that each re-queue under a new identifier; several agents in one cluster | no pod waits for nothing, no job is lost or doubled, caps are kept |
| Ray `core/ray_cluster_engine.py`, `ray_execution_scheduler.py`, `ray_autoscaler.py` | cluster records and scale records, slots, placement groups, workloads, two timers | submit, advance, fail, cancel, release, scale, drain, terminate | worker loss under a running workload, replacement against scale-up, gang placement, retries | slots, reservations and allocations agree; what runs ends |
| Event timeline and ingest `runtime/run_manager.py` (`RunContext`), `runtime/slurm_ingest.py`, `api/routes/ingest.py` | sorted event list and cursor, last state per external job | `step`, `ingest_workload_signal`, `submit_internal_slurm_job` | three writers, a sort under a cursor, repeated and late snapshots | each event is applied once, in time |
| GPU load and cooling envelopes `core/asset_modules.py`, `core/simulation_core.py` | node counts, ramps, scale-up cohorts, envelopes | `apply_signal`, `advance`, `register_job_start/end` | deltas against cohorts, removal in reverse order | the load is the scheduled one and each load is cooled |
| Run lifecycle `runtime/run_manager.py` (`RunManager`, `_drive`) | active runs, cancel and pause flags, pause event, completed runs | start, pause, resume, cancel; the loop of a run and its clean-up | a handler runs between any two awaits; wake-ups that race with flags; exceptions; collapse of an island | a paused run stays, a cancelled one ends, a result precedes its notice |
| WebSocket hub (same file, `api/routes/ws.py`) | subscribers, latest tick | subscribe, broadcast, notify | sockets that stall or leave during a send | ticks in order, the end is told |
| Time-series sink `runtime/persistence.py` | two queues, two drain tasks, drop counter | `append`, `append_control_event`, `finalize` | a bounded queue that drops, writes that fail, joins shared by runs | finalize returns with everything durable |
| Verdict engine `runtime/verdict.py` | none | `evaluate_verdict` over retained rows | missing rows | no conclusion that the missing rows could overturn |
| Advisory gate and agents `runtime/advisory_gate.py`, `fuel_cell_readiness.py`, `advisory/agents/base.py`, `api/routes/advisory.py` | proposals by state, the agents' cadence, the current readiness proposal | validate, tick, accept, reject, supersede | agents in a thread while reviewers decide on the event loop; expiry against acceptance; pause | a proposal is decided once, in time and within bounds |
| Diesel fleet `core/diesel_fleet.py`, `DieselModule` in `core/asset_modules.py` | unit states and clocks, episode, cool-down, failures handled | `step` | several starts fail in one tick; load comes back while units stop; minimum run and restart lock-outs | never more than the target live, each failure replaced once, the episode ends |
| Commitment of the turbines `core/commitment.py`, `TurbineModule` in `core/asset_modules.py`, `core/simulation_core.py`, `dispatch.py` | unit states, thermal states and histories, hot-standby flags, the pending-start register, three timers, the operators' queue | commit and decommit, cascade, staging, contingency release, operator and scripted trips | four paths of one tick start units past one register; a start may be dropped without a word; commands are checked at one time and carried out at another; thresholds that could chase each other | one start at a time, no accepted command is dropped, every start and stop ends, the fleet settles |
| Fuel cells, curtailment, source priority `core/fuel_cell_module.py`, `dispatch.py`, `power_source_priority.py` | block states, the curtailment ladder | advance, curtail, restore | restoration against hold-down | legal transitions only |
| Physics `core/simulation_core.py` (`evaluate_tick`) | the site's power, frequency, islanding | one tick | floating point | balance |
| SCADA and telemetry `core/scada_layer.py`, `corroboration.py`, `runtime/telemetry_corruption.py` | commands in flight, link states, corroboration records | issue, deliver, shed, ingest | loss, delay, stale telemetry | every command has one fate |
| Tenant budget gate `core/tenant_budget_gate.py` | rotation state | evaluate, queue | fairness of the rotation | no tenant over budget |
| Fabric engine, solar, scenario authoring, HTTP/auth, audits, trace import, front end, scripts | mostly configuration or numeric | | | |

How they interact. The API handlers call `RunManager`; each run has a `RunContext` with its own
schedulers, event list, advisory gate and simulation state, driven by one `_drive` task. A tick calls
`RunContext.step`: the Slurm engine is advanced and its signals are appended to the event list,
due events are applied to the GPU and cooling modules, and `evaluate_tick` runs, which first ticks the Kubernetes-style
agents one after the other, steps the diesel fleet with the gap the other sources left and decides which turbines start and stop; the commands
of operators were drained before. `_drive` then
appends the tick to the sink (one for all runs), caches and broadcasts it (the hub, one for all
runs), runs the agents in a thread, and sleeps. At its end it reads its rows back, evaluates the verdict, finalizes, stores the
completed run and notifies its subscribers. Everything but the drain tasks of the sink, the
sends of the hub and the agents' thread happens in the task itself or in a request handler; steps interleave at awaits
only.

`PROJECT.json` lists every component with its status, and under `hazards` what in this code is
hard to test, each at its line, with the properties that cover it.

## 2. Modules

| Module | What it is |
|---|---|
| `SlurmScheduler` | `SlurmSchedulerEngine`: one action per public call and one per loop iteration of `advance` |
| `GpuLeases` | what a run may expect of any scheduler: GPUs are granted to one waiting job at a time and given back as a whole; `SlurmScheduler` refines it |
| `SlurmSchedulerProofs` | theorems of `SlurmScheduler` |
| `KubePods` | `KubeSchedulerEngine`: queues, best fit, back-off and wake-up; extended by the two that drive it |
| `KubeReplay` | `KubePods` driven by the replay of a trace |
| `KubeDemand` | the admission agents, of which Kubernetes ones hand their jobs to `KubePods` |
| `ClusterProofs` | theorems of `KubePods`, `KubeReplay`, `KubeDemand` and `RayExecution` |
| `RayClusters` | clusters, their workers and scale records |
| `RayExecution` | slots, placement groups, workloads and the autoscaler; extends `RayClusters` |
| `GpuLoad` | `GPUModule.apply_signal` and the cooling envelopes |
| `WorkloadTimeline` | the event list, its writers and the tick; extends `GpuLoad` |
| `WorkloadTimelineProofs` | theorems of `WorkloadTimeline` and `GpuLoad` |
| `RunLifecycle` | runs, `_drive` from await to await, the hub and its sockets |
| `RunLifecycleProofs` | theorems of `RunLifecycle` |
| `Verdict` | `evaluate_verdict` as operators, and a reference that knows the whole run |
| `TimeseriesSink` | the sink, its drain tasks and the end of each run; extends `Verdict` |
| `TimeseriesSinkProofs` | theorems of `TimeseriesSink` and `Verdict` |
| `AdvisoryGate` | the gate, the agents' thread, readiness, reserve alerts and reviewers |
| `AdvisoryGateProofs` | theorems of `AdvisoryGate` |
| `DieselFleet` | the fleet and its units; a tick is one operator on a record |
| `TurbineCommitment` | the turbine units and everything that starts, stops or trips one |
| `GenerationProofs` | theorems of `DieselFleet` and of `TurbineCommitment` |
| `Totals` | the sum of a weight over a finite set; used by `SlurmScheduler`, `GpuLoad`, `KubePods` and `RayExecution` |
| `SetLemmas` | the laws of totals, the first k elements of a set under an order, and the initial stretch of a sequence: lemmas several of these need |
| `MC*` | small instances for TLC |

### SlurmScheduler

`state`, `alloc`, `startedAt`, `poolUsed`, `fairUsage`, `submitted` are the engine's dictionaries;
`lastSignal` is the last element it emitted for each job. `advance` is one synchronous call, so the
variable `stage` only sequences its loops: `Advance` opens it, `Finish`, `Preempt`/`PreemptSkip`,
`Choose`/`PassOver`/`Start` are iterations, in the order of the code's sort keys, and nothing else is enabled
until `ScheduleDone`. `Submit` covers `submit` and `submit_array` (a set of tasks in order, of
which a refused one leaves the earlier ones queued). Data is abstracted: CPUs, memory and GPUs are dimensions of a
request, licences and burst buffers are pools, partition/feature/topology filters are the set of nodes a
job matches, QoS and account policies are limits over the jobs they cover. The sort key is kept whole
(priority by QoS factor, fair share by cross-multiplication, submission order). Phases, checkpoints
and energy of a running job are left out: a job has an effective duration and an outcome.

### KubePods, KubeReplay and KubeDemand

`where` says in which queue or state of the engine a pod is. A tick of the engine is a sequence of steps: `BeginTick`
(completions, expired back-offs, and the wake-up of unschedulable pods that a completion causes), one step per pod of
activeQ (`Expire`, `Place`, `BackOff`, `GiveUp`) in the order of the heap, `EndTick`. The best fit compares left-over resources one by one as the code does.
`KubeReplay` keeps the heap of instants of `replay_kube_trace`: the trace's own, plus the next wake-up the
engine names after each pass; a wake-up that is already due makes another pass at the same instant (`Again`).

`KubeDemand` is step 0 of `evaluate_tick`: all agents tick in turn against the headroom of the previous tick. One step per
event drained from the reorder buffer: `DropDuplicate`, `Refuse` (fleet limit), `Defer` (contracted ceiling),
`HoldBack` (power cap), `Admit`. An event's identifier is the job with the suffixes the two gates add, as the code cuts and appends them, since de-duplication is by that identifier.
What an informer sees between two ticks arrives at the next one; its timestamp may lie later than its observation.

### RayClusters and RayExecution

One record per cluster: its lifecycle, the admission request, three timers as time left, the worker counts
and the sequence of scale records. The library that admits requests is external: a queued
request may be admitted, rejected or kept at each advance. `RayExecution` adds the slots of a cluster, groups and
workloads. The autoscaler's `advance` is a sequence of steps named by `stage`: engine, `Sync`, `Progress`, one try per
pending group and workload, reconciliation. What raises in the code ends the call at that step and keeps
what was done. Resource vectors are one number.

### DieselFleet

`fleet` is the coordinator with its units, `Stepped` the whole of `step()`, an operator composed of one operator per method in
the order the code calls them. Time stamps are ticks elapsed or left, capped where the code no longer tells
them apart. The environment picks at each tick whether there is a gap and which of the starts commanded will succeed.

### TurbineCommitment

The state machine of a unit is `state` (OFFLINE, STARTING, SYNCHRONISED, UNLOADING; nothing in the simulator takes one out of service), `thermal`, `left` (ticks left of a start or of a
controlled stop) and its history: `ran`, `down`, `idle`, the ticks since its run began, since its stop and since it left the bus, capped where no comparison tells
them apart. `pending` is the register of the pending start, `manual` (a history variable) the units whose start an operator commanded, which bypasses the register.
`stage` sequences the synchronous tick: the queue of commands (`Drain`), the events due (`Stage` for a workload start, `UnitTrip` for a scripted one), the end of starts and stops with the
clean-up of the register (`Advance`), the release of a hot standby or the forced commit when the last unit is loaded (`Cascade`), the decision and what is done with it (`Commit`), the release of a
standby for an uncovered trip (`Contingency`), after which time passes. `Command` and `Override` are the requests; they arrive between ticks.
`CommandStart` is `command_start` with its three silent refusals, so each caller's test "did it take" is there. Loaded lead unit, uncovered trip, saturated battery (`enabled`) and the way down to
minimum load (`descent`) are open at every tick; demand is one of `Demands`. The settle interval between two starts is left out: the code compares it only when the register is
empty, and then it holds. `Override` leaves out the request that asks for the label the unit has, which changes nothing.

### WorkloadTimeline and GpuLoad

`events` and `cursor` are the list and the index behind which it has been applied. `stage` sequences
the synchronous tick as in the scheduler's model: `BeginStep`, `SubmitDue`, `FinishJob`/`PreemptJob`, `StartJob`,
`ApplyDue`, `Evaluate`. `Ingest` and `SubmitNow` are the requests. The scheduler is abstract here (which jobs end, are
preempted or start is open; `SlurmScheduler` is the detailed one), with the timestamps it puts on its
signals. `Aggregate` is the pass of the scenario builder that sums cluster admissions into one stream
of STARTING, SCALE and JOB_END. `GpuLoad` is the bookkeeping an event changes: counts and ramps by key (a job
or one of its scale-up cohorts), desired counts, and envelopes. The code's retention and ramp are durations; the
model counts them in units of simulated time.

### RunLifecycle

`pc[r]` is the await at which the task of a run stands; a step is the code between two awaits, whole.
`gate` is the asyncio event of the pause; a task woken by it does not look at the flags again, which is
why `woken` is a place of its own. A tick is a number with two flags (provisional, collapsed). A
broadcast sends to the sockets subscribed when it began; each send is delivered, fails or times out by
itself. `stopped`, `raised` and `sincePause` are history variables. `EarlyPause` says whether callers may pause a
run before the first step of its task (see section 7).

### TimeseriesSink and Verdict

The tick queue has a bound and counts drops, the control-event queue has none. `Take`/`Write` and
their failing variants are the drain loops; `TaskDone` is the place where a queue's join wakes those who
wait. A run goes `running`, `joining`, `reading`, `flushing`, `flushingCe`, `recording`, `done`, the awaits of
`get_eval_rows` and `finalize`. `Verdict` keeps what decides the outcome of each kind of assertion: which
retained ticks satisfy its condition, and whether rows are missing. `Truthful` is the reference: what a status claims about the ticks
the run really had.

### AdvisoryGate

`pc` is where the run's task stands (`waiting`, `sending`, `advising`, `ended`). While it is `advising` the thread
walks through the agents (`cursor`); a proposal is stored first and judged in a later step (`judging`), and the handlers of the event loop may come in between.
A review is two steps as well, its check and its write (`review`), because the thread may move in between. Of a proposal the
model keeps its source, its state, its expiry and whether it is within bounds; what an agent proposes is open.

## 3. Runs

| Run | Question | Instance |
|---|---|---|
| `SlurmCluster` | `ResourcesHonoured`, `BooksAgree`, `AfterOkOrder`, `NothingTakenBack`, `LeasesHonoured`: are nodes, GPUs and pools right, does what was signalled agree with what is held, is nothing started early or taken back without a reason? | 6 jobs for 2 nodes of 2 GPUs and 1 burst buffer: exclusive, two-node, reserved, preempting by cancellation and by requeue, one that asks for a licence where none is configured; one is cancelled at any time; submitted as {1}, {2}, {3, 4}, {5, 6} |
| `SlurmQueue` | `PolicyKept`, `NoOvertaking`, `EventuallyEnds`, without backfill: do groups start together, do array and TRES limits hold, does nobody overtake, does every job end? | 5 jobs: an array of two, a heterogeneous pair, a two-node job |
| `KubeReplay` | `ServedInTime`, `EveryPodSettles`: does a pod wait only for what stronger pods hold, is no wake-up missed, does every pod settle? | every trace of up to six of nine pods on 2 nodes, a back-off of 0 or 3 |
| `KubeDemand` | `JobsAccounted`, `AdmissionsInTurn`: is a job in exactly one place, are the nodes signalled the admitted ones, are order and hold kept? | an agent of gangs and one of pods share a cluster: 5 jobs, 4 nodes, a ceiling of 3, headroom that comes and goes, 7 ticks |
| `Ray` | `HoldingsAgree`, `AdmittedWorkersRegister`, `RunningEnds`: do slots, groups, workloads and allocations agree, do admitted workers come and running workloads end? | an elastic cluster of up to 2 workers and a fixed one; two replicas with a retry, and a gang under STRICT_SPREAD |
| `DieselFleet` | `FleetWithinTarget`, `EveryFailureReplaced`, `ReadyWhenIdle`, `FleetFollowsGap` | 3 primaries, 2 standbys, any gap and any outcome of starts at every tick |
| `Turbines` | `SequentialStarts`, `AcceptedCommandsAct`, `SequencesEnd`, `FleetSettles`: does the engine start one unit at a time, does a command that was accepted act, does each sequence end, does the fleet come to rest? | 3 units, one on the bus and two hot standbys; demand 1 or 2 units, 2 commands, overrides, trips or staged starts |
| `Timeline` | `DueExactlyApplied`, `TerminalIsLast`, `LoadFollows`, `ConsumedIsFixed`, `EveryAcceptedApplied`: is each event applied exactly once and in time, and is the load what was scheduled? | a cluster with three scripts of growth, one external job with every order of snapshots, two internal jobs, 3 ticks |
| `Runs` | `ToldFindsResult`, `NoVerdictOnCutShort`, `PauseKept`, `WatchersServed`, `RunsEnd` | run `a` of 3 ticks may raise and is watched by two sockets, one stalled; run `b` of 1 tick may collapse, and its `finalize` may raise |
| `Sink` | `VerdictSound`, `NothingVanishes`, `EveryRunFinalized`: can a verdict claim what missing rows contradict, and is everything durable at the end? | run `a` of 3 ticks with any assertion over four patterns, run `b` whose writes fail, a queue of 1 |
| `Advisory` | `OutOfBoundsNotOffered`, `OneReadinessPending`, `DeadlineKept`, `DecidedOnce` | 2 agents, 3 ticks, 3 proposals |
| `KubeLost` | `NeverDropped`: is a deferred job ever gone? Violated, section 7 | the ceiling defers a job twice; the power cap never acts (its headroom is 3 throughout, its threshold 2) |

Several properties are conjunctions of named parts, each with its own comment in the module: `ResourcesHonoured` (complete and exclusive GPU bindings, capacity, exclusive
nodes, pools that balance), `BooksAgree` (allocations, states and signals), `NothingTakenBack` (a terminal state stays, and a running job loses its nodes to a higher
priority only), `PolicyKept` (groups together, arrays, TRES), `PauseKept` (status and gate agree, a paused run ticks at most once more), `WatchersServed` (ticks in order,
the end told), `RunsEnd` (a cancelled run ends, and one that is not left paused), `NothingVanishes` (where writes succeed, only ticks dropped at the queue are missing when a run is finalized), `LoadFollows` (the GPU load is the
engine's, the cluster's is the script's, envelopes end), `ServedInTime` (nobody waits for nothing, no wake-up is missed), `JobsAccounted` (and the ceiling), `HoldingsAgree` (and what was allocated), `SequencesEnd`, `FleetFollowsGap`. A type invariant is a part of one of them.

Why these bounds are enough to be interesting. In the Slurm scheduler, two nodes with two GPUs are the least on which a job can be blocked
on one node and fit another, share a node, or need both; five jobs give a victim, a
preemptor, a bystander and a dependant at once, and the sixth of `SlurmCluster` preempts in vain for a licence. `LastSubmit`, `MaxTime` and `MaxShare` bound the clock and the usage counters: they only stop
the callers. `SlurmQueue`, where jobs must end, moves time to 12, more than the total of all
durations. The nine pods of `KubeReplay` have four shapes, three priorities, types only one node offers or none does, and deletions before, at and after their turn; pods that are
never deleted run for 20 units, which stands for ever. `KubeDemand` has jobs that exceed what the ceiling leaves, so that each gate defers some, and a cap that recovers and falls within the hold; `Burst` bounds the arrivals of a
tick, `LastTick` the clock. In `Ray` the task needs two slots, so that it scales the cluster up, loses a worker under it and is retried; `MaxScales` stops worker failures once a cluster has more scale records
than that. Three primaries and two standbys are the least for which more starts can fail than standbys exist and one standby can fail as well; no bound is needed, the fleet's state is finite. One unit on the bus and two hot standbys are the least fleet in which two paths compete for a start, labels are promoted and a unit can be removed; two inputs suffice
for two commands for one unit, or for a trip of a unit that is starting and a start next to it. `MaxInputs` bounds the inputs only, so that the fleet can come to rest. Three ticks are needed for a gap between two retained rows and for a pause around a
tick with one on either side. A queue of one is full as soon as two runs write. The cluster scripts grow,
shrink over one cohort and over two, empty and refill, with an instant before, at and after a tick; the external job may
send its four snapshots in any order with the current or an old time; the internal jobs are authored (and due off a tick) or submitted at run time, including
a runtime submission that takes the authored identifier. `MaxEvents` bounds the list and only stops requests, preemptions and starts. `MaxProposals` bounds the
proposals of a run; three allow a readiness proposal, its successor and one of an agent at a time.

## 4. Fairness

* Slurm (`FairSpec`): `WF` of `Continue`, because `advance` is a synchronous call that returns; `SF` of `Tick`,
  because asyncio serves ready tasks in order, so a stream of requests cannot keep the run's own task from its
  turn. Weak fairness would not do: each request disables `Tick` for the length of its call.
* Replay: `WF` of the next step; the replay is a loop of one process that nothing interrupts.
* Ray: `WF` of `Step` (written `Moves`): whoever drives the autoscaler goes on calling `advance`, which is synchronous. No fairness of failures, of
  admission or of requests.
* Diesel: `WF` of `FleetTick` (written `Beat`): the simulation calls `step` at every tick.
* Turbines: `WF` of `Tick`, the parts of a tick: the run goes on ticking. No fairness of commands or trips, and none of what is open: `FleetSettles` assumes a steady demand and a lead unit that is not loaded.
* Runs: `WF` of each run's `Drive` (a ready task is resumed; the sleep and the executor call return) and of
  each `Send` (bounded by `_SEND_TIMEOUT_S`). No fairness of requests: a paused run may stay paused for ever.
* Sink: `WF` of both drain tasks, of a run's ticks and of its end. Nothing says that a write succeeds: failing is one of the
  drain task's own steps.
* Timeline: `WF` of `Step`: the loop of a run goes on ticking until the end. Requests are not fair.
* `KubeDemand` and `Advisory` state no liveness property.

Deadlock is checked for `DieselFleet` and `Turbines` only: the others stop when their jobs, pods, runs or ticks are over.

## 5. Proofs

All theorems hold for any value of the constants, under the assumptions named in the modules.

`SlurmSchedulerProofs` (assumptions: finite sets of numbered jobs and nodes, well-typed specifications, every job asks for
something): `TypeCorrect`, `AllocationsAgree` (a job is RUNNING exactly while it holds an allocation),
`GpusExclusive`, `ExclusiveNodesKept`, `DependenciesRespected`, `TerminalKept`, `BooksKept`, `NothingIsTakenBack`,
`LeasesImplemented` (refinement of `GpuLeases`).
The properties are not inductive, because the code decides in one loop iteration and acts in a later one: a component is chosen (`Choose`), then started (`Start`). The invariant
`IndInv` therefore adds: the loops visit pending jobs only (`LoopsVisitPending`); the components about to start are
ready, take disjoint nodes, and share a node with an allocation only if neither is exclusive
(`StartingPlaced`). Mutual exclusion of GPUs rests on `BindingFree`: `AllocateGpuIds` returns only identifiers no
allocation holds. There is one lemma per action; the refinement needs `AllocationsAgree` so that
"holding" and "having a binding" are the same thing.
`BooksKept` rests on `SignalInv`, what the last signal of a job says of its state inside a call of `advance` as well, where a requeued victim has
been signalled as preempted and is pending again.

On top of `IndInv` come five invariants. Each says what a decision of the scheduling loop (`Choose`) still says when it is carried out (`Start`), with what the starts before it in the
group have used up:

* `NodesInv`, with `StartingFits`: on each node there is room for what runs and for all components still to start. `NodesAlwaysHonoured` follows for every cluster and queue.
* `PoolsInv`, with `StartingServed`: the same of licences and burst buffers, where the code tests the components of a group one by one. `NoPoolLeaks` (a counter never exceeds what
  the running jobs hold) needs no condition.
* `CountsInv`, with `StartingAllowed`: array maxima and TRES limits.
* `GroupsInv`: the members of a group are in step (all unknown, all pending, or all started at one time), except while one pass starts them.
* `OrderInv`: without backfill, whoever the loop has left behind was held by a policy, a dependency or the order itself.

`ResourcesHonoured`, `PolicyKept` and `NoOvertaking` do not hold for every queue: the code itself violates them where section 7 says so. Their theorems therefore name, as
definitions of `SlurmScheduler`, the conditions under which they do:

| Condition | Why it is needed | Theorems |
|---|---|---|
| `CancelsHoldNoPool` | `cancel` gives back pools a pending job never took (`core/slurm_scheduler.py:491`) | `PoolsStayConserved`, `ResourcesAlwaysHonoured` |
| `ComponentsPoolsDisjoint` | components are compared with the same free pools and take them together (`:1002`) | `ResourcesAlwaysHonoured` |
| `ComponentsCountOnce` | the same for arrays and limits (`:1155`, `:1166`) | `PolicyAlwaysKept` |
| `ArraysUniform` | the tasks of an array are submitted together, with one maximum | `PolicyAlwaysKept` |
| `GroupsWhole` | components may arrive in different submissions, and one may be cancelled or preempted alone (`runtime/run_manager.py:1395`) | `GroupsStartTogether`, `PolicyAlwaysKept` |
| `GroupsAlike`, `~Backfill`, preemption off | the order of the queue is that of its jobs; a backfilled or preempting job overtakes by design | `NothingOvertakes` |

`MCSlurmScheduler` asserts (`ClusterMeets`, `QueueMeets`) that the mixes the runs check meet the conditions, so they are satisfiable and the theorems speak of the same queues as the runs.

The sums (node capacity, pools, limits) are totals of a weight over a finite set (`Totals`). `SetLemmas` proves their laws (a total loses or gains what an element weighs, is
monotone, depends on the weights only) by well-founded induction: a least counterexample under inclusion exists because the sets are finite.

`RunLifecycleProofs` (assumptions: `EndTick` positive, each socket names a run): `TypeCorrect`, `ResultBeforeNotice`,
`CutShortHasNoVerdict`, `WatchersAreServed` (where nobody watches a run whose island may collapse), `PauseIsKept` (where nobody pauses before the first
step). The invariant `IndInv == TypeOK /\ PhasesInv /\ SendsInv /\ CancelInv` says what each phase of a run guarantees: the result is stored before it persists, it has
left the active maps when it notifies, a run being evaluated was not cut short; a pending send goes to a watcher of
the run; a cancelled flag has a cause. `PauseInv` counts: a task that was woken has its tick still before it, any other has
had it. `WatchInv` says how far behind a socket may be: a watcher has received the cached tick or, while that one is being sent to it,
the one before; with it a send delivers the next tick or nothing. The type invariant is not trivial either: that `tick` stays within the end of the run needs that a
waiting task has a tick left, since a woken one does not check.

`AdvisoryGateProofs` (any number of agents and proposals, any expiry): `TypeCorrect`, `BoundsKept`, `OneReadiness`, `DeadlinesKept`,
`NeverDecidedTwice`. A reviewer decides in two steps, so the invariant has `ReviewHolds`: what a handler checked is still so when it writes, unless the proposal was out of bounds, because
expiry and supersession run on the event loop, which the handler holds, and only the verdict of `validate` comes from the thread. `Current` says how old a pending proposal may be
at each place of the task, from which the two halves of `DeadlineKept` follow.

`GenerationProofs`, the diesel fleet (any units, targets and times, any starts fail): `WithinTarget`, `FailuresAnswered`, `IdleIsReady`. A tick is one operator on the record `fleet`, so the
invariant is stated on a record and each operator is shown to keep it. `Sound` says that lists, attempts and unit states describe the same fleet. `Answered` counts standbys called
against failures handled: a failure is found in one operator and answered in a later one of the same tick, so between them the count is off by exactly the new failures (`Matched`). `FreshUnlocked` and `LockCovered`
relate the fleet's cool-down to the lock-outs of its units, from which `ReadyWhenIdle` follows. "The first k of these units" is a choice by rank; `SetLemmas` proves that it has k
elements (`FirstOfSet`).

`GenerationProofs`, the turbines (any fleet, times, thresholds and demands): `TypeCorrect`, `StartsInTurn`, `CommandsAct`. The invariant `IInv` has `InTurn`, which says when the register may be
stale: only while the inputs of a tick are applied, and then its unit is offline; the tick frees it before it is looked at again. `FreshStandbys` (a hot standby never ran) is why a release is
never refused for want of rest, and so why an accepted TRIP of a standby acts. That the roster and thermal order has a first and a last member is `EndsOfSet` in this module.

`WorkloadTimelineProofs` (any jobs, scripts, times and snapshots): `ConsumedStays`, `DueApplied`, `EndIsLast`, `EnvelopesClosed`,
`LoadIsFollowed`. `ListInv` puts the cursor between what the last tick has seen and what comes later;
it is inductive only with `AheadInv`: whatever will still be written (arrivals to be submitted, ends of running jobs) is later than the last tick, and inside a tick the loops have
already used up what is due. `ExternalInv` says that the last known state of an external job remembers its end. An insertion by time is described by
`InitialStretch`: in a sorted list the elements up to a time are an initial stretch.
`LoadInv` is about the load whatever the events are: an envelope without an end belongs to a key of the load, since each event that removes a key ends its envelope.
`ScriptInv` and `EngineInv` say that the load is what was asked for. For the cluster: the list has exactly one event for each change of the script (`Scripted`), the last of them that was
applied is what is desired (`LastAsked`), and the nodes of the cluster and its cohorts sum up to that (`Held`). A scale-down keeps `Held` by `HighestFirst`, a fact about sums: taking
R from numbered weights, the highest number first and no more than each has, leaves the total minus R; a new cohort has a new number by `CountersAhead`. At a tick the last event applied is
the last change up to that instant (`ClusterScripted`). For an internal job: it runs exactly when the last of its events in the list is STARTING, and has keys in the load exactly when the
last of those applied is (`Started`); its own events come last when they are written, because none is later than the end of its allocation (`History`).

`TimeseriesSinkProofs` (any runs, assertions, queue sizes, number of points of a pattern and failing writes): `VerdictsAreTrue`, `FinalizedDurably`. `KeptInv` says where a tick may be: in the rows, in the queue, in the hands
of the drain task (written and not yet acknowledged, so that it is counted once), or lost and counted; a run that has passed its join has none in the queue or in hand, since `unfinished` is the
queue and the item in hand. With nothing dropped the rows are therefore every tick, by a count (`RowsRead`). `AuditInv` counts the control events of each run in the queue; `CountAppend` and `CountTail`
are what a queue does to such a count. `EvaluateTruthful` is about the rules alone: on any subset of the ticks, the whole of it unless something was dropped, each assertion but the peak returns
only what is true of all of them.

`ClusterProofs`, the pod scheduler (any pods, nodes and traces, backoffs, retries and delays): `ReplayServes`, `ReplayAccounts`. `PodsInv` is about one tick of the engine: the sums of the nodes, `NoneFits` (an unschedulable
pod fits nowhere, which a placement keeps because it only takes, and a completion because it wakes every such pod), `Timely` and `InTurn` (the pods tried so far are ahead of those that remain). That the best fit exists is
proved from four comparisons, the last of which no two nodes tie in (`BestFits`). `ReplayInv` adds that the heap of instants holds one no later than any wake-up, though only the first of them is noted, and that what lies beyond `index` in
the trace was not submitted. `NoPriorityInversion` needs that a tick tries the pods in their order, so that nothing weaker was placed on any node before a pod was passed over.

`ClusterProofs`, the admission agents (any agents, jobs, arrivals, headrooms, one Kubernetes agent at most, since the model has one pod scheduler): `AdmitsInTurn`, `AccountsForJobs`. `DemandInv` says where a job can be: `PlacesInv` has one
buffer entry at most for each job, of a job observed and neither admitted nor refused, whose identifier is fresh unless the job was deferred before; that the retry of the power cap has a fresh identifier is `Fresh`: its count is beyond all those
seen. `NewPods` gives the pods of a job to nobody before it is admitted. `HoldInv` relates the hold of an agent to the last recovery: an agent that has not ticked since still remembers the shortage, so it sets the hold before it
admits. `RunsInv` adds what runs: `LoadInv` (what was signalled is what is admitted, between ticks), `GangsInv` (gangs within the ceiling at each admission) and `QueueInv`. The Kubernetes agent counts running pods only, so its ceiling is
kept for another reason: if the nodes have room for the contracted number of pods, none waits between ticks and the count is exact; if they have not, no more than that can run. Both halves need `Alike`, that all pods of an agent have one shape
and all its nodes one, as its configuration says (`core/kube_demand.py:953`, `:391`); with pods of different shapes one could wait for its node while others are admitted in its place. `MCKubeDemand` assumes `Alike` too, so the run is an instance of the theorem.

`ClusterProofs`, Ray (any clusters, workloads, dependencies, bundles, strategies, retries and policy): `HoldingsBalance`. `RayInv` has two halves. `RecordInv` is about the record of one cluster, of which each operator of `RayClusters`
is shown to keep it: the scales on their way are counted by kind, those that will add an allocation (`Adding`) and those that reuse one (`Reusing`), so that a maximum that holds of what is allocated and on its way is not passed when several
register at once, and workers registered, lost with a replacement due and replaced on the way stay within what is allocated. `forgotten` excuses the last of these only, from the scale-down of section 7 on. The other half is the books: `BooksInv` says what a slot
holds of every slot that may come to be, so also that no one holds a slot that is not there: a failed worker takes only empty ones away, and whoever ends gives back what is there. `SharesInv` says the same of the bundles of a group, and that a group with a
workload inside is placed. An action changes one term of these sums (`OneWorkMoves`, `OneGroupMoves`), the end of several workloads in one pass many at once (`TotalParted`). That a placement overfills no slot is read off the last request it puts
there, which saw what the earlier ones took (`PlacementFits`); that the bundles of a strict spread stay apart, off the later of any two.

Only model-checked. Liveness (`EventuallyEnds`, `EveryPodSettles`, `RunningEnds`, `AdmittedWorkersRegister`, `FleetFollowsGap`, `SequencesEnd`, `FleetSettles`, `RunsEnd`, `EveryRunFinalized`, `EveryAcceptedApplied`) and everything under fairness is out of reach
of the installed provers, as is ENABLED. Every safety and action property of a passing run is stated by a theorem.

## 6. What is not modelled

Floating-point physics (power balance, frequency, swing, cooling power) and costs; fuel cells,
curtailment, telemetry and the tenant budget (planned); process
shutdown and restart (the sink is stopped and tasks are cancelled only there); the command queues a tick drains other than the turbines'; the in-memory sink;
arrival statistics and reports of the Kubernetes agents; Ray's external ingestion, observability and power enforcement; routing of advisory
proposals to a language model; parsing, authentication, e-mail, the front end and generated clients. Most of the repository's lines are of these kinds: numeric, request
schemas, routes that build configuration, and front-end code, in which there is no control for a model checker to explore.

## 7. What the modelling showed

One disagreement between the code and its own statements has a run that exhibits it:

* `KubeLost`: a job deferred twice by the ceiling is re-queued under an identifier already seen and is gone (`core/kube_demand.py:593`), though the code says
  that deferred jobs are never dropped.

Others were met while modelling and are kept out of the checked instances by a constant or an exemption that names them.

Slurm:
* `core/slurm_scheduler.py:491`: `cancel` releases licences and burst buffers for a job that never acquired them, and the pool is then overdrawn. `SlurmCluster` cancels a job without pools.
* `:684`: `_possible` leaves the licences out where none is configured (`Unconfigured`), but `_licenses_available` does not: a job that asks for one is accepted, waits for ever, takes, where preemption is on, a weaker
  job's nodes in vain at every `advance`, and without backfill ends every pass at its turn. `SlurmCluster` has such a job; `SlurmQueue`, where jobs must end, configures its licence.
* `:1002`: components of one group are compared with the same free licences and take them together. The mixes give at most one component of a group a licence.
* `:1175`: `max_jobs` counts waiting jobs, so two waiting jobs under a limit of one keep each other out for ever. `QueueLimits` stays above the queue's length.
* `:313`: `submit_array` raises at a refused task and leaves the earlier ones queued. `:937`: a job with any dependency is reported as `DependencyNeverSatisfied`. `:449`: a job that ends exactly
  on a phase or checkpoint boundary gets the signals of a phase it does not enter.
* `runtime/run_manager.py:1395`: components of a group that arrive in different submissions start apart.

Runs, sink and verdict:
* `runtime/run_manager.py:2992`: an island collapse leaves the loop through `ctx.cancelled`, and subscribers are not told (`:3406` tells them only of a natural end). `Collapsing` runs have no watchers in `Runs`.
* `:2351`: the first step of a task sets the pause event unconditionally, so an earlier pause is lost while the status says paused (`EarlyPause`).
* `:2358`: a run cancelled while paused does one more tick, since the loop does not look again after the wait.
* `:3253`: an error of `finalize` skips the rest of the clean-up; the run stays in the active maps (`FinalizeRaises`, which `RunsEnd` exempts).
* `:208`, `:2052`: the latest tick of a cancelled run is never evicted; one provisional flag serves all runs and is cleared by the next start. `:3177`: the synchronisation slot of `solar_sim` is shared by all runs.
* `runtime/persistence.py:1005`: a failed INSERT is logged and acknowledged, so `finalize` returns without the row (its docstring, `:1140`, promises that everything is durable). `NothingVanishes` and `VerdictSound` exempt a run whose writes fail. `:942`: `stop` cancels the drain tasks.
* `runtime/verdict.py:329`: the peak assertion alone ignores gaps (`VerdictSound` exempts it). `:209`: a run cut short by an exception may PASS on the ticks it had; `VerdictSound` is about those ticks.

GPU load:
* `runtime/scenario_factory.py:1584`: a cluster that emptied comes back as SCALE, which `apply_signal` takes for a job that was live before
  (`core/asset_modules.py:245`): full power at once, no cooling envelope.

Kubernetes:
* `core/simulation_core.py:833`: the ceiling is one agent's; agents of distinct clusters exceed it together. `:2644`: headroom is clipped at zero, so the eviction for a negative one is unreachable.
* A retry waits for the reorder window again; pods that were admitted start during a power cap; the ceiling counts admitted jobs of gangs but running pods of Kubernetes agents.

Ray:
* `core/ray_cluster_engine.py:699`: with a registration delay above zero (the default is 1.0, `:158`) the registration time moves along, and scaled workers never register. `Ray` has a delay of zero.
* `:741`: `terminate` releases what was admitted; a scale still queued may be admitted afterwards and is kept.
* `core/ray_execution_scheduler.py:462`: a worker lost under a running workload leaves a busy slot, and `sync_cluster` raises at each later call (the exemption of `RunningEnds`). `:753`: dependants of a failed workload wait for ever.
* Replacement workers are never removable, so a scale-down that needs one raises each time; a rejected replacement loses the count of allocations to reuse; a pending workload may start on a cluster that drains.
* `core/ray_cluster_engine.py:534`: a scale-down lowers the workers to its target and keeps `replacement_reuses_allocation`. If an initial worker fails while a scale-up is on its way (it is not
  replaced then), the idle workers are released, others are added later and one of these fails, its allocation is given back (`:571`) though its replacement takes the stale count (`:604`): from then on three
  workers, say, are registered on two allocations. `WorkersWithinAllocation` speaks of every other history; `forgotten` becomes true at such a scale-down. `Ray` stays below it: two workers and `MaxScales = 1` do not suffice.

Diesel:
* `core/diesel_fleet.py:350`: a unit whose start failed is not OFFLINE and keeps the episode open for ever (the exemption of `FleetFollowsGap`). `:20`: the alert of an insufficient start blocks starts though enough units may be left.
* A gap that comes back between the stops of two units finds the fleet half stopped and leaves it short (`HalfStopped`).

Turbines:
* `core/commitment.py:139` says that at most one unit may be STARTING. Starts commanded by operators (`runtime/run_manager.py:2380`, `:2404`) bypass the register, so one of them may start next to the engine's (`SequentialStarts` leaves out `manual`).
* `runtime/run_manager.py:2265`: the next start is said to use the thermal state an operator sets; `command_start` classifies the unit anew and overwrites it (`core/asset_modules.py:1077`).
* `:2373`: two TRIPs queued for one hot standby release it and trip it in the same tick. `:2386`: a TRIP of a unit that has tripped since counts as its stop again.
* `core/commitment.py:108` says that a timer resets when its condition is false; that of the decommit stays as it is while a commit is due (`:290` returns first).
* `core/simulation_core.py:400`: a scripted trip records no stop, so the unit need not rest and keeps the thermal class of an earlier stop.
* The commit path looks at the first offline unit only: while that one rests, no other is tried. Releases for a contingency or by an operator do not promote the remaining standbys, unlike the cascade's.

Advisory:
* `runtime/advisory_gate.py:189`: a proposal is PENDING while its bounds are judged in the thread, so a reviewer may accept it before it is rejected; `OutOfBoundsNotOffered` says exactly when. `:223`: proposals of an ended run stay PENDING, and one accepted then has the time 0.0.
* `advisory/agents/base.py:212`: a proposal that the gate rejects does not count for the floor between calls.

## 8. Plan

Order of work; each item is a module with its instance, properties and, where useful, theorems.

1. Done: `SlurmScheduler`, `RunLifecycle`, `TimeseriesSink`/`Verdict`, `WorkloadTimeline`/`GpuLoad`, `KubePods`/`KubeReplay`/`KubeDemand`,
   `RayClusters`/`RayExecution`, `DieselFleet`, `TurbineCommitment`, `AdvisoryGate`.
2. Generation: the fuel-cell block and the curtailment ladder.
3. `SlurmVirtualJob`: phases, checkpoints and preemption of a running job, refining the duration and outcome of `SlurmScheduler`; an instance that composes `SlurmScheduler` with
   `WorkloadTimeline` in place of the abstract engine.
4. Commands: `SimulatedScadaLayer` and `SimulatedPMS` with loss and delay; corroboration against telemetry.
5. The tenant rotation of `BudgetGate`.
6. Proofs: refinements between the modules that share jobs (item 3).

## 9. Running

In this directory: `tlc -config SlurmCluster.cfg MCSlurmScheduler` and likewise for the others, each with the module `PROJECT.json` names (`MCSlurmScheduler`,
`MCKubeReplay`, `MCKubeDemand`, `MCRayExecution`, `MCDieselFleet`, `MCTurbineCommitment`, `MCWorkloadTimeline`, `MCRunLifecycle`, `MCTimeseriesSink`, `MCAdvisoryGate`); `tlapm` on each module whose name ends in
`Proofs`, and on `SetLemmas`, for the proofs. Definitions whose name starts with `Bug` are deliberately
wrong variants of the definition that follows them: substituting one must break the property `PROJECT.json` pairs with it.
