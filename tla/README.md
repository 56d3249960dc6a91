# Formal verification of HomeMind

HomeMind is a Home Assistant add-on (Python, `src/adaptive_ai/src/`) that trains
small agents on the Recorder history of a household and, when the user lets one
go into *Control*, drives a target (a light, a switch, a cover) in the place of
the automations that did so before. This directory holds TLA+ models of the parts
of it in which concurrency, failure and restarts matter, TLC runs over small
instances, and theorems checked by TLAPS.

| Modules | What they are |
|---|---|
| `ControlHandoff` | hand-over of a target between automations and agents |
| `TargetCustody` | what the hand-over promises: exclusive custody of a target |
| `ControlHandoffProofs`, `HandoffLeakProofs` | theorems about `ControlHandoff` |
| `TrainingQueue` | admission of training jobs, and the heavy-job gate |
| `TrainingQueueProofs` | theorems about `TrainingQueue` |
| `WorkflowRequests` | durable "Apply Correct" requests |
| `WorkflowProofs` | theorems about `WorkflowRequests` |
| `DeviceArbiter` | resources that agents share: claims, locks, holds, dispatches |
| `ArbiterProofs` | theorems about `DeviceArbiter` |
| `StateSync` | `state_map` between the event stream and the snapshots |
| `EngineLoop` | which worker hears of which change |
| `RegistryFeed` | the Home Assistant registries as the stream follows them |
| `StreamProofs` | theorems about `StateSync`, `EngineLoop` and `RegistryFeed` |
| `MCControlHandoff`, `MCTrainingQueue`, `MCWorkflowRequests` | model values and small instances |
| `CandidateBuild` | the candidate of one agent, from feedback to promotion |
| `CandidateProofs` | theorems about `CandidateBuild` |
| `ExploreSessions` | experiments, Free Explore sessions and the child they train |
| `ExploreProofs` | theorems about `ExploreSessions` |
| `MCTraining`, `MCRuntime`, `MCRuntimeLive` | small instances of several modules in one run |

`PROJECT.json` lists components, runs, the source lines of every definition, the
hazards, the findings, and for each property a mutant of the model that breaks it.
`tlc -config <Run>.cfg <Module>` repeats a run (`PROJECT.json` names its module),
`tlapm <Module>.tla` checks a proof.

Four instances hold modules that share no state: `MCTraining` (`TrainingQueue`,
`CandidateBuild`), `MCWorkflowRequests` (`WorkflowRequests`, `CandidateBuild`), `MCRuntime` and
`MCRuntimeLive` (sections 6 and 8). A variable `part` or `half`, chosen in the initial state, says
which of them a behaviour is about; the others keep their initial state, so a run explores
the sum of the instances and not their product. Each module's properties hold trivially
in the other parts. Where the queue or the requests are one half, the candidate, whose
bounds are exhausted in the end, has an idle step, so that deadlock is still looked for in
the other half. That a behaviour of `MCTraining` or `MCRuntime` is one of each
of its parts, so that what is proved of a part holds of what TLC runs, is proved: `TrainingTyped` (`CandidateProofs`) and `RuntimeTyped`
(`ExploreProofs`) derive from the composed specification the specification of every part, and
from that the composed type invariants `TrainingTypeOK` and `RuntimeTypeOK`.

## 1. Inventory

| Component | State it keeps | Operations | Hard behaviour | What makes it correct |
|---|---|---|---|---|
| Control hand-over (`control_handoff.py`, `handoff.py`, `lease_journal.py`) | one journal record per target and an index in `app_meta` | acquire, release, reconcile, release_all | calls that fail, hang or lie; death between any two writes; partial restores; targets that share automations | an automation switched off is restored or journalled; nothing else is ever switched on |
| Mode changes (`main.py`, `executor.py`) | `agents.mode`, `agents.enabled`, target locks | PATCH, DELETE, submit, release before heavy jobs, demotion | decisions read before slow calls; DELETE outside the lock | one custodian per target; commands only by it |
| Training queue (`training_queue.py`, `startup_train_guard.py`) | deque, pending, active slots, cancel flags | enqueue, cancel, cancel_active, start head, finish | several starters; two looks around unlocked work; stale copies | no request lost or weakened; Teach exclusive; one agent of a target at a time |
| Job admission (`history.py`, `telemetry.py`) | `agent_jobs`, `HEAVY_JOBS.owner` | start a job, end of the worker, gate | gate released outside the lock; failing starts | the gate covers every training; slots are bounded |
| Durable requests (`workflow_request_queue.py`) | `agent_workflow_requests`, wake event | admit, claim, wait, finish, recover | client retries; death; lost wakeups | every accepted request is answered, once |
| Correct workflow (`agent_workflow_actions.py`, `manual_feedback_workflow.py`) | operations, labels, actions, lineage edges | commit, label, undo | death between transactions; labels while it runs | an operation is committed once, with the labels it claims |
| Device arbiter (`device_agents.py`) | resource claims, holds, reservations | claim, release, reserve, finish | lock order; manual holds | one owner per resource |
| State stream and engine (`engine.py`, `ha.py`) | `state_map`, pending commands | events, snapshots, agent cycles | snapshots older than events | the newest state wins |
| Candidates and promotion (`agent_candidate*.py`) | one row per live agent: state, revisions, `dirty`, discard, verdict, evidence | feedback, build, compare, discard, promote, recover | the worker decides from a copy of the row and writes it later; a promotion takes long | what waits is built; what is promoted was judged and has learnt |
| Experiments, trial knowledge (`experiments.py`, `agent_explore.py`, `trial_knowledge.py`) | settings, the active trial, the learner; sessions, their journal, the child's row | propose, begin, observe, cancel, configure; open a session, count, restore, hand over, train | the end of a trial calls itself through three modules; a session opens without the lock; death between two writes | probes are alone; the user's settings return; the live agent learns nothing of a session; the child is trained |
| Provenance (`provenance*.py`) | command and user attributions | record, match, expire | echo before answer | a change has one author |
| Storage (`storage*.py`, `wal_checkpoint.py`) | SQLite, budgets | write, prune, checkpoint | pressure | the budget is kept |
| Learning, context, perception, evaluation | numeric models and statistics | fit, predict, score | floating point | out of reach of TLC |
| Composition, HTTP, UI, metrics | routes, patches | install, serve | order of patches | not modelled |

How they interact. HTTP threads, the websocket thread, the engine loop, the
queue's worker, one thread per training job, the workflow worker and the lifecycle
thread share one SQLite store and a few in-memory maps. A PATCH to Control, a
submit, training and deletion all meet in `executor.target_lock` and the journal.
Training first gives the target back (`_release_control_before_queue`; the mode stays),
then competes for `HEAVY_JOBS` with discovery, bootstrap and the candidate
trainers. "Apply Correct" goes through the durable queue to the workflow, which
creates the candidate that training later works on. `state_map`, written by the
stream, is read by the hand-over when it confirms and when it restores.

At start installers patch methods of these classes. The models describe the
patched system: `startup_train_guard` replaces `TrainingQueue.enqueue` and `run`,
`manual_feedback_workflow` wraps `workflow_correct_commit`. Nothing patches the
hand-over.

## 2. Plan

In the order of importance; A, B, C, D, G, H and I are done, E, F and J are left.

- **A** `ControlHandoff`, refining `TargetCustody`: the household's automations.
- **B** `TrainingQueue`: admission of jobs and the gate.
- **C** `WorkflowRequests`: durable requests and their replay.
- **D** `DeviceArbiter`: claims, locks, holds, reservation and outcome of a dispatch.
- **G** `StateSync`, `EngineLoop`, `RegistryFeed`: from the socket to a worker.
- **H** `CandidateBuild`: one live agent and its candidate (left: later generations of a
  lineage and the children of children).
- **E** `ControlOwnership`: A and D composed (claim a resource, take the lease, lose
  either).
- **F** `DiscoveryPriority`: preemption of discovery by training, and Teach
  preparation, beside B.
- **I** `ExploreSessions`: trials, Free sessions and the training of their child.
- **J** `Provenance`, `StorageBudget`; pure operators `LegalValue` and
  `Qualification`, each against a reference definition.

Runs keep one question each, with two agents, at most two automations or labels,
and one death. Theorems: type correctness, then the
invariant that carries the component's safety, then the refinement where there is
one. Every module keeps recursion out, so that it can be proved about.

## 3. Control hand-over

### What is modelled

`ha` is the state of the automations in Home Assistant, `seen` the add-on's
`state_map`; `lease` and `index` are the journal in `app_meta`, which is written in
two transactions; `mode` is the mode column, where `parked` is mode `control` in a row
with `enabled=0` and `gone` a deleted row; `op[t]` is the operation that holds
`target_lock` of `t`, with the locals of its Python frame; `op[Life]` is the lifecycle
thread (startup reconciliation, `release_all`), which takes no target lock.

Each call to Home Assistant, each refresh and each transaction is a step, so other
threads, `state_map` updates, changed gates and death come between any two:

- `Enter`, `Submit`, `Leave`, `Disable`, `Enable`, `Suspend`, `Demote`, `Delete` begin
  a request; `Resume`, `Erase` carry out what `Demote` and `Delete` decided outside
  the lock;
- `ReadLease` → `Scan` → (`DisableOne` → `Checkpoint` → `AddToIndex`)* → `AllDisabled` →
  `Confirm` → `Checkpoint` → `AddToIndex` → `CommitMode` or `Dispatch` is `take_control` and
  `acquire`; `DisableRaises` or a failed `Confirm` leads to `RestoreOne`/`RestoreRaises` →
  `RollbackDone`;
- `Release` → `RestoreOne`/`RestoreRaises` → `Settle` → `RemoveFromIndex` is `release`;
- `StartReconcile`, `SweepNext`, `FinishReconcile` are the start, `StartShutdown`, `SweepNext`,
  `Exit` the orderly stop, `Crash` a death.

A call may raise and still have taken effect, or return and have had none
(`Ambiguous`). `owed` and `leaked` are history variables: what we switched off and not on
again, and what went through a window that the action where it bites names.

### Properties and runs

| Run | Instance | Shows |
|---|---|---|
| `HandoffOneTarget` | 2 agents, 1 target, 2 automations, failing and ambiguous calls, 1 death | `OnlyKnownLeaks`, `EnterMeansOff`, `ForeignStaysOff`, `ImplementsCustody`, `TypeOK` |
| `HandoffRecovery` | 2 agents, 1 automation, failing calls, 1 death, every request but `enabled` | `LeaseBacksControl` |
| `HandoffLive` | 1 agent, failing calls, orderly stops | `LocksReleased`, `StartupCompletes`, while `release_all` sweeps without locks |
| `HandoffPartialLease` | 1 agent | violates `DispatchMeansOff` (README.md:14 of the repository) |

Without a run of its own: a death between `DisableOne` and `Checkpoint` leaves an
automation off that no record names, so nothing restores it (docs/INSTALLATION_PL.md:27
promises that leaving Control restores); `owed` and `leaked` make it visible, and
`OnlyKnownLeaks` allows exactly this window.

Two agents give a rival, two automations a partial result, one death every crash
point (a second one finds the states the first one leaves). `HandoffRecovery` may
stop: with every agent deleted and no automation left to observe nothing happens
any more; so it does not check for deadlock. `DispatchMeansOff` fails a second way in an
instance with two targets that share an automation: a lease has no reference count
(control_handoff.py:27), so releasing one target switches the automation on under the
other. The module allows such instances (`Known`), and the theorems cover them.

Fairness (`HandoffLive`): each worker and the lifecycle thread take a step when they
can. They are Python threads that hold a lock and make calls with a timeout, so each
call returns or raises. Nothing is assumed of users, events or gates.

### What is proved

- `TypeCorrect`: types.
- `NoRivalWhileBidding` and `ImplementsTargetCustody`: the inductive invariant adds `Sole`:
  while an operation is on its way to Control (`Bidding`) no rival is in Control. A rival
  can get there only by `CommitMode`, under the same target lock, or by `Enable`, which
  needs the lock free. With it every step maps to a step or a stutter of
  `TargetCustody`. The abstract specification keeps the one door the code leaves open:
  a parked agent returns to Control without being asked for custody.
- `HandoffInvariant`, `NoUnknownLeak`, `DispatchIsAlone`: `IInv` = types, `Shape` and `Locals`
  (where a thread is, what it knows), `JournalKeepsUp` (outside the unlocked sweep the
  record of the target has what the operation relies on) and `Answered` (an owed
  automation is off, and leaked or in `Hold(t)` of a target). `OnlyKnownLeaks` alone is not
  inductive: it does not say that the journal record an operation will cut down or
  clear is its own.

- `HouseholdStaysOff` (`ForeignStaysOff`). `TraceOp`, `TraceRecord` and `TraceWorld` follow an
  automation backwards through any step: an operation names what it named, what the record
  names or what somebody saw on; a record names what an operation named; only a rollback or a
  restore switches on. So what the household had off (`Foreign`) is never named by anybody.
- `EnterIsOff` (`EnterMeansOff`): on the way into Control what is still on (`Left`) is listed or
  called at first, among the called at `confirm`, and nothing afterwards (`OffInv`). `Left` never grows
  under the worker: others restore only what is known for their own targets (`OwnAutos`).
- `LeasesBackControl` (`LeaseBacksControl`), by `BackInv`: while the add-on serves, a journalled
  lease is backed by an agent in Control (or deleted, or about to be released: `Behind`), in
  the hands of the worker that will clear or adopt it (`Handled`), or `Partial`; during the
  reconcile it may also be still to be visited. It needs `JournalKeepsUp`: the record an
  operation clears is its own.

Every safety property of the runs on this component is proved; liveness is model-checked only.

### Abstractions

One device per target (resource claims are module D). `fit` stands for qualified,
reviewed, eligible and, in Shadow, enabled. Reading a record and writing it back is one step,
as `keep_remaining` and `save` run under the target lock (the exception,
`release_all`, is modelled as it is: `Raced`). The order in which automations are called is
free. The best-effort refresh in `release` is covered by `Observe`. The household does not
toggle automations while they are leased. SQLite writes do not fail, except the one that
commits the mode. One PATCH changes either the mode or `enabled`; a PATCH to Control
meets an agent in Shadow.

## 4. Training queue

### What is modelled

`jobs` is the deque as a set ordered by `Before`, as it is sorted again whenever it
changes; `pending` the keys of the dictionary; `active` and `parallel` the slots;
`running` `history.agent_jobs`; `releasing` the job threads that have emptied it and
not yet released the gate. `thread[t]` is where a thread is and what it read: enqueue has
`Check`, `Yield` (Control is released outside the lock), `Append` and, by the wrapper,
`Offer`; a start has `Pick`, `Validate`, `Admit`, `Setup`, then `Pop` or `Unwind` and `Failed`; the
worker's finish has `Poll`, `ListDone`, `Free`, which may enqueue again; `Discard` and
`CancelActive`, `Delete`, `CancelDeleted` and `Erase` are the other calls. Everything the code does
under one lock is one step, everything between two locks lies between two steps.

`wanted` and `lost` are history variables: the requests a waiting job answers for, and the
agents whose job left the queue by the hand of somebody who worked on another.

### Properties and runs

| Run | Instance | Shows |
|---|---|---|
| `QueueRaces`, half `queue` | 2 agents, Train and Teach, 1 caller and the worker, cancel, discard, delete, failing starts, storage pressure, another heavy job, 2 slots | `GateCoversTraining`, `OneJobPerAgent`, `KeepsStrongest`, `TrainingTypeOK` |
| `RuntimeLive`, part `queue` | 2 agents, Train and Teach, cancel, failing starts, another heavy job, 1 slot | `QueueDrains`, `SlotsFreed`, `SlotsBound` |
| `QueueLostRequest` | 2 agents | violates `NoRequestLost` |

The violation is a race of the code with its own comment; `findings` quotes it. Without
a run: two starters may each find the other's slot empty (training_queue.py:623-643), so a
Teach job may share the slots with another job, and a live agent may train
together with its candidate, against the comment at 652-653; a cancellation decided with an
old copy of `agent_jobs` (497) outlives its job; both behaviours are in the model.
The caller and the worker are two starters and two enqueuers (under storage pressure the
worker enqueues again), the least with which the races occur; a third thread repeats
them, and the theorems hold for any number. The code runs at most two slots. New calls
stop at `MaxRequests` numbered requests (two), others' jobs at `MaxOthers`.

Fairness (`RuntimeLive`): every thread runs, every training ends and releases the gate,
every other heavy job ends. The HTTP server is threading and the worker never ends
(`resilient_run` catches everything); that a training ends is an assumption about the
numerical code in its child process. There is no storage pressure in this run: under
it starting is refused on purpose.

### What is proved

`QueueTypeCorrect`; `GateIsHeld`, `SlotsAreBounded`, `QueueIsOnePerAgent`,
`RequestsKeepStrength`, for any number of agents, callers and slots.
`GateCoversTraining` needs `GateInv`: a thread that emptied `agent_jobs` and has still to
release the gate is the only such thread, the gate is still the pool's, and therefore
nobody can start a first job meanwhile. The argument rests on `acquire` refusing an
owned gate, even to its owner. Liveness is model-checked only.

### Abstractions

Three reason classes (nobody enqueues with the maintenance priority, 30).
Rebuild reasons, Teach context selection, training states and the history shown in the UI
are left out. The storage check is a choice (`Pressure`), the number of effective slots a
choice at each read in `1 .. MaxSlots`, as it depends on free memory; which parallel slot is
promoted is free. The unlocked reads of `Validate` are one step; `Admit` reads what matters again.
Discovery and its preemption are not modelled (module F): `gate = "other"` stands for it.

## 5. Durable Correct requests

### What is modelled

`state`, `ref`, `order` are `agent_workflow_requests`; `operation`, `labelsOf`, `childOf` are
`agent_correct_operations`; `labels` and `fresh` the labels of a generation and those younger
than its last commit; `child` its active child. In memory there are the wake event, the
clients that committed an admission and have still to set it, and the worker. Each step
of the worker is a transaction or lies between two: `Clear`, `Claim`, `BeginWait`, `Awake`, then
`Look`, `Select`, `Prepare`, `Preflight`, `MakeChild`, `Record`, `Commit` or `Abort`, `Mark`, `Finish`. `Restart` may
happen at any time and keeps only SQLite. Clients repeat requests, users add and undo
labels, other workflows create the child, and children leave.

`acted` and `cut` are history variables: the generation actions a request caused, and the
deaths between such an action and its commit.

### Properties and runs

| Run | Instance | Shows |
|---|---|---|
| `WorkflowReplay`, half `requests` | 2 requests, 2 clients, 1 label, failures, 1 death | `DoneMeansCommitted`, `RepeatsNeedTheWindow`, `AcceptedIsAnswered`, `TypeOK` |

Without a run: a death between the creation of the child and the commit makes the
replay act on the generation twice (`RepeatsNeedTheWindow` says that nothing else does),
and a label that arrives between `Select` and `Commit` is stamped as consumed
although no training saw it.

Fairness (`WorkflowReplay`): the worker runs and a client that committed an admission sets
the event; safety does not depend on it. Nothing is assumed of the poll timeout, so the run shows that the wake event
alone loses no request.

### What is proved

`WorkflowTyped` and `WorkflowInvariant` (`IInv`: types; `Hand` and `OneInHand`, the worker's request is the one in
processing; `Progress`, what it has established at each step; `Committed`; `Counted`), from it
`DoneIsCommitted` and `OneActionPerWindow`, and `OutcomesStay`, an action property
(`OutcomesAreFinal`, which the theorem makes a run unnecessary for). They hold
for any number of requests, generations, clients and deaths. `Counted` is what makes
`RepeatsNeedTheWindow` inductive: an action that no death accounts for belongs to a commit, or to the
worker that is about to make it. Liveness is model-checked only.

### Abstractions

A reference resolves to one generation (an agent id that resolves to another one
after a promotion is not modelled). Fingerprints and payloads are omitted. The refusals
of preflight, resolution and the model-identity check are a choice (`Failures`). Creation
of a child is atomic, under `manager.lock`. A label is a point of the chart. Rows are
created in the order of their time stamps. SQLite writes do not fail: if `_claim_next` or
`_finish` raised, the worker thread would end, and no property covers that. An orderly stop is a
`Restart`. Commits without a request id are not modelled, as the routes admit durable ones only.

## 6. The running add-on

`MCRuntime` and `MCRuntimeLive` put the four modules of this section, and that of
section 8, side by side; `MCRuntimeLive` has the training queue in the arbiter's place.

### DeviceArbiter

`owner`, `lease`, `last` and `hold` are the columns of `device_resource_state` by resource
key; `keys` is what the registry makes of each agent (a device, perhaps a group), `control`
the agents in Control, `manual` their own holds, `lock` the resource locks, `entry` the target
lock of a device. A thread takes a request (`Enter`, `Leave`, `Heavy`, `Submit`, `SubmitHeld`) through
`Resolve` → `LockRow`* → `Claim` or `Refuse` → `TookControl` or `HandoffRaises` → `CommitControl`
(`CommitRaises`) or `Recheck` → `Reserve` → `FinishDispatch`; a release is `Resolve` →
`LockRow`* → `Restored` → `LockRow`* → `Disown` → `DropControl`. The registry worker remaps (`RegistryUpdate`)
and reconciles (`SweepRead`, `SweepClear`, `SweepClaim`, `SweepDone`); `Restart` keeps the rows. The hand-over
itself is module A and here only succeeds or raises.

`wiped` (agents whose valid claim a reconcile cleared) and `moved` (agents remapped in or on
the way to Control) are history variables; `deaf` names the holds set after a thread's last look.

Without a run:

- contract() (device_agents.py:761) says a "durable pre-commit resource claim closes
  mode=control transition races and is reconciled on restart". `reconcile_control_resources`
  also runs after every registry update (796-805); it reads the modes at 436-438 without
  the locks and clears at 455-461 the claims of agents that were not in Control then. An
  agent that claims and commits in between loses its claim while in Control, and a
  rival that had passed executor.py:77-83 takes the same resource and commits too.
  `SharedControlIsExplained` says that this and a remap are the only ways.
- A hold set between `legal_action_mask` and `reserve_dispatch` binds nobody, against the
  comment at device_agents.py:576-578; `HoldsBindSiblings` says that no earlier one is missed.
- `release_control_resources` (399) locks what the agent owns after what it needs, so a
  remap breaks the canonical order that docs/AUDIT_F21_DEVICE_AGENT_CAPABILITIES_2026-09-17.md:93
  promises. The model has the order as it is; no run looks for the deadlock, as
  it takes two remaps.

### StateSync

A state is its `last_updated`. `home` is Home Assistant, `wire` the events on the way, `link` the
socket, `stateMap` the map, `polls` each thread in `refresh_states` with its answer and the
entities revised since it asked, `resync` the recovery latch and the timers. `HomeChanges`, `Subscribe`,
`Confirmed`, `SocketFails`, `Receive` are the stream; `Ask` or `Schedule` → `Answer` → `Merge`, or
`PollFails`, a snapshot; `Defer` puts it off. `missed` (history) are the entities whose last
change no event will tell. A removal of an entity that is not yet in the map, while a
snapshot that still has it is pending, is one of them (`Ghost`): the entity comes back.

### EngineLoop

`dirty`, `wake`, `pend`, `ready`, `hooked` are the engine's queues of changes, `busy` the targets with a
worker. `Wait` → `ClearWake` → `TakeDirty` → `Route` → `Dispatch`* → `WarmUp` → `Timers` is one turn of the
loop; `TargetDone` and `RetryCompleted` are the end of a worker and its callback. `owes` (history) are
the changes a target still has to hear of; `dropped` those that a failing look-up of the agents
lost: retries are put back, fresh changes are not (`RouteFails`).

Without a run: a wake-up may be lost. `dirty_entities` is taken only on a turn whose
`wake_event.wait` returned true (engine.py:1186). A `set()` between a wait that timed out and the
`clear()` at 1176 is erased, and changes put back during the grace (1200-1202) have no wake-up left
when it ends, against the comment at 620-621 "wake inference now instead of waiting for a whole-state
REST poll". Both wait for the next accepted change of any entity. `Wait` and `ClearWake` have the order as
it is; `NoTriggerIsLost` says that such a change keeps its place.

### RegistryFeed

`registry` is Home Assistant's list by number, `asked` and `stream` the socket, `inflight`, `again` and
`rested` what the stream remembers, `registryJobs` the queue of the one worker that applies, `known` the
result. A refused list is not asked for again (`refused`, history).

### Runs

| Run | Instance | Shows |
|---|---|---|
| `RuntimeSafety`, first four parts | arbiter: 2 agents, 3 resources, 2 threads, both layouts, `Dwell` and `HoldFor` 1, 3 instants, 5 events; sync: 2 entities, 2 snapshots at once, 3 states, 1 failure; loop: 2 targets and a shared source, 2 workers, 2 arrivals, 1 timer, 1 fault; feed: 1 registry, 3 updates, 2 breaks, 1 refusal | `DispatchesAreDisjoint`, `SharedControlIsExplained`, `HoldsBindSiblings`, `CurrentIsTrue`, `NeverRewinds`, `NoTriggerIsLost`, `RuntimeTypeOK` |
| `RuntimeLive`, first four parts | sync: 1 entity, 2 states; loop without faults; the feed; queue: 1 slot | `GapsHeal`, `RetriesAreServed`, `StormsEnd`, `RegistryNeverRewinds`, `RegistryCatchesUp`, and the three of section 4 |
| `ResyncGap` | part `sync` | violates `GapIsReconciled` |

Two agents that share one resource and own one each are the least with which a
claim can be partly taken; both layouts let a remap add and drop the shared resource; two
snapshots may overtake each other, three states let an old answer meet two newer events.
Swapping the arbiter's threads is a symmetry, as no formula names one.
These runs do not check for deadlock: each bound (instants, events, arrivals) is
exhausted in the end.

Fairness (`RuntimeLive`): the socket connects and delivers, Home Assistant answers (a request to it
has a timeout) and not every snapshot fails, timers pass, workers end and their
callbacks are called, the registry worker applies. Nothing is assumed of the
household, of users or of failures.

### What is proved

`StreamProofs`, for any number of entities, snapshots, targets, sources, registries and faults,
the three modules' type correctness and

- `ChangesAreKept` (`NoTriggerIsLost`). `LoopInv` adds the shape of a turn (what the loop holds in
  its hands at each step of it, `PassShape`) and that a target owes only what it depends on (`OwesDeps`):
  a change leaves a queue only for the loop's hands, and these only for a worker or a retry.
- `ListsMoveForward` (`RegistryNeverRewinds`). `FeedInv` says that at most one reply per registry is on
  its way, and that known list ≤ lists queued for the worker ≤ that reply ≤ the list of Home
  Assistant: one request at a time is what keeps answers in order.
- `StatesAreTrue` and `StatesMoveForward` (`CurrentIsTrue`, `NeverRewinds`). In `SyncInv` the last event on the wire
  tells the truth of its entity, and a snapshot may be merged only for entities that no event
  touched since it was asked for, where it is not older than the map.

`ArbiterProofs`, for any resources, threads, layouts and bounds, and any finite set of agents: type
correctness and

- `DispatchesNeverMeet` (`DispatchesAreDisjoint`). Two submits never carry one intent (`IntentsDiffer`), and
  while a service call is under way every resource of it still has its row and expiry, or the call
  has outlived them (`Reserved`): two live calls on one resource would be one row with two intents.
- `ControlIsExclusive` (`SharedControlIsExplained`). What carries it is `ClaimStands`: from its claim to its entry
  into Control an agent owns all its resources and no rival is in Control, unless it was wiped
  or moved meanwhile. It needs `EntryHeld`: the thread of an agent that kept its resources holds the lock
  of their device, the lowest of them. The rest is the claim's own check, under the locks of the
  resources.
- `SiblingsAreHeard` (`HoldsBindSiblings`), from `LookHolds`: between the last look at the holds and the
  reservation a sibling is held only if the hold came after that look.

A device is the lowest of its resources and a look at the siblings takes the latest of their holds, so
the proof first shows that a nonempty set of numbers has a least element (`LowestIsLeast`) and a finite
one a greatest (`GreatestExists`), by well-foundedness of strict inclusion: theorems of induction are
out of the provers' reach.

The liveness properties are model-checked only.

### Abstractions

How keys are derived from the registry, the leases of perception, the verification of a
command, what an agent makes of a state, and the archive are left out; `process_target` is one
step from its start to its end. An entity that was given an older event after a newer
snapshot keeps the newer (`News`). A worker that cannot be submitted, or that raises, is
logged by the code and ends like any other. The loop's clock is replaced by timers that
may run out at any time.

## 7. Candidates

### What is modelled

`CandidateBuild` is one live agent. `edge` is its row of `agent_candidates` (`asked` and `built` the two
revisions, `drop` the wish to discard, `verdict` and `judged` the offline gate and the training it
looked at, `evidence` a comparison that suffices); `taught`, `synced` and `model.learnt` say which label
has reached the user's list, the candidate's dataset and the candidate's model. `job` is its job in
the training queue, which a full rebuild waits for.

The worker lists the rows and handles a copy: `ListRows` → `StartCorrect` → `ClaimCorrect` → `FitCorrect` →
`ReadBack` → `Persist` or `Requeue`; a full rebuild is `StartFull` → `ClaimJob` → `MarkFull`, then
`FinishBuild` → `Compare` → `FullGate`. `manager.lock` orders feedback, build requests, configuration and
promotion (`LockFree`); the worker, a discard, a coalesced request and the engine's evidence write the row
without it. `AskLook`/`AskMark`, `DiscardMark` … `DiscardAgain`, `JudgeLook`/`JudgeWrite` and
`PromoteCheck`/`PromoteCommit` separate what is read from what is written. `BuildRestart` may
come at any time and applies the three recoveries that the start runs.

`raced` (history) names the windows a request fell in: between the worker's last look and its
verdict (`verdict`), under evidence that is written back (`judge`), between the sync and the
mark of a full rebuild (`sync`), during a promotion (`swap`); that a deferred discard struck out a request
that waited (`drop`); and what replaced a model after its verdict: a rebuild (`rebuild`), a job left in the
queue (`queue`).

### Properties and runs

| Run | Instance | Shows |
|---|---|---|
| `QueueRaces`, half `candidate` | 3 requests, 1 discard, 1 comparison, 1 promotion, 1 death, 4 of them together | `WaitingIsSeen`, `PromotableHasLearnt`, `GateJudgesThisModel`, `PromoteKeepsRequests`, `TrainingTypeOK` |
| `WorkflowReplay`, half `candidate` | 2 requests, 1 discard, 1 comparison, 1 death, 3 together | `RequestIsBuilt` |
| `DiscardRestart` | the same, 4 together | violates `DiscardSurvivesRestart` |

Each property excepts the windows that the code leaves open, so it says that there are
no others. They are divergences of the code from its own comments:

- `rebuild`: a full rebuild after a change of the configuration does not clear the verdict
  (agent_candidates.py:654-661) and the gate is not computed again where one exists
  (agent_candidate_conservative_correct.py:733-735, against 723-725): the candidate may be promoted on
  the verdict on its predecessor.
- `queue`: a job that was left in the queue trains over a Correct after its verdict.
- `sync`: a label between the sync and the mark of a full rebuild counts as built
  although no training saw it (agent_candidates.py:8-12).
- `verdict`, `judge`: a verdict or evidence overwrites `queued`: the request waits in a
  state the worker does not look at.
- `swap`: a coalesced request during a promotion is deleted with the row.
- `drop`: a discard that has to wait for a job clears `dirty` (agent_candidates.py:758), also of a request
  marked since the discard looked at the queue. Promotion does not look at `discard_requested`
  (agent_candidate_atomic_promote.py:266-283): once late evidence has put the row back to `comparing`, the
  candidate passes for fresh with its old verdict and model, and the worker may put it back while
  Control changes hands. The runs do not reach the end of this (it takes six requests, a discard, a
  comparison and a promotion); it was found by the proof, whose invariant was not inductive without
  the exception, and TLC confirmed it on that behaviour.

Three requests are one for the build that runs, one in its window and one to change
what follows; the total keeps the run small while every pair of windows and every triple
of different events occurs.

Fairness (`WorkflowReplay`): the worker and the other threads run, a job of the queue starts and ends, a
promotion ends. Starting a build is strongly fair: the worker is put off by the debounce
(15 s) and by other heavy jobs, each of which ends.

### What is proved

`CandidateProofs`, for any number of threads that ask and any limits: type correctness and the four safety
properties of `QueueRaces` (`RequestsAreSeen`, `PromotedHasLearnt`, `VerdictFitsModel`, `PromotionKeepsRequests`).
None is inductive: each rests on what the worker knows between two of its writes, which a copy
of the row no longer says. `CandInv` states that, one part per question:

- `LateMarks`: a worker past its last look has seen every request that waits, but for `verdict`.
- `StillWaits`, `JobOfWorker`: what the worker found queued is still `dirty` when it is claimed, and a
  successor created meanwhile has no job: this is why failing or claiming *whatever row there is*
  (`WHERE parent_agent_id`) loses no label.
- `Fitting`, `PutBack`, `HandedOver`: during a Correct no verdict stands, so what the worker puts
  back cannot be under promotion. It carries `PromotionKeepsRequests`.
- `Learning`, `Syncing`: a label that was asked for is in the model, or in the dataset of a job that is
  still in the queue, or the fine-tune is under way, or the build failed with no verdict, or a
  named window excuses it. It carries `PromotedHasLearnt`; a failed build with a verdict is the case
  that needs most of it, since late evidence can bring such a row back.
- `Judgement`: whatever will retrain a judged model is known before it ends (`rebuild`, `queue`, `drop` or `dirty`).

There is one lemma per action, with the row's new fields first, then the types, then the parts
of the invariant. `RequestIsBuilt` (liveness) is model-checked only.

### Abstractions

Correct and full rebuilds are modelled; undo rebuilds, neural, offline-RL, autonomous and
exploring candidates, later generations (a candidate's own child, the parent's
state), temporary gates and custom promotion rules, retention, the comparison of configurations, and a
user who cancels the candidate's job in the queue are not. The numbers of the
comparison are a choice.

## 8. Experiments and Free Explore

### What is modelled

An agent in Control whose experiments are enabled tries a small deviation (a probe) or watches
the undisturbed case (a reference). `trial` is `data['active']` of each agent, `prepared` and
`calling` are the probes between `propose`, `begin` and `dispatched`; the service call in between is made
without `experiments.lock`. A Free session enables the experiments with settings of its own
(`config`, `previous`), collects a number of outcomes (`sessions`), puts the old settings back and
hands its journal (`facts`) to a child candidate (`child`) that the worker (`trainer`) trains. `taught`
says whether the live learner holds an outcome of a session.

The end of a trial is one call through three modules, as `trial_knowledge` wraps
`agent_explore`, which wraps `Experiments._finish`; each may be entered from `observe`, `cancel` or
`configure`, and itself calls `configure`. `closing` is that call's frame: `Close` →
`TeachAndClear` → (`CountOutcome` → `RestoreSettings` → `HandToChild` → `WriteStatus`)? → `Forget` →
`ApplySettings`. Its steps are transactions or writes of the store, so a death and threads that do not
take the lock come between them. `AskFree` → `EnableFree` (`EnableRefused`) → `OpenSession` or `UndoFree` is the
request; `TrainChild` → `CommitModel` → `PersistGate` → `ReportTraining`, or `TrainFails`, the worker;
`DiscardChild` the user; `ProcessDies` keeps what SQLite has, and drops the active trials as `_get` does.

`wish` (history) is what the user set last; `told` (history) names what the properties except:
`cut` (a trial was ended while its call was on its way), `overlap` (a session began or ended over
settings that were not its own), `refused` (the old settings were not put back, the agent being no longer
qualified, or the undo raised), `died`, `diedTraining`, `late` (a session opened while `finish` ran),
`again` (a session closed a second time), `unfit` and `empty` (facts the trainer does not take).

### Properties and runs

| Run | Instance | Shows |
|---|---|---|
| `RuntimeSafety`, part `explore` | two sessions, of one outcome and of two, with three trials; or one session with two trials, a change of the settings and a death; or two agents with two trials each | `ProbesAlone`, `SettingsAreTheUsers`, `LiveIsNotTaught` |
| `RuntimeLive`, part `explore` | one session, two trials, one death | `QueuedChildrenConclude` |
| `FreeChildStale` | as `RuntimeSafety` | violates `TrainedChildIsFresh` |

Two sessions are the least that overlap; a third trial lets a trial begin under one and end under the
other; two agents are the least that could probe at once. Each exception was seen to be needed:
without it TLC finds the window. They are behaviours of the code:

- `overlap`: `previous_config_json` is read when the session is asked for (agent_explore.py:864), and put
  back whatever the settings are by then: a user who switches the experiments off during a
  session finds them on again after it, and a session that is asked for while the one
  before it ends puts back the settings of that one, with no session that would take them off.
- `refused`: `configure` refuses enabled settings of an agent that is no longer qualified, so the
  session's own settings stay; the failure is only logged (411-416).
- `late`: `_session_for_live` is asked before the wrapper asks again (trial_knowledge.py:825,
  agent_explore.py:757), and a session is opened without `experiments.lock`.
- `died`: the learner is saved with the lesson (`_finish`) before it is put back (875).
- A discarded child of a session that measured nothing makes `_mark_edge` raise
  (agent_explore.py:206): the session stays `collecting`, and so does its claim to every later trial.
- `diedTraining`: after a death between the commit of the model and the gate, all facts are marked
  as applied, and `return True` (trial_knowledge.py:617) leaves the row queued.

Fairness (`RuntimeLive`): the thread that holds `experiments.lock` and the candidate worker go on, as
nothing in their steps waits for anybody. Nothing is assumed of users, trials or calls.

### What is proved

`ExploreProofs`, from `ExploreAssumption` alone, that is for any agents, any number of sessions and trials and any
budgets: `ExploreTyped`; `ProbesStayAlone` (`ProbesAlone`); `LessonsAreForgotten` (`LiveIsNotTaught`). The
inductive invariant `ExploreInv` has five parts besides the types:

- `ProbeInv`: a call on its way belongs to the probe that is observed, or to a trial that was
  cut short. `ProbesAlone` alone is not inductive: without this a second call could begin.
- `StartInv`: a session that is not open yet has no child, and the worker has none of it. So
  nothing but `OpenSession` gives a session its first status.
- `SessionInv`: unless the process died midway, a session that collects is not in training (but for the
  step that writes so), and a trial's session collects until the trial ends. Hence `finish`, which asks for
  a session before the outcome is taught, finds one whenever the trial had one.
- `LessonInv`: the copy `finish` keeps (`closing.clean`) is clean, it is there whenever the learner
  was taught, and the one way out that puts nothing back (`_mark_edge` raises) is taken only where
  nothing was measured and so nothing taught.
- `FrameInv`: the frame of the end of a trial names a session that has been opened.

That `Latest` is a session that collects rests on `NewestExists`: a finite set of numbers has a
greatest.

`SettingsComeBack` (`SettingsAreTheUsers`) needs `WishInv` besides. While sessions are pending the settings are
not what the user chose, and a session can be pending inside another. So the invariant speaks
of a set of them (`Nested`): without an accident there is a set of pending sessions such that the settings in
force are a member's or the user's, and each member keeps in `previous` those of an earlier
member or the user's. When no session is pending the set is empty. A session that ends leaves the
set: either the settings in force are its own, and what it puts back is an earlier member's or the user's,
or they are not, which is the accident `overlap`. Liveness is model-checked only.

### Abstractions

Which arm is tried, rewards, and all timing (interval, cooldown, daily budget, expiry of a
proposal, the observation window) are left out: a trial may begin and end at any time.
Requests for sessions are handled one at a time, and each session has a
parent of its own (the race of a discard with a second child of the same parent is in `CandidateBuild`). The three writes of
`create_explore_child` and the note that is merged after them (trial_knowledge.py:895-907) are one step.
Only `Host` has sessions; the trials of other agents end in one step. Targeted and Additional signal
sessions are not modelled.

## 9. What stays out of reach

Every safety property of the passing runs is stated by a theorem. The provers do not do liveness,
ENABLED or induction over data, so every liveness property is TLC's alone. SQLite is taken as atomic and durable per transaction, Python's
locks as correct. Components marked `not_modelled` in `PROJECT.json` carry the reason there.

docs/RELEASE_0_14_18.md:24 speaks of one heavy training job at a time. Since then
`training_parallel_agent_workers` allows two under the single gate owner
`agent_pool`; the models follow the code.
