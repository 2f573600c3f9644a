# TaskForge: specifications, model checks and proofs

TLA+ modules of the parts of TaskForge that are hard to test: sagas with their
retries, timeouts, compensation and cancellation; the orchestrator and the
process around them; the event bus and the unit of work; the event-sourced task,
its store and the replicas of the service that handles its requests.
Paths below are relative to the repository (`src/...` is its code).

The repository's own tests are empty files, so its code, comments and README
are the reference.

## 1. The system

Every component runs on one asyncio event loop: code between two awaits is
atomic, and what can go wrong happens *at* the awaits. Actions of the modules
are therefore the pieces of code from one await to the next.

| component | state it keeps | operations | hard behaviour | correct means |
|---|---|---|---|---|
| **Saga instance** (`libs/saga_framework/saga.py`, `SagaStep`, `SagaInstance`) | status, step index, completed steps, failed step, context | `execute`, `_compensate`; per step `execute` with retries and `compensate` | attempts that time out after taking effect, results the context refuses, failing compensations, callbacks that raise, a cancel at any await, loop teardown | effects bounded by the retry budget; failure unwinds every completed step, once, latest first; the final status is true; it settles |
| **Saga orchestrator** (same file) | running and completed tables, one task per saga | `start_saga`, `_execute_and_cleanup`, `cancel_saga`, lookups | tasks file themselves while others start and cancel; teardown of tasks that never ran | a saga is in exactly one table; filed labels do not change; every saga is filed |
| **Step library** (`libs/saga_framework/step.py`) | tasks of gathered substeps, the choice of a condition | `ParallelStep`, `ConditionalStep`, HTTP, gRPC and Kafka steps | retries and timeouts at two levels, gathered errors, a condition that answers otherwise at a retry | retry budgets multiply and no more; no orphaned task; completes only together; undoes what it did |
| **Workflows** (`services/workflow_service/saga/workflows.py`) | none: three builders | onboarding, approval, bulk operation | a step whose dependency is never injected | the announced effect happens |
| **Workflow service** (`services/workflow_service/main.py`) | `_running`, main loop, shutdown task | `start`, signal handlers, `shutdown` | shutdown called by several parties, two sleeps that race | shutdown takes effect once; a signal ends the process; running sagas get their grace period |
| **Event subscriber** (`libs/common/event_bus.py`) | position, committed offset, DLQ buffer | `start`, `consume`, `stop`, `_send_to_dlq` | crash or stop between handler and commit, failing commits, malformed messages | at least once, in order; nothing committed that was neither handled nor refused |
| **Event publisher** (same file) | producer | `publish` with three tries | a send that errs with or without effect | part of the unit of work below |
| **Unit of work** (`libs/common/unit_of_work.py`) | tracked aggregates, events to publish, publish tasks | `commit`, `rollback`, context manager | partial saves, retries nested in a timeout, cancellation, another unit over the same aggregates | no event stored twice, none published unstored, nothing left running |
| **Task aggregate** (`services/task_service/domain/`) | fields, version, uncommitted events | create, update, assign, change status, change priority, delete, `raise_event`, `from_events` | an event recorded and then refused, or raised while a commit waits; saves that do not mark what they saved; long sequences of legal commands | events are stored once and in order; the stored ones fold into what the task was; the history is legal |
| **Event store** (`services/task_service/infrastructure/event_store.py`) | one session and its transaction per process; the table | `save_events` (read the version, insert one by one), `get_events` | check and insert as separate statements, other replicas' open transactions, rows that cannot be read, a session that stays failed | streams are whole and no version is held twice |
| **Task repository** (`infrastructure/repository.py`) | cache of live aggregates | `get_by_id`, `save`, `list_tasks`, `invalidate_cache` | racing loads, aggregates changed before they are saved | cache and memory agree with the session |
| **Task gRPC servicer and process** (`infrastructure/grpc_server.py`, `main.py`) | handlers in flight; publisher, server, `_running` | six handlers, start, shutdown | a double save; requests that share one session; shutdown with handlers that hang | every request is answered; a refused one leaves nothing; a signal ends the process |
| **Observability, command line demo, protos, deployment** | - | - | - | not modelled: configuration, printing, declarations |

How they interact: the workflow service owns one orchestrator, which owns one
task per saga; a saga awaits its steps, which call participants. The task
service's handlers load an aggregate from the repository, run a command, and put
it into a unit of work, which saves its events in the store and publishes them
through the publisher; subscribers consume them. `api-gateway`, projections and
the read cache of the repository's README have no code.

`PROJECT.json` lists every hazard at its line, with the properties that cover it.

## 2. Modules

```
SagaContract  <=refines=  SagaInstance  --Stage,status-->  SagaLife
                             |   ^                            |
             SagaInstanceProofs  |                     SagaOrchestrator
           SagaRefinementProofs  MCWorkflow (Workflows)       |
                                                       WorkflowService
                                                       WorkflowServiceProofs

EventDelivery  <=refines=  EventSubscriber  <--  EventSubscriberProofs
NestedStep     <--  NestedStepProofs         UnitOfWork     <--  UnitOfWorkProofs
TaskAggregate  <--  TaskAggregateProofs      EventStore     <--  TaskService
                                             TaskService    <--  TaskServiceProofs
```

`A <-- B` is for B extends A.

- **SagaContract** - what a saga promises, without retries, labels, callbacks:
  steps commit in order; after a failure every completed compensatable step is
  handled exactly once in reverse order; then it is over.
- **SagaInstance** - `SagaStep.execute`/`compensate`, `SagaInstance.execute`/
  `_compensate`. `pc` is the await at which the coroutine is parked. Actions:
  `Run`, `AttemptReturns`, `ResultRejected` (`context.update` raises, line 162),
  `AttemptFails`, `BackoffEnds`, `OnSuccessReturns/Raises`,
  `CompensationReturns/Fails`, `OnFailureEnds`, and from outside `Cancel`,
  `LoopTeardown`, `LateEffect`. What participants see is counted in `applied`,
  `late` (requests given up by `wait_for` that may still be served) and `undone`.
- **SagaLife** - the sequence of stages and labels of one saga;
  **SagaOrchestrator** uses it for every saga, and `KeepsToLife` checks that
  SagaInstance moves only that way, so the composition does not rest on a guess.
- **SagaOrchestrator** - the two tables, `StartSaga`, `SagaMoves` (with the
  `finally` block of `_execute_and_cleanup`), `CancelSaga`, `CloseLoop`. `_lock`
  is never held across an await, so it has no state of its own.
- **WorkflowService** - EXTENDS SagaOrchestrator with `start()`, the signal
  handlers and `shutdown()`; seconds pass by `Tick`.
- **Workflows** - the retry counts, compensations and step endings of
  `workflows.py`, as values for SagaInstance's constants.
- **NestedStep** - the two steps that execute other steps: `ParallelStep` gathers
  all of them, `ConditionalStep` awaits the one that its condition chooses at each
  attempt (or none), with retries and timeouts at both levels, and their
  compensations: gathered with the errors swallowed, or the if-step's alone.
- **EventDelivery** - an ordered at-least-once delivery contract;
  **EventSubscriber** - one consumer of one partition through several lives.
- **UnitOfWork** - `commit` with one action per save and per publish attempt,
  `_publish_with_retry` around `publish`, the wait of 10 s, `rollback`,
  cancellation, other writers of the streams, and a second unit over the same
  aggregates.
- **TaskAggregate** - every command of the task on `AggregateRoot.raise_event`;
  `RepositorySave`, which stores the recorded events and marks nothing
  (`repository.py:86`); a unit's commit as `CommitSaves`, then the wait for the
  publishing, and `CommitEnds`, which clears whatever is recorded by then, or
  `CommitCancelled`, which clears nothing; and `Reload` (`from_events`). Commands
  come at any time, as the cache shares the aggregate. The variables `was` and
  `lost` only record what has been, for the properties.
- **EventStore** - the statements of `PostgresEventStore` on the one session of
  each replica: what it sees (committed rows and its own), the unique index, an
  INSERT that waits for another replica's transaction, and the transaction that
  nobody ends and that the first error fails for good. It has state and operators,
  no specification of its own: its operations are parts of a handler's step.
- **TaskService** - EXTENDS EventStore with the handlers of all replicas
  (`CreateTask`, `Receive`, then `Load`, `CheckVersion`, `Insert`, each the answer
  to one statement and the code up to the next), the cache of live aggregates, the
  unit of work around each save, cancelled and failed statements, and the process:
  `Signal`, `GraceEnds`, `ServerStops`, `MainReturns`, `Crash`, `Restart`. Commands
  are reduced to how they can end (refused, nothing to change, an event, an event
  that `apply_event` refuses); TaskAggregate has what they do.

The `MC*` modules give constants to the runs. Definitions called "Faulty
variant" are plausible bugs, used to see that a property notices them; no
specification uses them.

## 3. Runs

| run | states | what it shows |
|---|---|---|
| `saga` | 1 763 | guarantees, contract and life cycle of one saga; it settles |
| `service` | 21 177 | no saga is lost between the tables or filed twice; labels in the history are final; every saga gets filed; telemetry is closed once, and never while a call of `shutdown()` still sleeps; a signal ends the process |
| `nested` | 3 018 | budgets of the two retry levels multiply; completion is joint; no task outlives its attempt; nothing is undone twice or before its time; it settles |
| `subscriber` | 307 559 | the delivery contract, bounded loss under auto commit, a malformed message as a wall, progress |
| `unit_of_work` | 1.4 million | versions hold, published implies stored, nested retries never reach their end, nothing left over, a commit ends |
| `task` | 149 565 | events are stored once and in order; the stored ones fold into what the task was; histories are legal; a refused event that gets stored is the last of its task |
| `task_service` | 453 926 | streams are whole across replicas; the cache knows what the session holds, and memory was loaded from rows that are still there; every request is answered unless another replica keeps it waiting; a signal ends the process |

Five runs show a disagreement between the code and what its texts say:

| run | property | what the trace shows |
|---|---|---|
| `cancel` | `CancelSticks` | `cancel_saga` returns True and only sets a label; the saga runs on and reports completed |
| `onboarding_as_built` | `OnboardingPublishes` | the publish step has no publisher: every onboarding fails at its last step and is undone |
| `shutdown` | `ShutdownWaits` | after a signal the main loop ends the process within a second, while `shutdown()` still sleeps its five; running sagas are cut off |
| `conditional` | `OnlyEffectsUndone` | the else-step ran, or nothing, and the if-step's compensation is executed |
| `task_service_refused` | `RefusedLeavesNothing` | a handler's save is followed by a second one of the same events at the end of its unit of work, always a version conflict: the request fails and its events stay |

The same models also show, without a run of their own:

- A step that fails for good is not in `completed_steps`. If one of its attempts
  was lost (it timed out after taking effect) or its result was refused, its
  effect stays although the saga reports COMPENSATED. `UnwindsCleanly` therefore
  speaks of participants whose answers can be believed. A `ParallelStep` that
  fails leaves the substeps that had succeeded in place for the same reason:
  `UndoneAfterAll` says nothing is undone at `pc = "failed"`.
- `gather(return_exceptions=True)` swallows the errors of substep compensations:
  `UndoneAfterAll` promises a complete undoing only of a conditional step.
- A unit that fails at its second aggregate leaves the events of the first in the
  store, and the next unit over them is a version conflict (`VersionsHold`).
- An event that was handled is dead-lettered when its commit raises
  (`event_bus.py:269`), and a dead letter can be lost while a later commit
  passes its message: `RefusedOnTheirWay` promises `dropped` as one of the places.
- A unit is committed even if the broker has none of its events
  (`NeverGivesUp`: the timeout passes before the retries are used up, so the
  branch that logs the failure is not even reached).
- An update that carries one of the shortest titles with a blank (`" ab"`) is valid
  as it comes and too short as it is recorded (`aggregates.py:92`,
  `value_objects.py:125`): `raise_event` records the event, and then `apply_event`
  refuses it. A unit's own save never stores it, as the version was not counted
  up. The repository's does, with the version that a later request expects, if
  that request changes nothing (`repository.py:86`); from then on `from_events`
  raises on the task's stream, where "the current state is a fold over the event
  history" (`src/README.md:33`). Nothing can be stored behind it
  (`RefusedIsLast`), and `StoredIsWhatWas` is about streams without it
  (`AllApply`). `task_service` has this save too.
- A commit that is cancelled in its wait leaves its events stored and recorded; no
  later save stores them again, but none stores anything else either until the
  task is loaded anew (`StoredInOrder`).
- An event that is raised on the task while a commit waits for its publish tasks
  is cleared with the saved ones, and never stored (`unit_of_work.py:172`, where
  line 128 says "Commit all tracked changes"). Memory is then ahead of the store,
  at a version that no further commit expects. `lost` notes it, and all properties
  of `task` but `StoredInOrder` are about tasks that have lost no event. In the task
  service it does not come to that, because no commit there gets as far as
  publishing (`CommitsConflict`).
- Nothing a replica writes is committed, so replicas never see each other's
  events; two that write the same version meet at the unique index, where the
  later one waits, with all its requests, until the earlier one's process ends or
  its session fails (the exception in `RequestsAnswered`). A signal still ends it.
- When a session fails its rows are gone and the cache still shows them:
  `MemoryWasLoaded` and `CacheKeepsUp` are about sessions and what they can read,
  and a failed one stays failed until its process is restarted.

### Bounds, and why they are enough

- `saga`: four steps with one and no retries. It contains a step without
  compensation in the middle, the passing-over at both ends, two neighbouring
  compensations, failures before and after each, and a failure after the last
  step (`on_success`). The first participant fails cleanly, the others in every
  way. The proofs remove the bounds for all but `SagaSettles`.
- `service`: two sagas, so that one starts or moves while the other is filed, two
  signals, the real sleeps of 1 s and 5 s. (Three sagas pass too, with 402 000
  states.) The proofs remove the bounds for the safety part.
- `nested`: two substeps, one retried and with a compensation, one neither; one
  outer retry. The same two are the if-step and the else-step. The proofs remove
  the bounds for all but `NestedSettles`.
- `subscriber`: three messages, two lives, at most one malformed message: a
  message can be refused, committed past by its successor, and handled again in
  the next life. The proofs remove the bounds for all but `GetsThrough`.
- `unit_of_work`: three tracked aggregates of which the middle one has no
  events, one event each, one foreign write, two units; three tries, three
  rounds and 10 s as in the code. The proofs remove the bounds, not the three
  numbers of the code, for all but `CommitEnds`.
- `task`: three events by every command, with two titles (one with a blank),
  two priorities, one user and all statuses. Commands after the third event
  that would record a fourth are cut off by `MaxEvents`. Three are enough for an
  event to be stored, a second to be refused or raised in the wait, and a third to
  share its version. An update of description or labels alone stands for those
  with further fields, whose event is the same as without. The proofs remove the
  bounds.
- `task_service`: two replicas, three requests (`MaxRequests`), one signal or crash
  (`MaxStops`). Three requests are enough for one to save, a second to have loaded
  before or after it, and a third at the other replica to wait for both. The calls
  meet on one task with a committed row; a second task has a row that cannot be
  read, and a third is created. Reads, updates, an assignment and deletions all
  occur, with right and outdated versions. The proofs remove the bounds for the
  safety part.

### Fairness

- Saga: `WF(Progress)`. `wait_for` bounds every action and compensation and a
  backoff is a sleep, so the coroutine always moves on. The callbacks have no
  timeout: no fairness, and `SagaSettles` ends there.
- Service: the clock goes on, the event loop resumes what is ready, and a saga
  that is not in a callback is resumed. Nobody has to start, cancel or signal.
- Nested: every await of the step has a timeout or is a sleep.
- Subscriber: `consume()` is resumed while it has something to do. The code
  bounds neither handler nor commit: that both end is an assumption on them.
  Stops, crashes and restarts are not fair.
- Unit of work: the clock goes on and the store answers; sends need not end.
- Task service: *some* handler whose statement can be answered is resumed (the
  database answers, in whatever order), and the grace and the exit of a stopping
  process come. Errors, signals, crashes and restarts are not fair.

Deadlock is checked in every run but `task_service`, whose clients may have no
request left: elsewhere the states in which a component rests have an
explicit stuttering action (`Terminated`, `Closed`, `Exited`, `Idle`, ...).

## 4. Proofs

Every proof is for all values of the constants, under the assumption its module
names:

| module | assumption |
|---|---|
| `SagaInstanceProofs`, `SagaRefinementProofs` | `SagaAssumption`: a saga has at least one step; the constants have their types |
| `WorkflowServiceProofs` | `ServiceAssumption`: the bounds and the sleeps are natural numbers; any set of sagas |
| `NestedStepProofs` | `NestedAssumption`: types, and the if-step is not the else-step; any set of substeps, finite or not |
| `EventSubscriberProofs` | `SubscriberAssumption`: any number of messages, lives and malformed messages |
| `UnitOfWorkProofs` | `UnitAssumption`: any set of aggregates with any number of events, any number of units and foreign writes; `Sends`, `Rounds` and the waits are the code's |
| `TaskAggregateProofs` | `TaskAssumption`: any titles, priorities and users, any number of events |
| `TaskServiceProofs` | `TaskServiceAssumption`: any replicas, tasks, calls and number of requests; the committed rows of a task count from 1 and a deletion is the last, as transactions of this code leave them |

| theorem | states |
|---|---|
| of SagaInstance | |
| `Invariance`, `TypeCorrect` | `[]IInv`, `[]TypeOK` |
| `AttemptsBounded` | `[]AttemptBudget` |
| `CompensatedOnce` | `[]UndoneOnce` |
| `CompensatedInReverse` | `[]UndoneInReverse` |
| `UnwindsCompletely` | `[]FailureUnwindsAll` |
| `OutcomeIsTruthful` | `[]TruthfulOutcome` |
| `NothingLeft` | `[]UnwindsCleanly` |
| `Refinement` | SagaInstance implements SagaContract |
| `LifeKept` | `KeepsToLife`: every step is a move of SagaLife, or none that it sees |
| of SagaOrchestrator and WorkflowService | |
| `ServiceRunsOrchestrator` | the service's specification implies the orchestrator's |
| `Invariance`, `TypeCorrect` | `[]IInv` of the orchestrator, `[]ServiceTypeOK` |
| `FoundSomewhere` | `[]FoundInOneTable` |
| `TablesAgree` | `[]TablesMatchTasks` |
| `LabelsFinal` | `FiledLabelKept` |
| `ClosedOnce` | `[]TelemetryClosedOnce` |
| of NestedStep | |
| `Invariance`, `TypeCorrect` | `[]IInv`, `[]NestedTypeOK` |
| `AttemptsMultiply` | `[]AttemptProduct` |
| `NothingOutlives` | `[]NoOrphans` |
| `Together` | `[]CompletesTogether` |
| `UndoneOnceCompleted` | `[]UndoneAfterAll` |
| of EventSubscriber | |
| `Invariance`, `TypeCorrect` | `[]IInv`, `[]SubscriberTypeOK` |
| `NothingForgotten` | `[]RefusedOnTheirWay` |
| `HandledOncePerLife` | `[]OncePerLife` |
| `OneLostEach` | `[]OneLostPerLife` |
| `WallHolds` | `[]MalformedHoldUp` |
| `Refinement` | EventSubscriber implements EventDelivery |
| of UnitOfWork | |
| `Invariance`, `TypeCorrect` | `[]IInv`, `[]UnitTypeOK` |
| `EventsInPlace` | `[]VersionsHold` |
| `StoredFirst` | `[]PublishedIsStored` |
| `LastSendNeverCome` | `[]NeverGivesUp` |
| `CommitIsWhole` | `[]NothingLeftOver` |
| of TaskAggregate | |
| `Invariance`, `TypeCorrect` | `[]IInv`, `[]TypeOK` |
| `StoredOnce` | `[]StoredInOrder` |
| `FoldIsWhatWas` | `[]StoredIsWhatWas` |
| `NoIllegalEvent` | `[]HistoryIsLegal` |
| `NothingFollowsRefused` | `[]RefusedIsLast` |
| of TaskService | |
| `Invariance`, `TypeCorrect` | `[]IInv`, `[](TypeOK /\ ProcessTypeOK)` |
| `StreamsWhole` | `[]StreamsAreWhole` |
| `CacheUp` | `[]CacheKeepsUp` |
| `MemoryLoaded` | `[]MemoryWasLoaded` |
| `CommitsConflict` | the second save of a unit of work never passes its version check |

**SagaInstance.** None of a saga's guarantees is inductive: they speak of the end
of a saga, or of what participants have seen, and do not mention where the loops
stand. `IInv` adds that. `LoopInv` says that `completed_steps` is 1, 2, ..., k with
k tied to `current_step_index` and `pc`, and that the unwinding position is one
with a compensation; `BudgetInv` bounds each step's requests by the current
attempt; `UndoInv` says that exactly the compensatable positions above `unwinding`
have been undone or noted; `StatusInv` says which labels each stage can have. The
first lemmas handle the parts that several actions share: `UnwindParks` (where
the compensation loop stops, and that nothing compensatable was passed over) and
`FailIInv` (entering compensation). Then there is one lemma per action, `NextIInv`
collects them, and each guarantee follows from `IInv`. `NothingLeft` needs one
conjunct more (`CleanInv`: a step that was not completed has, with a believable
participant, no effect), which is proved inductive relative to `IInv`.

The refinement maps the position of the loops to the contract's set of handled
steps; every action is a contract step (`Advance` and commit, failure, handling
of one step, end) or a stutter, which is the case for retries, labels, callbacks,
cancels and late effects. `LifeKept` is the same walk through the actions with
stages and labels; with it, what `SagaOrchestrator` composes is what
`SagaInstance` does.

**SagaOrchestrator and WorkflowService.** The orchestrator's `IInv` says that the
history has no saga twice (`FiledOnce`), that the tables share the started sagas
(`TablesSplit`), and which labels a saga has that has not run yet. Everything that the service does to sagas is a step of the
orchestrator (`ServiceRunsOrchestrator`), so its invariants carry over, and the
theorems of the process are inductive on top of them: `ShutdownInv` says that at
most one call of `shutdown()` has come past its guard, that `_running` is cleared
then, and that the telemetry is not closed while that call sleeps.

**NestedStep.** `IInv` adds where the substeps stand at each stage (`StageInv`),
and how many requests the current attempt has made for each (`Requests` in
`BudgetInv`). An attempt that is cancelled counts as the whole round of
`SubRetry + 1`, so that the bound is kept when the next one starts; that a round
more is one more multiple of it (`OneMoreRound`) is the only step of the argument
that is not linear. `EffectInv` and `UndoInv` tie the substeps' states to what
was applied and undone.

**EventSubscriber.** `IInv` relates the three positions (committed, fetched, in
hand) at each await, and says which messages each life may have handled.
`OneLostEach` counts: only a crash or a stop with auto commit can lose the message
in hand, so the number of lost ones grows by at most one when a life ends; the
argument is about cardinalities of sets of messages and has lemmas of its own. With
manual commits the refinement maps the committed offset to the contract's frontier;
of auto commit it asks nothing.

**UnitOfWork.** `KeptInv`, `LoopInv` and `StoredInv` say how far the unit has come
with each aggregate and what the store has of it, `VersionsHold` is among the
conjuncts. `NeverGivesUp` is about time: `Waited` is the least time that a publish
task must have spent to stand where it stands (the backoffs of the tries, and of
the rounds), `TaskInv` says that it does not exceed the time since the tasks were
started, and the last send would need more than the 10 s of the wait.

**TaskAggregate.** `from_events` is a fold over a history of any length, which needs
induction over data; the induction rules of the library take an operator, which
the installed provers do not instantiate. The lemmas use the least counterexample
instead (`Least`: a nonempty set of natural numbers has a least element), from
which follow that the recursive function exists (`FoldExists`), what its value is
(`AfterIs`), and what a stream folds into (`Breaks`, `FoldsToTask`, `FoldsInto`).
`IInv` has two parts. `Ordered` always holds: stored versions ascend, recorded ones
do not descend and are each stored or newer than all that is stored, and no event
is ahead of the live task but one that it refused. So a save that the unique index
takes keeps the order, whatever version it expects. `Sound` holds until an event is
lost: each event that applies made the task what it was at its version (`Made`),
and the versions are numbered without a gap from the stored events through the
recorded ones to the live task (`Numbered`). The events of a save that goes through
then continue the stream (`Consecutive`), and `CommitEnds` either loses an event or
leaves the store as far as the task. `RefusedInv` is about a stored event that was
refused: the live task keeps it recorded, at the version that the store ends with,
so the unique index takes no save behind it.

**TaskService.** A handler checks the version in one statement and inserts in later
ones, at the same session as other handlers and on an aggregate that they may
share through the cache, so none of the three properties is inductive. `IInv` adds
what makes them hold. `Sound`: the versions of an aggregate's events rise by one at
most (a refused event keeps the version back), and nothing follows a deletion.
`Fits`: what it was loaded with is a prefix of what its replica reads. `HeldInv`:
an aggregate is held, by cache or handlers, for one task at one replica. `SaveInv`:
the events that a handler has yet to insert leave no gap to the stream, and if the
first of them is the next version, then the aggregate knows all that can be read;
a second save expects a version below the stored one. `NextRow` is the heart of
the argument: the unique index turns away every version but the next, hence an
INSERT that goes through continues the stream, with no deletion before it.
`Commanded`, `Released`, `Inserted`, `Checked` and `Gone` then show that the kinds
of steps keep `IInv`, and the lemmas named after actions say of which kind each is.
`get_events` is a recursion over rows; what it returns (`ReadsWhole`, `EventsAppend`)
is proved with the least counterexample, as for TaskAggregate.

Only model-checked: all liveness (`SagaSettles`, `SagasGetFiled`,
`SignalEndsService`, `NestedSettles`, `GetsThrough`, `CommitEnds`, `RequestsAnswered`,
`SignalEndsProcess`). Liveness needs fairness and ENABLED, which are out of the
prover's reach.

## 5. Not modelled, and choices that need saying

- `unit_of_work.py` uses `Generic` and `Optional` without importing them, so the
  module as it stands fails on import. The modules that rely on it describe what
  its lines do once the names resolve.
- `raise_event` assigns to events of a frozen dataclass (`unit_of_work.py:30`,
  `events.py`), which raises FrozenInstanceError on the first event of every task.
  `TaskAggregate` and `TaskService` describe what the remaining lines do once
  events can be stamped.
- The registration of the servicer is commented out (`grpc_server.py:256`) until
  the stubs are generated, and the schema is sent as one text of several
  statements, which asyncpg does not prepare (`main.py:104`). `TaskService` takes
  the servicer as registered and the table as there.
- `main.py` uses its session after the block that opened it has closed it. A
  SQLAlchemy session can be used again after `close()`: it begins a new
  transaction, which is the one of `EventStore`. Two first statements that reach
  a session without a connection at once, of which SQLAlchemy refuses one, are
  not told apart from a failed statement.
- Nobody in the repository commits a row. `Committed`, the rows a run starts with,
  are those that an earlier version or another tool has left.
- `list_tasks` and `get_all_events` (with the window of events by id at
  `repository.py:125`) and `invalidate_cache` have no caller.
- An `initialize()` that fails, and `migrate`, are not modelled.
- Nothing in the repository creates an `EventSubscriber`; it is modelled as the
  class can be used, with both values of `enable_auto_commit`. What its owner does
  when `start()` raises, with the consumer already in its group because the DLQ
  producer did not start (`event_bus.py:233`), is not known.
- Metrics, logging and tracing are write-only and left out, and so are the
  values in a saga's context, time stamps, texts other than task titles, and
  `validate_transitions`.
- A saga definition without steps, and a step with a negative retry count, are
  not modelled: no workflow builds one.
- The event store behind `UnitOfWork` and `TaskAggregate` is its abstract
  interface (check and append as one step; the publishing, the marking and a
  cancellation in between are steps of their own): they are about units over
  several aggregates and about commands. `TaskService` has the statements one by
  one, with units over one aggregate, as the handlers use them. As every commit
  there is a version conflict, its events are never published.
- In `UnitOfWork` nobody raises an event on a tracked aggregate while its unit
  waits, which commit() would clear unsaved (`unit_of_work.py:172`): `NothingLeftOver`
  is about the events that were there at the save. `TaskAggregate` has the commands
  that come in between, for a unit that tracks the one task, and at most one unit
  that waits: a second one over the same task meets stored events and conflicts.
- `src/main.py` (a demonstration that prints and sleeps), protocol buffers,
  deployment and build files: no state of the system.

## 6. Plan

Done, in this order: SagaContract, SagaInstance with its proofs, SagaLife and
SagaOrchestrator, WorkflowService, Workflows, EventDelivery and EventSubscriber,
UnitOfWork, TaskAggregate, NestedStep with its proofs, EventStore and TaskService.

The proofs, in this order: SagaInstance and its contract, NestedStep, the
orchestrator and the service, EventSubscriber and its contract, UnitOfWork,
TaskAggregate, TaskService. With them every safety property and action property
of the passing runs is a theorem.

Next: abstract specifications of what UnitOfWork and TaskService promise (an
append-only stream per task, published events a part of it) and the refinements.
