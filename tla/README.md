# Model Collaboration Engine: formal models and proofs

The engine (Rust, `src/src/`, with a Python package in `src/python/`) runs one
task at a time per run, many runs per process, against a set of language models.
It spends the host's money: every model call, planner call, critic call,
decision call and host tool call is reserved in a SQLite ledger before it is made
and settled after it, within a budget, a total number of calls and a deadline.
What goes wrong in such a program is seldom in one function. It is a settlement
that races a reconciliation, a future that is dropped between a reservation and a
call, a `close()` that starts while a task is queued, feedback that arrives while
the evidence it judges may still change. These models are about those.

## 1. The system

### Components

| component | source | state | operations |
|---|---|---|---|
| Durable ledger | `store.rs`, `store/settlement.rs`, `store/planning.rs`, `store/recovery.rs`, `store/schema.rs` | tables `tasks` (status, total, settled, reserved, calls, plan, checkpoint), `attempts` (amount, cost, status, outcome), `events` | `create_submission`, `save_plan`, `checkpoint`, `reserve`, `settle`, `reconcile`, `finish`, `ledger`, `records`, `close` |
| Evaluation records, host feedback, metrics | `store/feedback.rs`, `store/metrics.rs`, `contracts/feedback.rs` | tables `evaluations`, `feedback` | `record_evaluation`, `record_feedback`, `evaluations`, `metrics` |
| Engine lifecycle | `engine.rs` | `Lifecycle` (closing, closed, active runs with their tokens), the semaphore of slots, `close_gate`, the `drained` notification | `run`, `run_with_host`, `close`, `recovery_records`, `reconcile`, `record_feedback`, `evaluations`, `metrics` |
| Task execution | `engine/execution.rs`, `engine/invocation.rs`, `engine/invocation/dispatch.rs`, `engine/tools.rs`, `engine/planning.rs`, `engine/planning/attempt.rs` | the locals of one future: round, candidate, quality floor, excluded and attempted models, tool exchanges | prepare, plan, assess, invoke, reserve, dispatch, settle, tool batch, evaluate, critic, decide, finish |
| Planning proposals | `planning.rs`, `planning/validation.rs`, `contracts/planning.rs` | none | `proposal_call`, `parse_proposal`, `validate_plan` |
| Router | `router.rs`, `router/selection.rs`, `contracts/selection.rs` | none | `route`, `route_scoped` |
| Routing profiles, rankings | `router/profiles.rs`, `router/rankings.rs`, `contracts/profiles.rs`, `contracts/rankings.rs` | a snapshot frozen with the plan | `capture`, `resolve` |
| Assessment and decision policy | `assessment.rs`, `decision.rs` | none | `evaluate_rules`, `merge`, `validate_for`, `apply` |
| Deterministic evaluation, strategies | `strategy.rs`, `tools.rs` | none | `compile`, `evaluate`, tool request validation |
| Model adapter | `adapter.rs`, `adapter/evidence.rs`, `events.rs` | an SSE accumulator, the evidence cell, the event channel | `invoke`, `send` |
| Database ownership | `store.rs`, `store/schema.rs` | the file, its identity lock, the application id and schema version in its header | `open`, `lock_database`, `schema::open`, `close` |
| Python bridge and package | `bindings.rs`, `bindings/`, `src/python/` | sessions: a one-slot work channel and a table of replies | `next_tool`, `reply`, `fail_tool`, `cancel`, `result`, `close` |
| Configuration, contracts, ranking import | `contracts.rs`, `contracts/configuration.rs`, `configuration.rs`, `_configuration.py`, `_rankings.py` | none | parsing and validation |

### How they interact

- A host calls `run_with_host`. `run_input` registers the run under the lifecycle
  mutex, waits for a slot, writes the task's row, prepares (planner, decision
  model, plan), executes, writes the final status and drops its permit and its
  registration, in that order.
- Every use of the store goes through `db_call` to one SQLite worker: one
  transaction per call, in the order of the calls, commits although its caller may
  have been dropped.
- Execution reads the ledger, routes against what is available, reserves, sends,
  settles. Nothing is locked in between: the ledger's own checks are what holds.
- Providers, tools and the event consumer are awaited with the run's cancellation
  token and with the deadline less `finalization_ms`. The token is cancelled by the
  host and by `close()` when its grace period ends.
- The host queries (`recovery_records`, `reconcile`, `record_feedback`, `evaluations`,
  `metrics`) share `close_gate` with `close()`, and work on the tables that runs are writing.
- `close()` stops admission, closes the semaphore, waits for the registrations to
  drain (twice, with timeouts, cancelling in between), closes SQLite and gives up the
  file lock.

### What is hard here

1. *Money across awaits.* Available budget is read before routing; the reservation
   is a later transaction, the settlement a third. Between them the host reconciles,
   cancels or drops the future, or the process dies.
2. *Conflicting evidence.* An attempt may be settled and reconciled, both twice, with
   different costs, with costs above the reservation, with none.
3. *Ends.* Cancellation, the task deadline, the planner's own deadline, a failing
   store, an event channel nobody reads, a tool that never answers.
4. *Shutdown.* Runs register, queue and end while `close()` runs, times out, fails, is
   dropped or is called again.
5. *Feedback.* It is written by the host with retries, about records that tasks
   still write, and read by plans that pin its revision.
6. *Two runtimes.* A Python host and its tool callbacks run on an asyncio loop, the
   engine on Tokio. Each may be cancelled at any await, and each waits for the other.
7. *Evidence over time.* A route must depend on what was captured with the plan, while
   feedback arrives and rankings expire, and on nothing else.
8. *Streams.* A call is paid for from the moment usage was seen, although its frames come
   cut anywhere, contradict each other, and its future is dropped while it waits for bytes
   or for a slow reader of events.
9. *Ownership.* Two engines open one file through different names, in one process or two,
   and the threads that lock and create go on when the future that wanted them is gone.

For each component the properties that make it correct are in section 3; the list of
hazards with their lines is `hazards` in `PROJECT.json`.

## 2. The modules

| module | models | composes |
|---|---|---|
| `Totals` | sums over a sequence, and the small arithmetic the others share | |
| `Account` | abstract specification of the ledger: accounts, claims granted and charged once | |
| `Ledger` | the store's methods over its tables | `Account` as refinement |
| `Feedback` | evaluation records, host feedback, metrics | `Ledger` |
| `Lifecycle` | `Engine`: admission, slots, shutdown, queries | |
| `TaskRun` | one task from its row to its final status | `Ledger` |
| `Session` | one run as a Python host sees it, and the bridge it crosses | |
| `Routing` | assessment of demand, captured evidence, the router's choice | |
| `Stream` | one model call on the wire, from its dispatch to what it is settled with | |
| `Ownership` | engines that open, use and let go of a database file | |
| `LedgerProofs`, `FeedbackProofs`, `LifecycleProofs`, `TaskRunProofs`, `SessionProofs`, `RoutingProofs`, `StreamProofs`, `OwnershipProofs` | theorems | |
| `MCLedger`, `MCFeedback`, `MCLifecycle`, `MCTaskRun`, `MCSession`, `MCRouting`, `MCStream`, `MCOwnership` | constants for TLC | |

### Ledger

One action per method of the `Store` trait, because each is one transaction and a
crash between two actions leaves exactly the state shown. `reply` is what the
caller gets: `ok` or the kind of the `EngineError`. The callers are arbitrary, so
whatever a run, a host or a crash does is a behaviour of this module.
An attempt's id (a UUID) is its position in `attempts[t]`. `Available` is
`Ledger::available` with its two saturating subtractions; `SettleAttempt` is
`settle_attempt` with all of its outcomes: idempotent repeat, conflict, a sum that
the `i64` columns cannot hold, a cost above the reservation (committed, *then*
reported as an error), an unknown cost. `finish` and `checkpoint` do not look at the
status of the row, so the module lets them act on a finished task too. Of the saved plan
`plan[t]` keeps the phase it was saved with, `"none"` before: `save_plan` is called with the
evidence of a failed planning as well as with the effective plan.

Left out: the `events` table and the payload columns.

### Account

What the host is promised, without tables: an account is opened once; while it is
open claims are granted out of what remains; every claim is charged at most once,
at what the call really cost; nothing is granted after it is closed, but what is
outstanding may still be charged. `Ledger` refines it with `remaining = total -
settled - reserved` and the attempts as claims.

### Feedback

`Feedback` puts the tables `evaluations` and `feedback` beside an instance of
`Ledger`. `RecordEvaluation` and `SaveFeedback` follow the order of the code's
conditions, `Refused` is `feedback_key` and `profile_key` with the error kinds
they return. A host call whose answer is lost is `RecordFeedbackUnanswered`, and repeats
are ordinary further calls. `Quality`, `CallStatistics` and `Revision` are what
`read_metrics` computes in one read transaction.

### Lifecycle

A run's `place` is the await (or the drop) it is at; between two actions anything
else may happen. The biased `select!` of `run_input` is in the guards of `Acquire`
and `StopQueueing`; dropping the locals is three actions, `ReleaseSlot`,
`Unregister`, `NotifyDrained`, because `wait_drained` looks at the registrations and
then waits, and a step in between is what could lose the notification. `Abandon` is
the host dropping the future; a write that was already sent to the SQLite worker
happens or not. A `close()` goes through `closeSlots`, the two rounds of
`wait_drained`, `closeStore`, `unlock`; it may time out, fail or be dropped, and be
called again. What runs do in the middle is `EndExecution`, with any result
run_input distinguishes. `Disturbed` bounds which runs are cancelled, dropped or too late;
the proofs hold for every such set.

### TaskRun

The future of one admitted task. A step ends where the future awaits: at a store
call (conjoined with the `Ledger` action, going on with its `reply'`), an event, a
provider, a tool. `provider` records, by attempt, what was sent and what came back,
so that properties can compare the ledger with what really happened. Interleaved
with the run: `HostCancels`, `DeadlinePasses`, `HostReconciles`, `StoreFails`, `EventFails`,
`Drop` (a dropped future or a crash). A step that begins with an event (`Emits`) may wait for room
in the host's channel as long as nobody stops the run, and the event may be refused or its wait
ended. When planning fails, its evidence is saved first (`SaveFailedPlan`), then the
`planning_failed` event is sent and the host's fallback taken, if there is one (`FallBack`); the
effective plan is saved by `FixPlan` only.

The ledger inside has 0 among its costs, whatever `Costs` is: a call that was reserved and
never sent is settled at 0. That this instance is used as `Ledger` says a store is used is
proved (`RunIsALedger`).

Abstractions: the router is its guarantee (some model that is not excluded, meets
the floor and fits the budget, or none); a planner's proposal is accepted, refused
or unusable; deterministic evaluation passes or asks for revision; prompts,
conversations, artifacts and snapshots are left out; context overflow may happen
wherever the code checks it, the planner's prompt included.

### Session

Four asyncio tasks (the tool worker, the one that waits for the outcome, the host inside
`async with engine.stream(...)`, `Engine.close()`), each a variable with the await it is at, and
the Tokio side: the engine's run, the one-slot work channel, the table of reply senders.
An asyncio step runs to its next await; `next_tool`, `reply` and `fail_tool` keep their table
behind a mutex and are one step each. A oneshot sender that is dropped fails the wait
(`DropSenders`), one whose receiver is gone does nothing (`Send`). Cancelling the worker
throws into the callback, which may end with the cancellation, with an answer or with an
error. `close()` has several callers, one of them perhaps the callback itself, which the
context variable refuses. Of the engine only what it does with the bridge is kept.

Left out: iteration over events, a callback that opens another engine or waits for its own
run's `result()` (which would wait for ever, as any task that awaits itself).

### Routing

`Prepare` assesses a task and captures its snapshot in one step, as `prepare_submission`
does between two awaits; `Route` is a request of `reserve_model` with any node, budget, floor
and exclusions; `FeedbackArrives` and `TimePasses` go on around them. Facts carry their kind, so
that `Matches` follows `matches_rule` case by case; a decision's signals are validated as in
`validate_for` before the policy sees them. `Preference` is the sort key of `route_inner` under
`task-fit-v1`: score, ranking, cost, id. Probabilities are integers, parts of `Unit`, rounded down;
the constraints that no state changes (capabilities, context, lists, regions) are one set of
models by node, and the static parts of a score one number by model.

Left out: snapshots of the schemas 1 to 3, the planner's own routing by global priors, `Health`
(the engine passes an empty one), reasons and explanations.

### Stream

The future of `dispatch_model` for one call, with the adapter inside it. `ReadBytes`, `ReadLine`
and `ReadFrameEnd` are the reader of server-sent events: bytes of a line, the end of a line that
ends no frame, the blank line that ends one; `ReadFrame` is `Accumulator::frame` of either endpoint,
`TakeFrame` what `invoke` does around it, in its order: usage and identity go into the
evidence cell before the frame may fail, be too large, or wait for room in the event
channel. `Interrupt` is the drop of the future at any await by cancellation or the deadline;
`Settle` charges the answer's usage or else the evidence. The host reads events, leaves, cancels.

A chat frame may have any number of choices. Those of index 0 or without an index are read: their
text and tool fragments are joined in order, but the frame's increment is the content of the last one
alone (`ChatDelta`; `adapter.rs:180` assigns `delta` where it appends to the text). With two contents in
one frame the first is in the answer and is never shown. `docs/usage.md:280` does not promise that
increments add up to the answer, so this is described and is no finding.

Bytes are not spelled: what a line says is chosen when it ends. Sizes are counted in lines
(frames) and pieces (output). Empty data lines are left out; after `MaxFrames` frames only `[DONE]`
is read. The text and tools of a frame that is refused for a missing tool index are left out of the
accumulator, which is dropped there. Left out: `wire_request`, which builds the request and keeps nothing.

### Ownership

A step is one call to the file system or to SQLite. `CreateFile`, `OpenLock` and `TryLock` are
`lock_database` in its blocking thread, `Connect`, `CheckSchema` and `Initialize` are
`schema::open` in SQLite's, whose queued calls are `Write` and `Perform`. `Detach` is the host
dropping the future of `open()`, or an engine it has not closed: the lock is gone at once, the
thread goes on with what it was asked. `Crash` ends a process with all its engines.
A lock file is an inode, so that a lock file that is removed and made again is another lock.

Outside the model: programs that delete files of the lock directory (a cleaner of temporary
files), or replace the database under its path between identification and connection. Writes a
dropped engine had queued may still land after its lock is gone; that is `Perform` of a detached
engine, and the boundary `docs/usage.md` draws for engines that are dropped and not closed.

## 3. Runs and properties

| run | configuration | specification | properties |
|---|---|---|---|
| `ledger` | `MCLedger.cfg` | `Spec` | `TypeOK`, `ColumnsMatch`, `WithinBudget`, `EvidenceFinal`, `BillIsFinal`, `ImplementsAccount` |
| `feedback` | `MCFeedback.cfg` | `Spec` | `TypeOK`, `CreditedOnce`, `MetricsBalance`, `RecordsFinal`, `RevisionIdentifiesQuality` |
| `lifecycle` | `MCLifecycle.cfg` | `Spec` | `SlotsConserved`, `StoreOutlivesUsers`, `HandoverClean`, `RowKept`, `CleanupTimeoutHonest` |
| `shutdown` | `MCShutdown.cfg` | `RetryingSpec` | `RunReturns`, `ShutdownCompletes` |
| `accounts` | `MCAccounts.cfg` | `Spec` | `TypeOK`, `OffTheListIsPaid`, `AccountsClosed`, `ConflictIsTold` |
| `rounds` | `MCRounds.cfg` | `FairSpec` | `PlannedFirst`, `RecordedFirst`, `CompletedIsEarned`, `CascadeClimbs`, `StopEnds` |
| `decision` | `MCDecision.cfg` | `Spec` | `DecisionBilled` (violated) |
| `session` | `MCSession.cfg` | `FairSpec` | `TypeOK`, `CleanedUp`, `ToolServed`, `SessionEnds` |
| `close_retry` | `MCCloseRetry.cfg` | `Spec` | `CloseTellsFailure` (violated) |
| `routing` | `MCRouting.cfg` | `Spec` | `ClassHolds`, `OnlyValueDecides`, `BetterQualityNeverHurts` |
| `stream` | `MCStream.cfg` | `Spec` | `TypeOK`, `ReceivedIsCharged`, `AnswerIsWhole`, `IncrementsInOrder` |
| `ownership` | `MCOwnership.cfg` | `Spec` | `SoleOwner`, `FilesKept` |

The type invariants of `Lifecycle`, `Routing` and `Ownership` and the ledger's `CallLimit` are in no
run: they are theorems.

What they say, briefly (each is stated in full above its definition):

- `ColumnsMatch`: the reserved and settled columns are the sums over the attempts,
  however settlements repeat, conflict or race a reconciliation.
  `WithinBudget`: the engine commits no more than the budget plus what providers
  charged above their reservations.
- `EvidenceFinal`, `BillIsFinal`: evidence is not lost, and a task that has left the
  recovery list has its final bill.
- `ImplementsAccount`: every store call is one step of `Account` or none.
- `SlotsConserved`: permits are neither lost nor given out twice. `StoreOutlivesUsers`:
  the database is open while anyone may use it. `HandoverClean`: the next owner of
  the file finds a running row only where a host dropped a run or a final write failed.
  `RowKept`: a duplicate submission never touches the first one's row.
  `CleanupTimeoutHonest`: no notification is lost. `RunReturns`: a registered run returns.
  `ShutdownCompletes`: a shutdown that its host retries completes, although attempts time out, are
  dropped or fail.
- `OffTheListIsPaid`: once a run is over and its task is off the recovery list, what
  providers reported was charged, what was never sent was free and what nobody
  reported was supplied by the host. `AccountsClosed`: a returned run leaves no call
  pending and no reported usage uncharged, with the two exceptions named there.
  `ConflictIsTold`: when the host has settled a call and its provider then reports another
  cost, the run ends with an error.
- `PlannedFirst`: nothing executes before the *effective* plan is durable, also where the host's
  fallback takes the place of a proposal whose failure was saved before. `RecordedFirst`: a critic
  is sent nothing before the record of the candidate it is to judge is saved. `CompletedIsEarned`,
  `CascadeClimbs`: what is completed was accepted, and the next model of a cascade is better by the
  required gain. `StopEnds`: a run whose token is cancelled or whose deadline passes ends although
  nobody answers, nor reads its events.
- `CreditedOnce`, `RecordsFinal`, `RevisionIdentifiesQuality`,
  `MetricsBalance`: feedback is credited to the attempt that did the work, counted
  once, about evidence that cannot change any more, under a revision that
  identifies it; the costs in the metrics are the ledger's.
- `CleanedUp`: whoever is told that a run is over finds it accounted for and no callback
  of it running. `ToolServed`: no request is lost between the channel, the table and the
  loop. `SessionEnds`: a host that leaves or is cancelled comes back, and so does `close()`,
  wherever it is called from.
- `ClassHolds`: no model below the demanded class is asked. `OnlyValueDecides`: budget, floor and
  exclusions only take candidates away, rankings decide between equals only.
  `BetterQualityNeverHurts`: neither target nor floor can turn quality against a model.
- `ReceivedIsCharged`: a call is charged the last valid report of usage among the frames that were
  read whole, however it ends. `AnswerIsWhole`: an answer is what the frames said, in order, and
  complete only if the provider's last word was that it is. `IncrementsInOrder`: the host
  is shown every increment once and in order, a planner's text never; the increments are the
  text of the answer as long as no frame has two contents for it.
- `SoleOwner`: no two engines are given the same file, whatever it is called, and who is given
  one has its whole schema. `FilesKept`: nothing but a missing or an empty file is changed by opening.

The mutants in `PROJECT.json` show for each property a plausible bug that breaks it.

### Bounds, and why they are enough

- `ledger`: one task (the store's methods touch the rows of one task; two tasks do
  not interact), two calls so that the limit is hit with both a settled and an
  open attempt, amounts 0 to 2 against budgets 0 and 3 so that both fit, one fits and
  none fits; costs below, at and above the reservation, and 9 above
  `MaxLedger = 5`, which stands for `i64::MAX`.
- `feedback`: one artifact and one model, two feedback ids, two evaluator
  versions, two attempts with any node; a critic is mapped to the generator's role, so that the role
  alone does not tell them apart. The view leaves out `reply`, which no property reads,
  so that states that differ in the last answer only are one.
- `lifecycle`: two runs that submit the same id, one slot, one closer that may be called
  again after any failure, one query, one dropped `close()` and one failed one, and runs that are
  dropped wherever they wait. `shutdown`: the same faults, without the query, and only one of the two runs may
  be cancelled, dropped or late (`Disturbed`); it may register first or second, so that what waits
  for it and what it waits for are both seen. Liveness over both disturbed runs does not finish
  in time, and safety has them in `lifecycle`.
- `accounts`: tool tasks with batches of two, planned tasks with every combination of
  fallback, decision model, zero and non-zero budget; four calls, costs below and
  above the reservations, one store fault, one reconciliation.
- `rounds`: tasks of every strategy, planned, with a decision model and with tools; four calls,
  three rounds and models of quality 1, 3 and 4 with a required gain of 2, so that the last one is
  better but not by enough.
- `session`: one run with up to two tools, so that a second request may meet the leftovers of
  the first; a closer outside and one in the callback. `close_retry`: two closers outside.
- `routing`: three models of three classes and costs, of which the two better ones score alike
  without feedback, so that the ranking decides; qualities below, at and above the target; facts that
  match, fail to match, have the wrong kind or are missing; valid and invalid signals; one
  sample of feedback on any key, before or after the capture; every budget, floor and
  exclusion that changes who is eligible.
- `stream`: frames of each endpoint that bring text, usage (early, last, twice, malformed), a tool call
  in fragments, without an index, errors and every way to end, one with two contents for the answer
  (index 0 and no index) and one for another choice between them, three to a stream, so that any frame may undo what an earlier one said; frames in one or two data lines; a limit of
  two lines, of eight pieces and of two tools; a channel of one event and deltas longer than
  an event, so that the reader is waited for; prices at which one report reaches `MaxCost`.
- `ownership`: three engines in two processes, one file with two names, which is missing, empty,
  ours, of an older version, somebody else's by its objects or by its header; three
  inodes; two queued calls. One file is enough: engines of different files share nothing.

Measured with two workers: `lifecycle` 3.3 million states in 43 s, `stream` 2.2 million in 106 s, `accounts` 2.0
million in 70 s, `rounds` in 75 s, `shutdown` 0.23 million in 65 s; the others have less than 0.2 million.

`CHECK_DEADLOCK FALSE` stands where the system stops: every run has returned, or
the task is over. `Ledger` and `Feedback` never stop.

### Fairness

- `Lifecycle!FairSpec`: weak fairness for the steps of a run that has registered and
  of a `close()` that was called, because the Tokio runtime polls a ready future. This
  includes `EndExecution`: that a run in the middle ends is the assumption here, and
  `TaskRun!StopEnds` (run `rounds`) is the result that backs it for a run whose token is cancelled or
  whose deadline passes. Strong fairness for `BeginClose`, because Tokio's mutex is
  first come first served. Nothing is assumed of `HostCancel`, `Expire`, `Abandon`, `Register`.
- `RetryingSpec` adds that a host that has begun to close calls `close()` again when it
  failed, which
  `ShutdownCompletes` needs: `close()` returns an error after its cleanup timeout.
- `TaskRun!FairSpec`: weak fairness of the engine's own steps (`Proceeds`). No provider,
  tool, event consumer or host ever has to do anything: a step that begins with an event is owed only
  once the token or the deadline ends the wait for room in the channel.
- `Session!FairSpec`: both runtimes go on with what is ready; a run that is to stop ends, which is
  `TaskRun!StopEnds`; native `close()` comes back, which its two timeouts see to; a callback
  ends, which `docs/usage.md` asks of the host for callbacks that are cancelled. Hosts and
  closers need not do anything, and the engine need not ask for tools.

### Disagreements with the documentation

- `decision`: `docs/usage.md:80` says that a decision call is settled at the
  `actual_cost` its adapter returned. An assessment that is refused after it came
  back is settled with an unknown cost (`fail_decision`), and its cost is dropped.

- `close_retry`: `Engine.close()` of the Python package waits for one task and then asks
  `self._close_task`, which may by then be the task of another caller's retry, for its
  result (`__init__.py:99-114`): the second of two concurrent callers gets asyncio's
  `InvalidStateError` in place of the `cleanup_timeout` that `docs/usage.md:340` promises.

A small one has no run: `docs/usage.md:335` says that a queued task returns `closed`. The biased select of
`run_input` looks at the token first and `close()` cancels the tokens of queued runs when its grace
period ends, so that a task that was not polled in between (a grace period of zero is enough)
returns `cancelled`. `StopQueueing` has both.

## 4. Proofs

`LedgerProofs` proves for every set of tasks, budgets, amounts and costs, every call
limit and every ledger size, under `LedgerAssumption` (the limits are naturals,
budgets fit the columns, amounts and costs are naturals):

| theorem | statement |
|---|---|
| `TypeCorrect` | `Spec => []TypeOK` |
| `ColumnsAreTotals` | `Spec => []ColumnsMatch` |
| `CallsLimited` | `Spec => []CallLimit` |
| `BudgetBounded` | `Spec => []WithinBudget` |
| `EvidenceIsFinal` | `Spec => EvidenceFinal` |
| `BillsAreFinal` | `Spec => BillIsFinal` |
| `LedgerRefinesAccount` | `Spec => ImplementsAccount` |

They follow from `Inductive`, `Spec => []IInv`. `TypeOK` alone is not inductive: that
the reserved column stays in `0..MaxLedger` when a settlement subtracts an amount
needs that the amount is still part of it, that is `ColumnsMatch`; and that it stays below
`MaxLedger` when a call is reserved needs that what is available was computed from a
budget that fits. `WithinBudget` needs `ColumnsMatch` too, for an overrun moves money from
the reservation to the settled column. So `IInv` is the conjunction, and the proof has
one step per action and under it one per conjunct the action disturbs.

The last three speak of steps. `StepEffect` says once what a step can be, whichever of
the store's methods made it: nothing an account is about, a new task, a final status, a
reservation, or an answer to a call that is not settled. `EvidenceIsFinal` and `BillsAreFinal`
then look at reservations and answers only. For the refinement each effect has a lemma
(`OpensRefines`, `ClosesRefines`, `GrantsRefines`, `AnswersRefines`) that makes it one step of
`Account` or a stutter under the mapping of `Ledger`; granting needs `CallLimit` (the next
claim has an id) and opening needs `RowFirst` (the columns are still zero), both parts of
`IInv`. `AmountsAsked`, invariant on its own, says that what an answer releases is an amount
that was asked for.

The columns are sums over a sequence that one action extends and another changes
in one place. The first section of `LedgerProofs` has the facts about such sums that the steps cite:
the total of a function that agrees up to `n`, of one changed in one place (`TotalUpdate`),
and that every member is bounded by the total. The library's induction theorems take a
predicate as a parameter, which the installed provers cannot instantiate; the section does
induction over a *set* of naturals instead (`SetInduction`), which it derives from the well
foundedness of their order, and from it that the recursive function inside `Total` has
a solution, and that all solutions agree.

`RoutingProofs` proves for every finite set of models and every profile, rule, policy, request
and decision signal, under the three assumptions of `Routing` (ids differ, quantities have their
ranges, profiles are as validated):

| theorem | statement |
|---|---|
| `TypeCorrect` | `Spec => []TypeOK` |
| `ClassNeverLowered` | `Spec => []ClassHolds` |
| `ValueDecides` | `Spec => []OnlyValueDecides` |
| `BetterQualityKeepsTheCall` | `Spec => []BetterQualityNeverHurts` |

The invariant `IInv` adds to `TypeOK` that the snapshot's class is the demand of the saved
submission and signals, and that every saved model is what the snapshot gives for the saved
request. The choice is a `CHOOSE`, so nothing follows from it until a best candidate
is known to exist: `AboveIsTotal` shows that the sort key is a total order, `BestExists` that
it has a greatest member in every finite set (induction over the cardinality), `ChoiceIsBest` puts
them together. `QualityIsProbability` goes through the cases of `resolve`.

The last two compare the choice with the one another request or another snapshot would give.
A request with fewer candidates leaves every preference alone (`PreferenceOfNode`), and a
greatest member stays greatest in a part of the set that still has it (`FewerCandidates`); without
rankings the scores are the same, and the best of the models has the highest of them
(`BestScores`). Better evidence never lowers the value of a quality, below the target or above it
(`QualityValueMonotone`), hence never the score of its model, and changes no other; a model that
cleared the floor still does.

`LifecycleProofs` proves for any number of runs, tasks, `close()` calls and queries, any
concurrency and any number of faults, under `LifecycleAssumption` (runs submit tasks, closers
and queries differ):

| theorem | statement |
|---|---|
| `TypeCorrect` | `Spec => []TypeOK` |
| `SlotsStayWhole` | `Spec => []SlotsConserved` |
| `StoreIsOpen` | `Spec => []StoreOutlivesUsers` |
| `CleanHandover` | `Spec => []HandoverClean` |
| `RowsAreKept` | `Spec => RowKept` |
| `TimeoutsAreHonest` | `Spec => CleanupTimeoutHonest` |

Its invariant says what each of these needs to be inductive: the registrations are the runs between
`Register` and `Unregister`, and a permit is out for each that works (`SlotsKnown`); whoever is inside
`close()` or a query holds the gate (`GateKnown`); a closer past its wait has no registration
beside it, and none can come, for `closing` is set (`Emptied`); a run that will write a status
owns the row, and a row that says running has an owner that will end it, was dropped or
failed to write (`RowsKnown`); a closer waits only where somebody is registered, is about to
notify, or has notified (`WaitKnown`).

`StreamProofs` proves for every set of frames and every way to cut them, every price, size of parts,
capacity and limit, under `StreamAssumption` (frames are what serde accepts, usage reports and prices
are naturals, `PartSize` and `Capacity` are not zero):

| theorem | statement |
|---|---|
| `TypeCorrect` | `Spec => []TypeOK` |
| `LastReportIsCharged` | `Spec => []ReceivedIsCharged` |
| `IncrementsAreInOrder` | `Spec => []IncrementsInOrder` |
| `AnswersAreWhole` | `Spec => []AnswerIsWhole` |

*The charge* (`IInv`): the evidence is the last valid report among the frames received, and the
accumulator's usage is none or the same. A malformed later report empties the accumulator
and not the evidence, which is why it does not matter which of the two a call is settled with, nor
where its future was dropped.

*The types* (`TInv`): with `TypeOK`, that the accumulator is an answer, that events on their way have
their size, and that there is something to send wherever the future waits for room.

*The increments* (`TextInv`): no part of `IncrementsInOrder` is inductive. What is: while the call
may still succeed and its reader stays, what was read, what is in the channel and what is still
to be sent are together what the frames have to show (`AllShown`); whatever happens later, the first
two stay a beginning of it. A reader that leaves takes the events on their way with it, and what
comes after no longer matters to it, so the second part needs its own witness. That `AllShown` is the
text of the answer where no frame has two contents is `ShownIsSaid`, frame by frame from `ChatSays`.

*The answer* (`WholeInv`): the same for what the frames say, read one after the other. For a chat, the arguments
at *every* index are what all fragments brought there, an index without a call included; for a
Responses stream every call has a last frame that named it (`LastIn`).

`TextIn`, `AllArgs` and the accumulator are computed by `FlattenSeq` and `FoldLeft` of the community modules,
which say nothing to a prover. The lemmas derive what is needed of them: that the recursive
function inside has a solution, that all solutions agree (again by induction over a set of
naturals), and from these the two steps the proofs use: one more element at the end
(`FlattenStep`, `FragmentsAdded`), one element taken from the front (`FlattenHead`). `FrameRead` then says in
terms of the frame what either endpoint makes of it.

`OwnershipProofs` proves for every set of engines, processes, files and names, whatever the files hold:

| theorem | statement |
|---|---|
| `TypeCorrect` | `Spec => []TypeOK` |
| `OneOwner` | `Spec => []SoleOwner` |
| `NothingLost` | `Spec => FilesKept` |

The invariant: an engine past `OpenLock` has the handle of its file's lock, the same for all engines
of that file (`LockKnown`), no two engines hold one handle (`OneHolder`), and what a thread knows of the file
still holds when it acts on it (`FileKnown`), because files only go from missing to empty and from
empty to ours, whoever changes them (`Grows`).

`FeedbackProofs` proves for any number of tasks, models, artifacts, feedback ids and evaluator
versions, whoever calls:

| theorem | statement |
|---|---|
| `TypeCorrect` | `Spec => []TypeOK` |
| `MetricsAreTheLedger` | `Spec => []MetricsBalance` |
| `CreditIsRight` | `Spec => []CreditedOnce` |
| `RecordsAreFinal` | `Spec => RecordsFinal` |
| `RevisionPinsQuality` | `Spec => RevisionIdentifiesQuality` |

Feedback is accepted only for a record whose task has ended. An ended status stays ended, routes
are only appended to, and a record is written only while its task runs, so what made a
judgement acceptable stays true of it (`Judgement`, the main part of `IInv`); the other part
(`Counted`) is that the pairs of artifact and kind are as many as the rows, which is what makes
`CreditedOnce` a statement about counting. `StepEffect` says what any call does to these tables: at
most a candidate or one judgement. `RevisionPinsQuality` follows because the revision is the
number of rows and rows are only appended.

`MetricsAreTheLedger` compares two ways to add up the same calls: by node and model, as
`metrics` does, and by task, as the ledger's columns do. Every action of the module is a call of
`Ledger` or leaves its columns alone (`CallsOfTheLedger`), so `LedgerProofs`, instantiated as `Book`,
gives that the columns are sums over the calls of their task. The rest is about sums over
finite sets, which the community modules define by choosing one member after the other: that the
choice does not matter (`SumRemove`), that a sum over a set is the sum over its groups of
the sums in each (`SumInGroups`), and that a sum over `1..n` is the ledger's `Total`. It is the reason
for one assumption, that `Tasks` is finite: a database has finitely many rows.

`TaskRunProofs` proves for any models, qualities, estimates and submissions, any number of rounds,
attempts, tool calls and failing store calls, with the host free to cancel, to let the deadline
pass, to reconcile or to drop the future at every await, under `TaskRunAssumption` (what the constants are: the
phases, budgets, amounts and costs are among the ledger's, there is at least one round):

| theorem | statement |
|---|---|
| `PlanIsFirst` | `Spec => []PlannedFirst` |
| `RecordIsFirst` | `Spec => []RecordedFirst` |
| `CompletionEarned` | `Spec => []CompletedIsEarned` |
| `CascadeIsClimbing` | `Spec => []CascadeClimbs` |
| `PaidOffTheList` | `Spec => []OffTheListIsPaid` |
| `AccountsAreClosed` | `Spec => []AccountsClosed` |
| `ConflictsAreTold` | `Spec => []ConflictIsTold` |
| `RunTypeCorrect` | `Spec => []TypeOK` |
| `RunIsALedger` | `Spec => L!Spec` |
| `RunKeepsItsBooks` | `Spec => [](L!TypeOK /\ L!ColumnsMatch /\ L!CallLimit /\ L!WithinBudget)` |
| `RunIsAnAccount` | `Spec => Book!ImplementsAccount /\ Book!EvidenceFinal /\ Book!BillIsFinal` |

None of the first four invariants is inductive: each relates what is saved to what was called, and
the step that breaks it comes several awaits after the one that made it possible. What joins
them is the place of the future. `IInv` says for each place what is durable there and what
the locals hold: the row is running between the first and the last write (`Linked`); the
current attempt is of the node the future waits for, and sent where it waits (`CallKnown`); the
effective plan is saved from execution on, and not by a planning that failed (`PlanKnown`); every candidate came back from a call (`Backed`); a
critic is reserved only for the last candidate, and nothing but critics were called since; a
verdict `pass` and a result `completed` have a candidate that passed behind them
(`RecordsKnown`); the floor of a cascade is above its last candidate while a better one is
looked for (`ClimbKnown`). Most steps only move on, and `ToEnding`, `ToPreparing` and `Arrives` say once
what such a step has to show; six change what providers brought back or the records, and are
proved one by one.

`RunIsALedger` connects the two halves of the project: `IInv` gives the values of the locals, and
so each call of the store is one that `Ledger` allows. What is proved of the ledger for arbitrary
callers hence holds of a run: `RunKeepsItsBooks` and `RunIsAnAccount` instantiate `LedgerProofs` (`Book`) and
bring its theorems over the refinement.

The accounts rest on a second invariant, `AInv`, proved on top of `IInv` and the books. It
says of every call of the run what its row says about what the provider did (`Billed`): a settled call
was settled with its bill or by the host, an unresolved one has no bill, and a closed one is pending
only where the ledger cannot hold what was reported. The call that is still open, from its
reservation until its settlement is asked for, is excused, and so is everything once the store
failed or the future was dropped: that is how far `OffTheListIsPaid`, `AccountsClosed` and `ConflictIsTold`
each follow. A call the step leaves alone keeps its account because the settled column only
grows (`BillKept`): what could not be held cannot be held later.

`SessionProofs` proves for any number of tools and of tasks that call `close()`:

| theorem | statement |
|---|---|
| `TypeCorrect` | `Spec => []TypeOK` |
| `ToldWhenCleanedUp` | `Spec => []CleanedUp` |
| `RequestsAreHeld` | `Spec => []RequestHeld` |
| `NothingAfterClose` | `Spec => [][Over]_vars` |

The parts of a run end in one order, the engine's task, the worker that serves its tools, the wait
for the outcome, and none begins again (`Staged`); `close()` succeeds when the run is over or none
can begin (`Closing`); a request is in the channel of a worker that will take it, or with the worker and
its sender in the table, or already given up (`Traced`). `Traced` is what makes the order inductive: a
worker may end only when nobody can be waiting for it. The last two theorems say what no
run's configuration lists: where a request is while the engine waits for it, and that a
successful `close()` is final.

Every invariant and every action property that a run checks is proved. Only model-checked are
the liveness properties under fairness, `RunReturns` and `ShutdownCompletes` (`Lifecycle`), `StopEnds` (`TaskRun`),
`ToolServed` and `SessionEnds` (`Session`), which are out of TLAPS's reach, as `ENABLED` is.

## 5. Not modelled, and the plan

Next, in this order:

1. **Routing** as the router of `TaskRun`: what `TaskRun` assumes of it is then a checked fact.
2. **A model call, abstractly**: what `TaskRun` takes a call to be (sent or not, answered or not, charged what was
   reported) as a specification of its own, and `Stream` shown to implement it, by TLC and then by proof.

Left out for good, because there is no state or order in them that could go wrong:

- `validate_plan`: it conjoins the host's and the planner's conditions and compares two
  choices, so that every property of it is one of its own lines. What becomes of a refused
  proposal is in `TaskRun`.
- Configuration, contracts and the ranking import: parsing and validation of values at the
  boundary, whose results are the constants and their assumptions.
- `evaluate()` of the strategies: string matching; its verdict is free in `TaskRun`.
- The `events` table, wording of events and errors, HTTP below the lines of a stream.
