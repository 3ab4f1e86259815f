# Grepify in TLA+

TLA+ modules of the incremental engine of Grepify (`rust/core`, with the Python
layer it is driven from), the TLC configurations that check them on small
instances and the theorems TLAPS proves about them. Paths below are relative to
`src/`; `execution.rs`, `component.rs`, `context.rs` and `function.rs` are in
`rust/core/src/engine`, `submit_session.rs`, `app_store.rs` and `storage.rs` in
`rust/core/src/state_store`, `db_schema.rs` in `rust/core/src/state`.

## 1. The system

A user's program is a tree of *processing components*. Running a component
(`process`) *declares target states*: rows, files, tables that are to exist in
external systems (*sinks*) with a given content. The engine compares what is
declared with what it tracked of earlier runs in an LMDB store, sends the sinks
the difference and records the outcome. Everything is incremental: calls and
components are memoized, targets move between components, components come and
go, runs fail in the middle, are cancelled, and the process may die at any
point. The promise is that after all of this the sinks hold exactly what a run
from nothing would put there.

### Components of the code

| part | state | operations | interacts with |
|---|---|---|---|
| **submit lifecycle** `execution.rs`, `submit_session.rs` | per run: declared targets, `curr_version`, queued actions, `pending_attempt`, commit plan | `submit`: claim, detect and back off, `pre_commit`, sink apply, `Committer::commit`, `cleanup_pending_token` | app store (three transactions), sinks, other components' records |
| **tracking record** `db_schema.rs` | `__track` row: version, items with `(version, state)` entries, `pending_process_token`; `__target` row: owner | reconcile, version bump, take-over reset, version retention, convergence | read and rewritten by submit, also of *other* components |
| **function memoization** `context.rs`, `function.rs`, `_internal/function.py` | memo rows on disk, `FnMemoCache` of the run (`Stored`/`Pending`/`Ready`) | prefetch, reserve, validate states, resolve, finalize, flush | decides which targets are *contained*; flushed by the commit |
| **component scheduler** `component.rs` | build semaphore, `last_memo_fp`, readiness counters, inflight permits, component memo row | `run`, `run_in_background`, `delete`, `execute_once` | parents wait for children; app cancellation drops runs |
| **child existence** `submit_session.rs`, `execution.rs` | `__cex` rows, tombstones | eager upsert, `reconcile_child_existence`, GC of tombstones, `cleanup_tombstone` | commit of the parent, delete runs of children |
| **live components** `live_component.rs`, `_internal/live_component.py` | per-subpath slots of pending operations, readiness, drain tasks | `update`, `delete`, `update_full`, `mark_ready`, cancel and drain | schedules runs and deletes of the scheduler |
| **storage and write batcher** `storage.rs`, `rust/utils/src/batching.rs` | pending batches, `ongoing_count`, map size | `run_txn`, inline or batched, resize and retry | every write transaction of the store |
| **id sequencer** `id_sequencer.rs` | local range, persisted next id | `next_id` | storage |
| **target providers** `target_state.rs` | provider registry, generations of container targets | register, fulfil, invalidate children | submit (containers and their rows) |
| **app, environment** `app.rs`, `environment.rs` | process token, cancellation token | update, drop | all of the above |
| **connectors** `python/grepify/connectors`, `rust/sdk/grepify/src` | tracking records per target; tables and their rows | `reconcile`, sink `apply` | called by submit |
| concurrency control, retries, statistics, inspection, bindings, text and code operations | | | around the engine |

### What is hard here

* Two components declare the same target, both with runs in flight
  (interleaving of pre_commits, the back-off on live tokens, its retry bound).
* The commit reads its record in one transaction and writes it in another.
* A run fails, is cancelled or dies between pre_commit and commit, with some of
  the sink's actions carried out: only the entries of the record tell later
  runs what the sink may hold.
* Versions: a taken-over item enters another version space; convergence resets it.
* A memo hit skips a call, and with it the declarations of its targets and of
  everything it calls.
* Deletion of a child in the background against its re-insertion; memo rows of a
  component written after its build permit is gone; superseded live operations;
  bodies of several components in one LMDB transaction without savepoints.
* Callers are cancelled while their batch is pending, running, being retried or
  abandoned; whoever ends a run has to start the next one.
* A parent waits for children that need the permits parents hold.
* A table and its rows are recorded in two records, changed by statements that are not
  part of any transaction of the store.

`PROJECT.json` lists these as hazards, each at the line where it bites, with the
properties that cover it.

### What makes each part correct

* Submit: nothing is lost sight of (the record covers the sink), one writer per
  target in the sink, a component that succeeded has what it declared in the
  sink, nobody deletes somebody else's target, and everything converges.
* Function memoization: reusing calls changes nothing about the outcome.
* Child existence: what is tracked lies below an existence bit or a tombstone, what no
  longer exists is eventually deleted, and what exists again is not.
* Scheduler: parents wait for their subtree, nobody waits for a permit for ever,
  a component memo is only valid while the sink holds what its run declared.
* Live components: the latest operation wins, every handle resolves, what is in the
  sink stays within reach of a later `update_full`.
* Storage: every caller gets its own outcome exactly once, and it is true.
* Ids: unique within an app, never issued twice.
* Containers: after an update the table is the declared one and holds the declared
  rows, and what the user manages is left alone.

## 2. The modules

| module | models | extends |
|---|---|---|
| `Tracking` | items of the tracking record and the arithmetic on them | |
| `TargetStates` | the submit lifecycle of several components over one store and sink | `Tracking` |
| `TargetStates_proof` | theorems about `TargetStates` | `TargetStates`, `TLAPS` |
| `FnMemo` | function memoization in the runs of one component, down to the sink | `Tracking` |
| `FnMemo_proof` | theorems about `FnMemo` | `FnMemo`, `TLAPS` |
| `ComponentTree` | builds, memos, existence, tombstones and deletes of a tree of components | |
| `ComponentTree_proof` | theorems about `ComponentTree` | `ComponentTree`, `TLAPS` |
| `Inflight` | permits, build semaphores and readiness of nested mounts: who waits for whom | |
| `Inflight_proof` | theorems about `Inflight` | `Inflight`, `FiniteSetTheorems`, `TLAPS` |
| `LiveComponent` | `update_full`, `update` and `delete` of a live component, their drain tasks and what they leave | |
| `LiveComponent_proof` | theorems about `LiveComponent` | `LiveComponent`, `FiniteSetTheorems`, `TLAPS` |
| `Batcher` | calls joined into batches, cancelled anywhere | |
| `GroupCommit` | what `run_txn` promises its callers | |
| `Storage` | write transactions, resizes and readers under `Batcher`; implements `GroupCommit` | `Batcher`; `GroupCommit` as instance |
| `Storage_proof` | theorems about `Batcher` and `Storage` | `Storage`, `FiniteSetTheorems`, `SequenceTheorems`, `WellFoundedInduction`, `TLAPS` |
| `IdSequencer` | ids reserved in ranges, memoized by calls | |
| `IdSequencer_proof` | theorems about `IdSequencer` | `IdSequencer`, `TLAPS` |
| `Tables` | a SQL table and its rows: provider generations, the state diff, the statements | `Tracking` as instance |
| `Tables_proof` | theorems about `Tables` | `Tables`, `TLAPS` |
| `MC...` | instances of these for TLC | |

`Tracking` is shared by the three modules that follow a record down to the sink
(`TargetStates`, `FnMemo`, `Tables`). `ComponentTree`, `Inflight` and `LiveComponent` look at
the runs of components from three sides: what they leave behind, what they wait for, and who
asks for them. `Storage` is under all of them: where they take a transaction as one
step, it shows that callers may.

### Tracking

An item is a *set* of `<<version, state, repeated>>` entries: the vector `states` of
`TargetStateInfoItem`, whose order nothing depends on. `repeated` says whether the
vector holds the entry more than once, which a bump of two entries of one
content brings about; with it `is_pending`, which counts entries, is exact. `Absent`
is a `Deleted` entry, a target nobody declares and an empty place of the sink,
which the code keeps apart by type and never confuses. `ReconcileActs` is the
`reconcile` of the connectors (the row handler of Postgres stands for them),
`Reconciled`, `Retained` and `Pruned` are what `pre_commit` and
`build_commit_writes` do to one item.

### TargetStates

State: `version`, `items`, `token` are the fields of `__track` per component,
`owner` is `__target`, `sink` the external system, `process` the process token
(a counter instead of a UUID), `run` the run of each component with `pc` for
where `submit` stands. `assigned` and `content` stand for the user's sources:
which component is to declare which target with what. `synced` remembers which
components' last run committed what the sources want now.

| action | code |
|---|---|
| `StartBuild`, `StartDelete` | `execute_once` after the build permit is taken; `process` has declared its targets |
| `PrecommitRetry` | detection sub-pass found a live token: no writes, sleep, at most `MAX_PENDING_RETRIES` |
| `Precommit` | the whole precommit transaction: claims, take-over from the old owner's record, reconcile (Phases 1 and 2), token |
| `ApplyAction`, `SinkFails` | `sink.apply`, one action at a time, failing anywhere |
| `CommitRead`, `CommitWrite`, `CommitFails` | `build_commit_writes` on its own read; the commit transaction |
| `CleanupToken` | `cleanup_pending_token`, which retries until it succeeds |
| `Cancel`, `Crash` | the `select!` against the app's cancellation token; death and restart with a new token |
| `ChangeWanted` | the user's sources |

Runs of one component do not overlap (build semaphore); runs of different
components interleave at every transaction and every single sink action.
`OverlappingRuns` tells whether a target may move to another component while a
run that declares it is still in flight.

### FnMemo

A component calls a memoized function for each file, keyed by path with content
as memo state; each such call declares
the file's target and calls another memoized function per chunk, which two
files may share. `run.cache` is `FnMemoCache`: `"stored"`, `"hit"` (`Ready` with
`already_stored`), `"fresh"` (`Ready` without). `Pending` entries without a row nothing behind and are not kept. `application` tells kinds of programs apart: whether their
memo states hold modification times, and whether they catch the exception of a memoized call.

| action | code |
|---|---|
| `StartRun` | `prefetch_states`, none under `full_reprocess` |
| `ReuseCall` | `reserve_memoization`, states valid, `update_memo_states` when they changed |
| `ExecuteCall` | miss or invalid states: the call, its chunk calls, `resolve`, `join_child` |
| `FailCall`, `CallRaises` | the call raises and the application catches it, or the run fails |
| `Precommit` | `finalize_fn_call_memoization` and `pre_commit` |
| `ApplyAction` | the sink |
| `Commit` | version retention and `into_flush_plan`, in one transaction |
| `RunFails` | failure, cancellation or death anywhere |

There is one component and one run at a time, so the back-off and the tokens of
`TargetStates` have nothing to do here and are left out.

### ComponentTree

The level above the other two: what a component has in the sink is one value, and
`submit` is the four places where it touches the tree (sink, commit with
`reconcile_child_existence`, listing of tombstones, awaiting of deletes). `wanted` is what the
root is to mount; the content of a component says what it mounts in turn (`Mounts`).
`exists` are the `__cex` rows, `tombstones` the tombstone rows, `memo` the component-memo
rows; `build` and `deletes` are the runs, with the permit of `build_semaphore` read off
their `pc`s (`Held`).

| action | code |
|---|---|
| `StartUpdate` | `App::update` |
| `Hit`, `Miss`, `RestoreFails` | `use_or_invalidate_component_memoization`, before the permit |
| `Process` | permit, `eager_existence_upsert`, `process`, which mounts the children |
| `Apply`, `Commit`, `Collect`, `Release` | `submit` after the children are ready; the commit and `launch_child_component_gc` |
| `Finish` | `post_submit_for_build`, after the permit |
| `StartDelete`, `Preflight`, `Remove`, `CommitDelete`, `CollectBelow`, `ReleaseDelete`, `Cleanup` | `Component::delete` down to `cleanup_tombstone` |
| `BuildFails`, `DeleteFails` | any failing step; a delete's error is logged and its handle resolves with Ok |
| `Cancel`, `Crash` | the builds are dropped, the deletes go on; everything is dropped |

Three variables record history: `synced` (the last update succeeded with the sources as they
are), `outlived` (components of which a delete was in flight when its update was cancelled)
and `bypassed` (components that ran past a memo row without deleting it, because of
`full_reprocess`, invalid memo states or a failed transaction, and have not completed
since). The properties exempt the last two: TLC finds each of them violated when
the exemption is taken away. Section 5 says what the code does there.

### Inflight

A run is a component in one update. `pc` and `result` say where it stands and what it reports
upward; `free` and `permit` are `inflight_semaphore` and the permits in the contexts of
runs, `sem` the build semaphores, `remaining`, `built`, `exception` and `ready` the fields of
`ComponentBgChildReadiness`, `token`, `tokenOf` and `cancelled` the app's cancellation tokens.

| action | code |
|---|---|
| `StartUpdate`, `DropUpdate` | `App::update`, with the token reset; its `select!` against cancellation |
| `Acquire` | `run`, `run_in_background`: the permit, `add_child`, `spawn` |
| `MemoHit`, `MemoMiss`, `Enter` | `execute_once` up to the permit of `build_semaphore` |
| `Mount` | the process mounts a child: `release_inflight_permit` of the parent, then the child's turn |
| `Process`, `ProcessFails` | `process` returns or raises, `set_build_done` |
| `ChildrenReady`, `Submit`, `SubmitFails` | the wait for readiness; `submit` and `post_submit_for_build` |
| `End`, `CancelRun`, `Panic` | the three ways a task ends, with the guard resolved or dropped |
| `Cancel` | `cancel_all` |

### LiveComponent

`pc`, `path`, `want` and `number` describe the calls a live component makes of `update` and `delete`;
`entry` is the map of `PendingState` (is there a drain task, what is queued, is an operation
processed), `fullPc` and `active` are `update_full` and its flag, `run` is the build or delete of a child,
`exists`, `tombstones`, `memo` and `sink` are what it writes. `latest` and `raced` record history: the call
whose effect is to be seen, and the children whose tombstone was taken by the clean-up of another delete.
A call ends as `"executed"` when its run succeeded. When the run failed, its handle resolves with the error (`"failed"`) or,
with no handler or one that swallows it, like that of a run that succeeded (`"swallowed"`): the code reports the latter as
`Executed(Ok)` too, the model keeps the two apart, and the properties that speak of executed calls mean runs that did succeed.

| action | code |
|---|---|
| `Update`, `Delete` | the call, up to the check of the token in `dispatch` |
| `RemoveChild`, `DropCall` | the transaction of `delete`; `process_live` is dropped while it runs |
| `Dispatch` | the locked part of `dispatch`: supersede, queue, spawn a drain task |
| `DrainTakes`, `DrainReports`, `DrainExits`, `DrainCancelled` | `drain_task_body` |
| `Check`, `Upsert`, `Apply`, `Memoize` | the child's build: memo, existence row, submit, memo |
| `DeleteMemo`, `Preflight`, `Remove`, `Cleanup` | the child's delete |
| `RunFails` | any of these fails |
| `StartFull`, `ProcessFull`, `CommitFull`, `CollectFull`, `FinishFull`, `FullFails` | `update_full` and its build |
| `Cancel` | `cancel_and_drain`, with `process_live` and `update_full` dropped |

### Batcher, GroupCommit, Storage

`Batcher` is `batching.rs` for any runner: `ongoing` is `ongoing_count`, `pending` the `LinkedHashMap` of
batches, `batch` what runs, named by the first of its calls, `guards` the living `BatchKickOffNext`s.

| action | code |
|---|---|
| `CallInline`, `CallQueued` | `Batcher::run` under the lock: idle queue, or join (and flush a full batch) |
| `Answer` (`Finish`) | the outcome of a run goes to its callers |
| `Release` | drop of `BatchKickOffNext`: the oldest batch of a living batcher starts, batches of dropped ones go |
| `Cancel`, `Abandon` | a caller goes away; the run is dropped when all have |
| `DropBatcher` | the last handle of a batcher goes |

`Storage` replaces `Finish` by the steps of `TxnRunner`: `TakeGuard`, `OpenTxn`, `Body`, `Commit`,
`Fail`, `Resize` (`resize_on_map_full` waits for every guard and doubles the map), `AbandonTxn`, with readers
(`StartReading`, `EndReading`) beside it, and `Crash`. A body writes one row, so `log`, the order of committed
bodies, is all there is of the store. `GroupCommit` is the comment of `run_txn` as a specification: calls
ask, groups of bodies take effect entirely or not at all, callers leave. `KeepsPromise` says
that `Storage` implements it with `answer` read off `pc`. A storage has one batcher, with the default
options (`storage.rs:271`), so `StorageAssumption` says that all calls have the same batcher and that it flushes
nothing early.

### IdSequencer

`next` is the counter in the store, `seq` the buffers, `lock` their mutexes, `id` the ids in the memo rows
of calls, `used` the ids handed out in this life of the app, `left` transactions whose caller
is gone. Actions: `Lock`, `Refill`, `Reserve`, `TakeBuffered`, `TakeReserved` (the parts of `next_id`),
`GiveUp` and `ReserveForNobody` (failed or cancelled refills), `Forget`, `Crash`, `DropApp`.

### Tables

A table, declared by one component, with rows declared by another (`mount_table_target` of
`rust/sdk/grepify/src/sqlite.rs`). `table` is the table in the database (key, columns, rows with the columns that
hold a value), `titem` and `ritems` are the items of the two tracking records, `gen` is the provider generation
in the table's item and `lastId` the counter of provider ids. `Diff`, `MainAction` and `ColAction` are
`statediff.rs`, `ColActions` and `Invalidation` `TableHandler::reconcile`.

| action | code |
|---|---|
| `StartUpdate` | an update, with or without `full_reprocess` |
| `TablePrecommit` | `pre_commit` of the table: reconcile, new provider generation, entry of the record |
| `DropTable`, `CreateTable`, `AlterColumn` | `apply_table_action`, statement by statement |
| `AlterSkipped` | `run_best_effort`: an ALTER TABLE fails, for whatever reason, and the run goes on |
| `TableCommit` | the table's commit |
| `RowsPrecommit`, `ApplyRows`, `RowsRefused`, `RowsCommit` | the rows' run; the database refuses rows that do not fit its table |
| `DropPrecommit`, `DropCommit`, `RowsDelete`, `EndDrop` | the Delete runs of both components, when the table is no longer declared |
| `Interrupt` | a statement other than ALTER TABLE, or a commit, fails; cancellation; the end of the process |
| `Change`, `UserProvides` | the program declares something else; the user creates a table of theirs |

A spec of the table has a key and columns with their types (`Keys`, `Columns`, `Types`).
`leftAlone`, `unaltered`, `forgotten` and `stranded` record what the properties except: tables the connector found
there, or that no record leads to when the table is no longer declared, and left as they were; columns an ALTER TABLE
failed for, until one of them takes effect; rows of the table no run
will look for any more; and rows whose record outlived the table or the table's record, until a run that did not just bump
their items has committed (section 6). No action reads them.

## 3. What the runs check

| run | instance | shows |
|---|---|---|
| `submit_lifecycle` | 2 components, 2 targets, 2 contents, 3 changes, 1 interruption | `TypeOK`, `TrackingCoversSink`, `TrackedByOwner`, `OneSinkWriter`, `CommitPlanIsFresh`, `SyncedTargetsAreInSink`, `SettledItemsAgree` |
| `submit_converges` | the same without cancellation, 2 changes, 1 interruption | `LiveTokenHasRun`, `SinkConverges` |
| `memo_lifecycle` | 2 files sharing 2 chunks, 3 changes, 2 faults, two kinds of applications | `SinkMatchesUnlessCarried`, `TrackingCoversSinkUnlessCarried`, `MemosAreBacked`, `MemosAreExact` |
| `tree_lifecycle` | a component with two children under the root, 2 contents, 3 changes, 1 fault, 1 cancelled update | `ChildrenAccounted`, `MemosMatchSubtree`, `WantedIsInSink`, `ExistingAreSpared`, `TreeConverges` |
| `inflight_lifecycle` | two updates of a chain of three components, 1 permit, 1 failing step, 1 panic, cancellation | `Accounted`, `SubmitsAfterChildren`, `SuccessCoversSubtree`, `UpdatesEnd` |
| `live_lifecycle` | 3 calls for one child, 1 `update_full`, 1 failing run, cancellation | `OpsWaitForFull`, `HandlesAreServed`, `ChildrenReachable`, `LatestUpdateTakesEffect`, `DrainedStaysQuiet`, `HandlesResolve` |
| `batcher_lifecycle` | 3 calls of a batcher with maximum size 2 and 1 of another on the same queue | `QueueAccounted`, `StartsInOrder`, `EveryCallIsAnswered` |
| `storage_lifecycle` | 3 transactions, a map of 1 page, 1 reader, 2 faults | `TransactionsAccounted`, `CommitsInOrder`, `KeepsPromise`, `EveryCallIsAnswered` |
| `ids_lifecycle` | 3 calls of one key, ranges of 2 then 4, 2 faults | `IdsAreUnique`, `NeverReissued` |
| `tables_lifecycle` | 5 table specs over 2 columns, 2 rows, 3 changes, 2 interruptions or swallowed failures, with `full_reprocess` | `SettledTableMatches`, `SettledRowsMatch`, `UserTableIsLeftAlone` |
| `memo_touched`, `live_delete_lost` | see section 6 | disagreements of the code with its own statements |

**Bounds.** The conflicts in `submit` are between two components over a target;
the second target lets one component take over from and be taken over by the
other at once, and lets one item of a record be pending while another is not.
A change gives a target an owner or a content, so three changes suffice for a
target to be created, moved and moved back or dropped, each with a failed run in
between. `MaxPendingRetries` is 8 in the code and 2 here: a retry changes nothing
but the counter. In `FnMemo` three contents have one, two and no chunks, so that
a chunk is shared, gained and lost; three changes let a file go to another content and back
and its neighbour change in between, two faults let a run fail on the way there and on the
way back. In `ComponentTree` one content mounts both
children and the other only one, so that a child is dropped while its sibling stays; three
changes mount a component, take it away and mount it again; two delete runs of a component are
in flight when the first outlived a cancelled update, and one cancellation cannot bring
about more. Larger instances (4 changes, 2 or 3 faults, 2 cancellations without the
second child; 4 changes with it) were checked while the module was written.
In `Inflight` one permit is the hardest case for the wait of children, the chain has a component that
is both parent and child, and two updates share permits, semaphores and tokens. In `LiveComponent` the
children do not interact but through `update_full`, so one suffices; three calls are one that runs, one that is
queued and one that supersedes it. In `Batcher` four calls make one inline run, a full batch that is flushed early
and a batch of another batcher behind or before it; three suffice in `Storage`, where the map of one page makes any
second row resize it. Two ranges of `IdSequencer` are exhausted before the bound on the counter, 10, ends a behaviour.
In `Tables` the specs differ from the first one by a column, a column's type, the key and who manages it; three changes
go there and back or drop and declare again, and two interruptions leave up to three records of one table.
Contents, targets and components are interchangeable in the safety run of
`TargetStates`, calls in that of `IdSequencer` and rows in that of `Tables`, which use that symmetry; the other
runs use none. All runs switch deadlock checking off: when the
bounds on changes and faults are used up and everything is synced, a behaviour
may rightly stop.

**Fairness.** `tree_lifecycle` assumes weak fairness of every step of a run in flight but
none of its failures, and that the app is updated again and again, synced or not: an orphan
whose delete failed is only retried by a later update. Weak fairness of the permit is enough,
as a component's runs wait for one another only finitely often between two updates.
`submit_converges` assumes weak fairness of the
steps of every run in flight (tokio polls every task that is ready, a sink call
and a transaction return; `cleanup_pending_token` retries until it succeeds) and of
starting a run of a component that is not up to date (the user runs the app
again, or a live source does). `inflight_lifecycle`, `live_lifecycle`, `batcher_lifecycle` and
`storage_lifecycle` assume weak fairness of the steps of every task per run, call, subpath or batch (tokio
polls a task that is ready, its semaphores and locks are FIFO), of the runner's return, of the delivery of an abort, and in
`Storage` that readers end by themselves; none of mounting, calling, failing or cancelling.
Faults are never fair and are bounded.

## 4. What is proved

`TargetStates_proof` proves, for any sets of components, targets and contents and
any bounds:

* `TypeCorrect`: `TypeOK`, without further assumptions.
* `LiveTokens`: without cancellation, a token of the running process belongs to a
  run in flight. The invariant adds that no token is of a future process.
* `Invariant` and its consequences `TrackingCovers`, `OwnersTrack`,
  `SinkActionsExclusive`, `CommitsAreFresh`, `SyncedIsInSink`, `SettledAgree`,
  all under `~OverlappingRuns`. With overlapping runs `CommitPlanIsFresh` is false
  (section 6), so the assumption is needed.

None of the properties is inductive alone. That the record covers the sink after
a step of the sink needs what the run in flight declared to be the newest entry
of its item; that the commit may forget all other entries needs the sink's action
on that item to be done; that nobody else changed the record in between needs
ownership; that ownership survives a take-over needs that the old owner has no
run declaring the target. `IInv` collects this:

* `DeclaresAssigned`: runs declare only what is still assigned to their component;
* `VersionsBound`: no entry has a version still to come;
* `RunRecorded`: between pre_commit and commit every item holds the run's own entry
  as the only one of its version, what is not queued is done, a target being deleted
  keeps its item pending under a live token (which makes others back off), and the
  commit's plan is what it would be now;
* `TracksWanted`: a component that is up to date tracks exactly what is wanted of it,
  with one entry each;
* `TrackedByOwner`, `TrackingCoversSink` and `TypeOK`.

One lemma per action shows that it preserves `IInv` (`PrecommitInv` and `CommitInv`
carry the weight); lemmas on `Bump`, `Reconciled` and `Retained` say what one item
becomes. The assumptions on constants are those named in the modules.

`IdSequencer_proof` proves, for any calls, keys, batch sizes and bounds: `TypeCorrect`, `Unique` (`IdsAreUnique`),
`RangesFresh` and `Reissued` (`NeverReissued`), the last three under `~AppIsKept` (section 6). The inductive
invariant says that whoever is between the check and the take of a sequencer holds its mutex, that what a
transaction reserved or a buffer still holds lies below the counter, was never handed out and overlaps no other such range,
and that ids in memo rows were handed out.

`Inflight_proof` proves, for any tree of components, any updates (overlapping ones too), permits, faults and
panics: `TypeCorrect`, `PermitsAndGuards` (`Accounted`), `SubmitsLast` (`SubmitsAfterChildren`) and `SuccessIsTrue`
(`SuccessCoversSubtree`). Its invariant has three parts. `Counting`: free permits and held ones make up the quota, and
`remaining` is the number of children whose guard is unresolved. `Staging`: a mount waits for its permit only while the process
that made it runs, before that nothing below a run was mounted, `built` comes after it, and readiness that was not lost
means that no guard is left. `Reporting`: a result is known once a run leaves, and an exception of a run that
ended is in its parent's merged outcome or has broken the parent's readiness. The last is what makes success true: a parent
that submits with readiness `"ok"` has no exception below it, and nobody below is still to end.

`Tables_proof` proves, for any specs, keys, columns, types, rows and any number of changes and interruptions:
`TableMatches` (`SettledTableMatches`), `UserTableStands` (`UserTableIsLeftAlone`) and `RowsMatch` (`SettledRowsMatch`). An interrupted change of a table
leaves several states in its record, so the invariant cannot say what the table is. It says what the records together tell
(`RecordTells`): where they agree on the key and none of them says the table is missing, the table is there, and every column is
as one of them says, or has a type they differ about, in which case the next diff alters it, or is one an ALTER TABLE failed
for (`unaltered`): the connector swallows such a failure, and then the record does not tell what the table is.
`StatementsLead` says that the statements still to run take the table from there to what is declared, `CommittedIsDeclared`
that a commit leaves the declared spec alone in the record, `DropsLead` the same for the drop. With `SettledInv` the property follows.
The proof shows where the limits of the instance hid a case: a table of the user's that nothing was ever recorded of and that is
no longer declared stays, which is right, so `leftAlone` covers it.

The rows have a record of their own, and what ties it to the table is the provider generation. `RInv` says what it is worth
at any point of a run. `ItemsTell`: an item of the present provider id and schema version whose entries agree tells
what the row holds, unless it is stranded; one of an earlier version or with entries that differ tells nothing, and makes the next
run write the row. `LossIsMarked`: `TablePrecommit` moves the generation before a statement takes anything from the rows, so no item
that tells too much survives a run that stops between two statements. `RowsTracked`: a row of the table has an item under the
present provider id, or the records differ in the key, so that any run of the system's drops the table. `RowsLead`: between
pre_commit and commit of the rows' run, a row it no longer has to write is as declared. `Reconciles` and `CommittedIs` are what
`Tracking` contributes: pre_commit adds no certainty, and a commit leaves what was desired. The attempt to prove it, and TLC with
more changes and interruptions than the run allows, found rows the exceptions did not cover yet (findings 12 and 13); the
bookkeeping in `Tables`, and only that, was extended for them.

`LiveComponent_proof` proves, for any subpaths, contents, calls, full updates and failures: `TypeCorrect`, `FullIsAlone`
(`OpsWaitForFull`), `CallsAreServed` (`HandlesAreServed`), `SinkIsReachable` (`ChildrenReachable`), `LatestUpdates`
(`LatestUpdateTakesEffect`) and `StaysQuiet` (`DrainedStaysQuiet`). `Numbered` and `Placed` say where a call is: calls of a subpath
are numbered in the order of their invocation, its entry holds the one that is queued and its run the one it is for, which is the
older. That makes a superseded call one with a successor, and the latest one the last to run (`LatestIsLast`).
`FullWaits` says that drain tasks see `update_full` coming, even after its future was dropped. `RunsReachable` is about what a run is
going to do to a tombstone or the sink, `MemoTells` and `BuildTakesEffect` are why a memo hit is as good as a build.
`DrainedStaysQuiet` follows from a part of the state that never changes back: cancelled with nothing processed.

`ComponentTree_proof` proves, for any tree of two levels, any contents, slots, changes, faults and cancellations:
`TypeCorrect`, `SinkIsAccounted` (`ChildrenAccounted`), `ExistingStay` (`ExistingAreSpared`), `MemosMatch`
(`MemosMatchSubtree`) and `WantedStays` (`WantedIsInSink`). That a clean-up may take a tombstone,
or a delete the target states, depends on who else is at work: `Permits` (the permit of `build_semaphore` has one holder), `Nested`
(below the root a component only runs inside its parent's `process`) and `Awaited` (a delete that did not outlive its update is awaited by a run of
the parent). Together they say that while such a delete is in flight no build of the same component runs and nobody is at a
point where its existence row changes (`Alone`). `RunsAccounted` then says what each delete may rely on from its preflight on.
A memo speaks of a whole subtree, while the builds below it come and go. `MemoInv` adds to the invariant what keeps it true:
`Effects` says what a build or a delete has done to the sink and the memo up to where it is; `Holding` that a memo on disk, and a build
of this update that is done, stands for what its subtree has in the sink (memos a run passed by without deleting them and deletes that outlived their update excepted);
`Wanting` that what the root asked for is declared by the time the root goes on. Lemmas on what
each step leaves alone (`SinkChanges`, `MemoChanges`, `ExistsChanges`, ...) reduce each conjunct to the few steps that touch it.

`FnMemo_proof` proves, for any files, chunks, contents, applications and bounds: `TypeCorrect`, `CoversSink`
(`TrackingCoversSinkUnlessCarried`), `Backed` (`MemosAreBacked`), `Exact` (`MemosAreExact`) and `Matches`
(`SinkMatchesUnlessCarried`). `Structured` says that a row the run took over unexecuted is still the one on disk and that a memo
names its own target and those of its dependencies. `Progress` ties the entries in use to the files a run has called, as long as no call
failed; `Executions` says that what an executed call declared and depends on is in the run. So the dependency walk of pre_commit puts
everything the files ask for in use and nothing else (`WalkIs`, `PrecommitGoal`), whether a call was executed, answered or only
reached through another one's row. `UseIsBacked` carries that from pre_commit to commit: version retention will leave an item
for every target of an entry in use, holding the content the memo stands for. `Outcome` is the same for the sink. `ContentTracked`,
which a passed-on item rests on, says that the record still knows the content a row on disk stands for; a caught exception breaks it
(section 6), so `Matches` assumes there is none.

`Storage_proof` proves, for any calls, batchers, sizes of batches and cancellations: `BatcherTypeCorrect`, `NothingIsLost`
(`QueueAccounted`) and `StartOrder` (`StartsInOrder`) of `Batcher`, and for any faults, crashes, readers and size of the map
`StorageTypeCorrect`, `Transactions` (`TransactionsAccounted`), `CommitOrder` (`CommitsInOrder`) and `StorageKeepsPromise`
(`KeepsPromise`: every step of `Storage` is one of `GroupCommit` or leaves its variables alone). The invariant of the queue,
`BInv`, is kept by every action of both. `Numbered`: calls are numbered as they come. `Formed`: a batcher has one pending batch,
batches hold calls of their batcher in the order they came, and the first call of a run leads it. `Apart`: no call is in two places,
and who leads a run does not pend. `Led`: an inline call has its guard, and a run without a guard is that of an inline caller
who went away. So a batch that is flushed or kicked off never replaces one that runs, and what a kick-off skips
has no caller: a batch with one belongs to a living batcher, hence can be started. What `Storage` adds is `LogTells`: the calls in the
log are done with, and one that was answered asked before everybody who still waits. At a commit this holds because only
one guard is left with the default options, so all other callers pend, and what pends came after what runs.
The lemmas on `SubSeq` and `CHOOSE` (`Removed`, `Rest`, `Appended`, `Least`) are what the library lacks; the least index that can be
started exists by well-foundedness of the naturals.

Only model-checked: liveness (`SinkConverges`, `TreeConverges`, `UpdatesEnd`, `EveryCallIsAnswered`, `HandlesResolve`; outside
of the prover's reach). Every safety invariant, action property and refinement of a passing run is proved.

## 5. Abstractions and what is not modelled

* One write transaction is one step everywhere but in `Storage`. LMDB serializes them; that bodies
  of several components share one is what `Storage` and `GroupCommit` are about: a
  caller that stays learns the truth, and two that stay commit in the order they asked
  (`CommitsInOrder`). Of a caller that was cancelled nothing is promised: its body may still commit, and an
  inline one even after bodies of later callers. The other modules let it commit before the cancellation or not
  at all.
* Targets are top-level in `TargetStates` and `FnMemo`. Containers, with one level of children, are in
  `Tables`, where a commit is one step, tombstones are left out (`ComponentTree`) and the rows
  are declared by one component. Virtual tables, the table's name, NOT NULL and vector indexes are left out. The user creates a table of
  theirs, and leaves tables otherwise alone. Any ALTER TABLE may fail and be swallowed, as often as
  `MaxInterruptions` lets faults happen; `SettledTableMatches` excepts the columns concerned, and no others
  (finding 14).
* Component identities are fixed in `TargetStates`; a delete run starts whenever its
  component is to declare nothing. Existence rows, tombstones and the preflight of
  delete runs are in `ComponentTree`, without directory nodes (every path lies directly below
  its parent's) and with an `on_error` that swallows, as in an update without handlers.
* `ComponentTree` takes what the root mounts as read at once when it runs, leaves out
  `last_memo_fp` (two builds of one component do not overlap in an update), the
  refresh of memo states on a hit and components without memo key.
* Exempted in `ComponentTree`, and real: a delete that goes on after its update was
  cancelled reads the existence row while a later update's build is a memo hit that writes none
  before the commit of its parent, and empties the sink of a component that exists; or it
  clears the tombstone a later update has written for the same child, which nobody deletes
  then (the TODO at `db_schema.rs:435` foresees it for incremental reinsertion). And a memo
  that a run passed by stays valid for its old content when that run changes the sink
  and then fails: going back to the old content hits it. `full_reprocess` is documented to
  "invalidate existing caches" (`app.rs:16`), the row stays until the build completes.
* Exempted in `LiveComponent`, and real: a delete of a child is about to clean up its tombstone
  when the next delete of that child writes one; the clean-up takes it, and when that delete then fails nothing
  leads to the child's target states (`raced`). A comment says the tombstone "always remains in the DB"
  (`live_component.rs:623`).
* `LiveComponent` has one level: its children are not live themselves. The readiness of `process_live`, the
  committed state of the component and an `update_full` that its own caller drops (a timeout) while the component
  lives are left out.
* `Inflight` leaves out what runs write and deletes, which take no permit.
* In `Batcher` a runner that panics, or returns too few outputs, is one that fails. In `Storage` a body is
  one row of one page, and the migration of legacy files and the retries of read transactions are left out.
  `EveryCallIsAnswered` there takes for granted that readers end by themselves.
* The preview mode writes nothing and is left out. User states are flushed like memo rows
  and are left out of `FnMemo`, as are logic fingerprints and context states, which
  only turn hits into misses.
* A call raises after it declared its own target and before it calls for its chunks.
* Dropping an app: its store goes in one step (`IdSequencer`); the delete run of its root and the drain of
  its live components are not composed with it.
* Encodings, statistics, logging, inspection, rate limits and retries of calls to services, language bindings, the
  text and code operations, the sources and all connectors but the SQLite tables and the rows of Postgres are not
  modelled; `PROJECT.json` lists every part with its status. Most of the repository's lines are there: the engine,
  which decides what happens in which order, is the small part of it that the modules are about.

## 6. Findings

Disagreements between the code and what its comments, documents and tests say. Two have a run
whose counterexample shows it:

1. `memo_touched`: a hit whose memo state changed is marked as not stored and is then
   taken for an executed call: its targets are neither declared nor contained and
   are deleted from the sink.
2. `live_delete_lost`: a delete of a live component's child removes the existence row before it is dispatched.
   An update of the child that is still running writes it again, and the delete, run after it, spares the child
   and reports success, although the later of two calls is to take effect.

The others were met on the way. TLC shows them with the property and the constants named; the modules
keep both.

3. `TargetStates`, `SinkConverges`, `Cancellation = TRUE`: cancelling drops `submit` without its clean-up, so the token of a
   process that goes on stays ("Without this, the token the precommit wrote would deadlock any future pre_commit",
   `execution.rs:1698`); two components that are to swap unsettled targets back off from each other until
   the process restarts (`component.rs:749`).
4. `TargetStates`, `CommitPlanIsFresh`, `OverlappingRuns = TRUE`: a commit writes back a record that another component's
   pre_commit changed after the commit had read it, although a comment rules out any such
   writer (`execution.rs:396`). The item taken over reappears at the old owner.
5. `TargetStates`, `TransferSurvives`, `OverlappingRuns = TRUE`: the new owner commits first; the old owner's run, in flight since
   before the move, takes the target back; the old owner's next run deletes it from
   the sink. A test says the target survives in every order of submission.
6. `FnMemo`, `SinkMatches`, faults and no modification times: a hit passes an unsettled item on without reconciling it, so a
   sink that a failed run changed stays changed while the record says otherwise.
7. `FnMemo`, `SinkMatchesUnlessCarried`, caught exceptions: the old row survives a call that raised after it declared its
   target; going back to the old content hits the row and the sink keeps the
   content of the failed call.
8. `ComponentTree`, `OrphansReachable`: a component is taken away together with its child and the delete of the
   child fails. A comment says that the parent's tombstone is then kept; but the outcome it
   looks at was taken before the child's delete was started. The child's tombstone survives
   under a path nobody lists, and its target states stay.
9. `Inflight`, `UpdatesEnd`, `Overlap = TRUE`, `Quota = 1`: two updates at once with one permit. A run that waits for the
   build semaphore of a component holds the permit that the children of the run inside need; a comment says that
   giving up the parent's permit prevents deadlock (`component.rs:652`).
10. `IdSequencer`, `IdsAreUnique`, `AppIsKept = TRUE`: an `App` that is updated again after its `drop` goes on with its buffers while
    the counter starts at 1: ids are issued twice (`id_sequencer.rs:4`).
11. `Tables`, `TableIsAltered`, no interruptions: under `full_reprocess` (or after a first creation that did not commit)
    a table with a changed column is only created if it does not exist. The record says the new columns are there;
    no later run adds them, and rows are refused. The guide says the target is altered in place, and
    that a full reprocess re-applies all target states (`programming_guide/target_state.mdx:142`, `app.mdx:65`).
12. `Tables`, the rows in `stranded`: the table's Delete run is through and the process dies before that of the rows. The table
    declared anew has the default provider id, the one the rows' record has: its rows are taken to be there and are not written.
    The same when the Delete run spares the table (the user's) and only its record goes: generations start over, and the schema
    version in a row's item, compared for equality alone, may come to agree with one of the new record.
13. `Tables`, the rows in `forgotten`: the Delete run of the rows finds no provider and drops their record without
    deleting them. When the drop of the table fails and the table is declared again, or is handed to the user, the rows stay.
    So do rows of an earlier generation in a table that is handed to the user before their run is through: the record of
    the table forgets that it was to be dropped.
14. `Tables`, the columns in `unaltered` (without them in `SettledTableMatches`, `FullReprocess = FALSE`, one failure): an ALTER
    TABLE that fails, because the database is busy or the column is indexed, say, is only logged (`sqlite.rs:856`). The update
    succeeds, the record says the table is as declared, and no later run repeats the statement, nor does a full
    reprocess (finding 11). A column that was not added makes every write of rows fail from then on. The guide says
    the target is altered in place (`programming_guide/target_state.mdx:142`).

Not counted as findings: after a run under `full_reprocess` that failed, the item of an
unchanged target may keep two equal entries through later commits, although the comment at
`is_pending` says one entry per item at rest; `SettledItemsAgree` is what does hold. A batch that a call joins goes to
the back of the queue (`hashlink` moves an occupied entry), so batches of different batchers do not start in the order they
were opened (`batching.rs:34`); those of one batcher do. And, only read, not modelled: `connectors` for Postgres
takes the first system-managed record for the previous one (`postgres.rs:550`), which after a run that
stopped between two schema changes need not be what the table looks like.

## 7. Plan

Done: all modules of section 2. Left, in order:

1. Dropping an app: its delete run, its live components and its store, on top of `ComponentTree` and `LiveComponent`.
2. Nested live components and the readiness they report; `update_full` dropped by its caller.
3. An abstract specification of what an app promises (a sink that follows the sources),
   implemented by `TargetStates` when runs do not overlap, and by `ComponentTree`.
4. The other kinds of containers (attachments of Postgres, collections of vector stores), when they share a
   decision tree worth stating once.
