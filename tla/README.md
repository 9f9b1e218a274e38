# Akaal: a TLA+ verification project

Akaal migrates databases. The engine (`akaalEngine`) is a set of "authorities"
behind one gateway; the pipeline (`akaalPipeline`) plans and schedules what the
engine runs. This project models the parts on which a migration's correctness
hangs when workers crash, retry and race: the **Durability** authority (what is
on record), the gateway's **batch rollback** (what is undone), the **Runtime**
authority (what runs), the pipeline's **plan execution** (in which order, and
whose answer counts), the fabric's **ownership and failover** (who may write)
and **change data capture** up to cutover (what is carried over). Every
definition is translated from the source; `PROJECT.json` maps each to the lines
it stands for.

## 1. Inventory

| Component | State | Operations | Talks to | What is hard | What makes it correct |
|---|---|---|---|---|---|
| Fencing tokens (`durability/fencing`) | `fencing_tokens`: one epoch per resource | issue, validate in a write's transaction | every fenced write | tokens presented late | only the newest token of a resource writes |
| Checkpoint registry (`durability/checkpoint`) | `checkpoints` (columns, JSON, checksum), `watermarks` | save checkpoint, row position, watermark; verified reads | fencing tokens; callers in gateway and transport | several fencing scopes over one row; two writers of one document | rows stay readable; epochs, watermarks and plan bindings never regress; nobody is locked out |
| Operation journal (`durability/journal`) | `journal_records` (hash chain), `journal_anchors` | append, compact, purge by age, verify | all authorities append; the recovery inspector verifies | clock read outside the mutex; numbering that restarts; a verifier that reads twice | the chain verifies after whatever was deleted |
| Durable queue (`durability/spill/queue_store.py`) | `queue_records` with claim and lease | store, claim, acknowledge, acknowledge with position | consumers, checkpoint registry | leases against stale clock readings, lost answers, crashes | FIFO; exclusive leases; redelivery; position only with acknowledgement |
| Idempotency registry (`durability/recovery`) | `idempotency_records` | state transitions with epoch and fingerprint | executors, batch rollback | takeover while the old executor still runs | one executor can commit, once |
| Batch rollback (`gateway/routing/dispatcher.py`, `durability/api.py`) | checkpoint JSON status, journal, idempotency record, the target | five-stage handler | durability, target writer | statements that commit one by one; crashes between; concurrent and retried requests | the target is rolled back once and the journal tells what happened |
| Runtime authority (`runtime/`) | task snapshots, admission slots, worker registry, leases, tokens, gates, pools | submit, cancel, pause, resume, drain, register, start, shutdown; pool threads | gateway, durability tokens | pool threads against operations; resubmission of an id; shutdown | slots accounted; terminal states final; everything ends |
| State store, manifests, spill files | `state_records`, `execution_manifests`, segment files | put, compare-and-swap, spill, read | all | order of file and row writes | not modelled yet |
| Plan execution (`akaalPipeline/execution`, `operations/leases.py`, the commands of `application/`) | `migrations`, `plan_executions`, `node_executions`, `attempts`, `leases`; engine tasks | start, the advance loop (check, gates, claim, call, reconcile), posted completions, cancel, recover, pause, resume | engine gateway | every transaction of a loop interleaves with other loops and commands; late answers of superseded calls; crashes | success is real, dependency order, a cancelled plan stays quiet, superseded calls are fenced, every loop returns |
| Fabric ownership (`fabric/ownership`, `failover`, `execution_site`, `site_coordination`, `placement/execution.py`) | one ownership record per key in memory and in the store, fencing generations, site trust, heartbeats | acquire, renew, transfer, release, force-fence, failover, site administration | durability tokens, transport barriers | memory is written before the store, saves fail, checks precede commits, clocks expire leases | one holder per generation, ended stays ended, a stale owner stops |
| CDC (`cdc/`) | the adapter's snapshot and file, backlog in memory and on record, index of applied ids, cutover phase | poll, push, take, apply, acknowledge, recover, abort, start, DDL pause, cut over | durability, target writer | five durable effects per change with a crash between any two; replay; budget; deferred events | target and records amount to what was captured; the stream catches up; a cutover leaves nothing behind |
| Schedules, outbox, notifications (`akaalPipeline/operations`, `events`) | occurrence claims, outbox rows | claim, publish | nobody outside the tests | who calls them, and when | not modelled |
| Transport, validation, evidence, schema, discovery, connection, data processing, placement, intelligence, extensions, telemetry | mostly none between calls | conversions and I/O | databases | data, not control | not modelled |
| Pipeline application, security, identity; IPC, desktop shell, legacy engine | requests, UI | | | | not modelled |

All durability state is in one SQLite database. Writes run in `BEGIN IMMEDIATE`
transactions under one process-wide mutex (`store/sqlite.py`), so a write is one
step of a model, with two exceptions that the models keep: clocks that are read
*before* the mutex is taken (`journal/store.py:51`, `queue_store.py:51` and
`:112`), and the rollback operations, whose `with conn:` on a connection in
autocommit mode opens no transaction, so that each statement is a step
(`api.py:209-286`). The Runtime authority holds one lock through every
operation; pool threads take it only in the completion callback. The pipeline
has its own SQLite database, one `BEGIN IMMEDIATE` transaction per unit of work,
and no lock across two of them.

`PROJECT.json` lists the hazards, each at its line with the properties that
would catch it.

## 2. Modules

| Module | Models |
|---|---|
| `FencingTokens` | `FencingTokenManager`. A token is its resource and epoch; every issued token may be presented at any later time, which stands for slow, restarted and superseded workers. |
| `CheckpointRegistry` (extends it) | The three fenced writes. A refused write is rolled back and is no step. The checksum is modelled by the document it was computed from (SHA-256 taken as injective). `MigrationOf` says which migration a resource id is a scope of. |
| `OperationJournal` | Append in two steps (clock, transaction), compaction, purge. The verifier reads the records (`read`) and, later, the anchors; `cut` says that a deletion came in between. Checksums are fresh numbers; `disordered` and `emptied` are history variables. |
| `DurableQueue`, `MessageQueue` | The table, its consumers and the composed acknowledgement; the abstract queue it implements (messages numbered as they were stored, each with its newest claim) and the refinement mapping. Time is relative to the present, so the clock needs no bound. |
| `IdempotencyRegistry` | One key, the executors that race for it. `owner` is a history variable: the epoch of the execution started last. Its properties are checked and proved in `BatchRollback`, where the rollback writes the record too. |
| `BatchRollback` (extends it) | The rollback handler statement by statement, with crashes, beside the idempotency executors and checkpoint saves. |
| `RuntimeTasks` | Tasks, admission, workers, leases and both executors. Submissions of one id are numbered. |
| `PlanExecution` | One migration, its plan executions and nodes. An action per transaction; a thread is a start command's advance loop or the ingress of a posted completion. The engine is external: it answers, raises, or accepts a task and completes it later. |
| `FabricOwnership` (extends `FencingTokens`) | One ownership key: the record in memory, the one in the store, the dispatches that acquire in the name of a worker id, renew at each barrier and commit, failover threads, sites. Two dispatches may name one worker id; `acquire` re-enters for the second. A save may fail, the process may restart. Time is the number of ticks a record has left. |
| `ChangeStream` | One table of the PostgreSQL adapter, which compares snapshots. A cycle is a sequence of durable effects, each a step; the snapshot file is emptied in one and written in another. A row is compared by what it normalizes to (`RowsEqual`). After a restart nothing streams until an adapter and a writer are bound and the adapter is started. `lost` is a history variable: it names the events after which a change can be gone (below). |
| `MCPlanExecution`, `MCFabricOwnership`, `MCChangeStream`, `MCCheckpointRegistry`, `MCDurableQueue`, `MCRuntimeTasks` | Instances for TLC. |
| `CheckpointRegistryProofs`, `OperationJournalProofs`, `DurableQueueProofs`, `BatchRollbackProofs`, `RuntimeTasksProofs`, `PlanExecutionProofs`, `FabricOwnershipProofs`, `ChangeStreamProofs` | The theorems. |

Actions keep the names of the methods they translate. Operators with a suffix
(`MaySave_NoStoredEpoch`) or the comment "Mutant" are mutated forms used to see
that a property can fail; no specification uses them.

Abstractions worth knowing:

- *Tokens.* HMAC verification is "the token was issued". Every caller in the
  engine stores the epoch of the token it presents, and so does the model.
- *Watermarks.* Values are numbers; a comparison between types raises in Python
  and is refused.
- *Queue.* `claim_id` is a fresh value; the constants give more than can be in
  use, so a claim never lacks one. A consumer may miss any answer and retry.
- *Rollback.* One batch, one migration, one target. Journal records are younger
  than the retention, so the `UNIQUE` operation id lasts. One consequence the
  model makes plain: after a failed or crashed rollback no retry gets past
  staging; the target is never rolled back twice *because* it may never be
  rolled back at all.
- *Runtime.* All tasks ask for the same resources, so admission counts slots.
  Lease times are left out: no operation of the authority reads them. A pool
  takes queued attempts in any order. ADMITTED, ASSIGNED and CANCELLING exist
  only inside a locked operation.
- *Plan execution.* The capability, validation, placement and binding gates are
  one step that may refuse. Lease expiry is a lease the gate may find unusable
  at any time. Recovery takes any earlier attempt as its source and any node as
  the checkpoint's. Outbox, audit and operation rows are left out: they are
  written in the same transactions and nothing modelled reads them.
  `NodeExecutionState` has no member RUNNING, although the coordinator names it
  in two places; the model does there what Python does, it raises. The
  transaction is rolled back, and what happens next depends on who catches it.
- *Fabric.* One manager in one process. Site persistence is reliable. Evidence,
  residency and topology checks can only stop a dispatch, which it may do at any
  time. DEGRADED and DRAINING views and the site's own fencing epoch are
  left out.
- *CDC.* An event is a key and the value its row now has. The adapter compares
  rows by their normalized columns (`_rows_equal`: NULL is `''`, strings are
  stripped, numbers compared as decimals), so a change that normalizes to nothing
  is never captured and the properties speak of rows up to `RowsEqual`. The
  column set is fixed: that only common columns are compared matters after DDL,
  which is modelled as a pause. What the capture budget leaves of a batch is any
  prefix of at most `MaxPerFetch` events, since the byte budget may cut anywhere.
  The gateway starts a new adapter without the authority's lock; that touches
  nothing a cycle reads until `is_active` is set, and is one step. A failed
  acknowledgement leaves the record, and may leave its transaction open
  (`open_tx`). Errors of a start and of single tables in a scan, a full store
  quota, changes of a primary key, transaction assembly, retention and lag
  telemetry, and the snapshot handshake are left out. Nothing outside the tests
  calls `recover_from_durability`; it is an operator's step here.

## 3. Runs

Sizes are distinct states.

### Runs that pass

| Run | Instance | Shows |
|---|---|---|
| `checkpoint_registry` (165 k) | a migration with the scopes `m1` and `m1/run`, one with its own id; 2 epochs, 2 plans and the empty fingerprint, 2 types | `CheckpointReadable`: whichever of the two writers touched a row last, checksum, columns and document agree. `LiveHolderCanSave`: the newest token of a sole scope is let through. `EpochNeverRegresses`, `WatermarkNeverRegresses`, `PlanNeverRebound`, with independent epoch counters over one row. |
| `operation_journal` (405 k) | 2 writers, 5 appends, clock to 3, a verifier | `ChainVerifies`, of the journal and of what the verifier has read (unless a deletion came between its reads); `NeighboursLinked` |
| `durable_queue` (220 k) | 2 consumers of one worker id, 2 messages, lease of 1, calls that wait up to 1, under fairness | `LiveLeaseIsExclusive`, `PositionOnlyWithAck`, `OnlyNewestClaimAcks`, `OldestRedelivered`, and the refinement `ImplementsMessageQueue`, with the numbering restarting |
| `batch_rollback` (602 k) | 2 requests, 2 executors, 3 tokens | `TargetRolledBackOnce`, `OneOutcome`, `TombstoneTellsTruth`; of the idempotency record `CommitsNewestExecution`, `OneCanCommit` |
| `runtime_tasks` (710 k) | a pausable thread task and a process task, 2 submissions each, 1 worker with 1 slot, a pool of 1 | `SlotsAccounted`, `BusyMeansFull`, `LeaseIndexCurrent`, `ClosingHasNoLiveTask`, `TerminalIsFinal` |
| `runtime_liveness` (232 k) | 2 pausable thread tasks, one not cancellable, 2 submissions each, 1 worker with 2 slots, 3 slots in all, a pool of 1, under fairness | `RunningEnds`, unless a pool thread is held up at a closed gate or the task was submitted again under a token that an earlier cancel has set; `CancelledRunEnds`, unless the task is paused; `ShutdownCompletes`, with no exemption |
| `plan_execution` (381 k) | 2 start commands and a posted completion; two roots and a node that depends on one of them; 2 executions, 5 attempts, 4 invocations, 3 commands or crashes | `PlanSuccessIsReal`, `InvokedInOrder`, `CancelledPlanIsQuiet`, `CompletionFindsItsRow`, `SucceededIsKept`: whatever order the transactions of two loops, a completion, cancels, recoveries and crashes come in |
| `plan_returns` (275 k) | 2 start commands and a posted completion, two independent nodes, 2 commands or crashes, under fairness | `AdvanceReturns`: lost claims do not make a loop spin. `RestsOnlyWaiting`: no READY node and no completed plan is left to a thread that has gone |
| `fabric_ownership` (1.60 M) | 2 worker ids at 2 sites, trusted or awaiting their elevation, a dispatch for the first and one for either, one failover, 2 generations, leases of 2 ticks, 2 faults, 1 change of trust, under fairness of time | `OneHolderPerGeneration`, `GrantIsDurable`, `EndedStaysEnded`, `StaleOwnerStops`, `UnreadySiteLosesOwnership` |
| `change_stream` (855 k) | 2 rows, one absent, 3 values of which 2 normalize alike, 2 source changes, 1 fault (a failed read, save, store, write, acknowledgement), 1 crash, batches of 2 and 3, a budget of 2 events or fewer by size, under fairness of the streaming thread | `NoChangeForgotten`, `StreamConverges`, and the type invariant |

The runs do not repeat what section 4 proves and is only a step of another
property: the type invariants (that of `ChangeStream` is checked as well),
`StagedBeforeTarget`, `CommittedUntilRolledBack`, `QueueKeepsOrder`,
`EpochIssuedForMigration`, `FencedStaysFenced` and `SupersededCallIsFenced` (which
speaks of plans with one root; the run has two) are theorems without a run.

A larger instance checked once: `plan_execution` with 4 commands, 6 attempts and
5 invocations (1.7 M).

### Runs in which the code disagrees with what the repository says

Each checks one property that a comment or docstring states; TLC's trace is
what the code does. `PROJECT.json` quotes the lines.

| Run | What happens |
|---|---|
| `plan_successors` | A chain of two nodes; the first succeeds. `_evaluate_and_activate_successors` compares with `NodeExecutionState.RUNNING`, which does not exist, and raises (`coordinator.py:1408`). The success is rolled back, node and plan are marked FAILED. The plans the compiler builds for M1 to M6 are chains. `tests/pipeline/test_durable_dag_execution.py:183` and `:190` expect both nodes invoked and the plan SUCCEEDED. |
| `cutover_drains` | With no failure and no crash: two changes are captured, the capture budget returns one of them (`api.py:430`), the drain takes the short batch for the end (`:335`), and the cutover is declared complete while the other change is on record and in no list. |

### Further observations

Seen while modelling and without a run of their own. Where a property above
carries a condition, one of these is the reason.

- A purge of everything leaves the old anchor in place while numbering restarts,
  so the next append does not verify (`compaction.py:147`, although `:101` says
  no anchor is needed then; the condition of `ChainVerifies`).
- The verification reads records and anchors in two statements and takes no mutex
  (`store.py:94-148`): a compaction or a purge between them makes it refuse an
  intact chain (`~cut` in `ChainVerifies`).
- The recovery inspector builds its journal store without the compaction engine
  and calls a compacted journal invalid (`inspector.py:33`).
- `rollback_batch` rewrites the status inside the checkpoint's JSON and neither
  the checksum nor the status column: the checkpoint then reads as corrupt, or
  with its old status after the next save (`durability/api.py:266`).
- A cancelled paused task keeps its pool thread, because the gate stays closed
  (`local.py:74`), and a resubmitted task meets its old cancellation token
  before the `try` block and stays RUNNING (`local.py:54`): the conditions of
  `RunningEnds` and `CancelledRunEnds`.
- A task accepted for later completion is never recorded as such: the
  transaction raises (`coordinator.py:1243`) and the thread ends; the node stays
  DISPATCHED until the completion is posted. If a successor is BLOCKED then,
  the completion raises as well, is lost, and the node stays DISPATCHED
  (`RestsOnlyWaiting` allows a DISPATCHED node for this reason).
- A stale completion fails the row of whoever holds it now
  (`coordinator.py:1955`), and a claim brings a FAILED plan back to RUNNING
  (`:995`): `SucceededIsKept` allows FAILED.
- A cancel revokes the active attempt only (`command_handlers.py:261`): another
  call in flight may still complete its node of the cancelled plan, which
  `CancelledPlanIsQuiet` allows.
- The same partial revocation leaves a call open that a recovery sends again, in
  a plan of two independent nodes: attempt 1 is with the engine for one, attempt
  2 succeeds for the other and is the active one; the cancel revokes 2
  (`command_handlers.py:258-266`), a recovery from 2 revokes only its source
  (`:575`), and its loop claims the first node again under attempt 4. Attempt
  1's lease still stands, so its late answer is accepted, where
  `tests/pipeline/test_final_hostile_invariants_a09_to_a15.py:718` says that
  cancelling "fences out late engine results". The compiler builds plans with
  one root, for which `SupersededCallIsFenced` is proved; without that
  condition TLC finds this behaviour in the instance of `plan_returns`, and in
  that of `plan_execution` from 4 commands and 6 attempts on.
- A node that is sent again keeps its old `current_engine_task_id` until the
  answer comes, so a cancel may be confirmed on the old task while the new one
  runs (`command_handlers.py:276`). A failed plan leaves the migration ACTIVE,
  so recovery needs a cancel first (`:520`).
- A failover fences whatever record is ACTIVE when it gets there, a new owner's
  included (`failover/coordinator.py:113`); `force_fence` does nothing on a
  record that is FENCED in memory and was not saved as such
  (`ownership/manager.py:434`), which is why `EndedStaysEnded` speaks of calls
  that returned. Nothing in the source calls failover, transfer or release.
- `acquire` answers a second claim of the same worker id and context with the
  generation it gave the first (`ownership/manager.py:171-187`), whether or not
  the first dispatch still runs: two dispatches of one worker id then both pass
  the barriers. `OneHolderPerGeneration` speaks of different worker ids.
- CDC can lose a change in these ways, which set `lost`: the process stops with
  captured events not on record yet (`capture/postgres.py:390` saves the view
  before `push`); the adapter starts with another view than its last one, because
  the snapshot file was not written or was read back older (`:171-185`), or
  because it was being written at a crash, cannot be read, and the live source is
  taken instead (`:203-205`, `:243-260`); a scan has more than `max_events` changes
  (`:394`); an event id is given out again while a record or the index of applied
  ids has it (`:59`); a record is not stored (`backlog.py`, `push`); a delete is
  moved behind a re-insert of its row in one batch (`cdc/api.py:489`); a later
  change of a row overtakes a deferred event, an unacknowledged one or one left on
  record (`:513`, `backlog.py:115`). With none of these, `NoChangeForgotten` holds
  through every other interleaving and failure of the model. A start that finds
  the file unreadable when nothing was missed is not among them.
- An error after `BEGIN IMMEDIATE` in `ack_event` is swallowed without a ROLLBACK
  (`backlog.py:104-117`): the transaction stays open on that thread's connection,
  later stores and acknowledgements fail until one on the same connection rolls
  back, and the records they were about are missing or left behind.
- `RuntimeAuthority.get_task_status` of an unknown id names
  `TaskState.UNSPECIFIED`, which does not exist either (`runtime/api.py:138`; a
  query, not modelled).
- A watermark written with an empty plan fingerprint is unbound, and the next
  plan takes it over (`registry.py:455`; the exception in `PlanNeverRebound`).
- Two journal writers may commit in the other order than they read the clock;
  a purge by age then deletes from the middle (`journal/store.py:51`; the
  condition `~disordered` of `ChainVerifies`).
- `save_row_position` overwrites without comparing, so a redelivered older
  message moves the position back (`registry.py:225`; `PositionOnlyWithAck`
  speaks of the acknowledgement and not of an order).
- The rollback abandons COMMITTED records past the transition table
  (`api.py:269`; the exception in `CommittedUntilRolledBack`).
- Slots of tasks that were never dispatched or were dropped by a cancel are not
  given back (`runtime/api.py:197`; `Holding` in `SlotsAccounted` counts them).
  The gateway submits specs without a function for every bulk migration
  (`orchestration/coordinator.py:540`).
- A paused task whose function already runs goes from PAUSED to SUCCEEDED, and
  the late callback of a cancelled submission finishes the id's next one
  (`runtime/api.py:236-244`; `TerminalIsFinal` speaks of terminal states, per
  id and not per submission).

### Bounds

Names and reasons: `MaxEpoch` (tokens per resource) 2 or 3 allows a takeover,
and in the rollback run one more after it; `MaxAppends` 5 and `MaxClock` 3 give
a reordered pair, a purge with survivors, a purge of everything and a restart
in one behaviour; `MaxMessages` 2 (messages ever stored) lets the
queue run empty and restart with a claim outstanding; `MaxWait` 1 with
`LeaseTerm` 1 covers a reading older than, equal to and younger than a lease;
`MaxSubmissions` 2 is a cancel and a resubmission; `MaxSlots` 3 with
four possible submissions makes admission refuse. `MaxCommands` 3 is a cancel,
a recovery and one more cancel or crash after it; `MaxAttempts` 5 and
`MaxInvocations` 4 let every node be sent and one be sent again. The dependent
node is reached: a cancel makes it CANCELLED, the late success of its
dependency under an attempt the cancel did not revoke is then recorded, and a
recovery makes it READY. `Ttl` 2 lets a lease be renewed, run down and lapse;
`MaxFaults` 2 in the fabric is a failed save and a restart. In CDC one fault and
one crash give a failure before or after a restart, and a torn file without a
fault; two changes are two rows in one batch or one row twice, with a stop
between any two effects. A `StreamMax` of 2 is a full batch, which is followed by
another one. Of two events in memory the budget returns one or both, so it cuts
batches with `lost` unset, as 1000 events (or the byte budget) below 5000 do in
the code. `Calls` leaves out, in `change_stream`, the call that completes a
cutover: it does to the data what "sync" does, and sets a flag that guards
nothing. `cutover_drains` forbids faults and crashes, so its trace is the budget's
cut and nothing else. No constraint cuts a state
graph; the bounds are in the guards. Plans and types of the
checkpoint run and the start commands of `plan_execution` are symmetric (no
liveness is checked there); no other run uses symmetry. Deadlock is checked
except in the journal run, which uses up its bounds, in the runtime runs, where
a wedged or exhausted authority stops, in the plan runs, where a migration ends,
and in the fabric run, where workers and sites use up their bounds.

### Fairness

- *Queue*: time passes (strongly fair, because a call may keep it back for its
  bounded wait); a consumer polls, its calls return (the mutex is released by
  every path), and it does not hold one message for ever (`Forget`, the crash
  or give-up that leases exist for).
- *Runtime*: pool threads take steps and the functions they are given return;
  a shutdown under way goes on. Nothing is assumed of the users of the API: no
  cancel, resume or submission ever has to come.

- *Plan execution*: every thread takes steps until it returns, and the engine
  answers every synchronous call. No command and no posted completion ever has
  to come.
- *Fabric*: time passes. Nothing is assumed of dispatches, sites and failovers.
- *CDC*: the streaming thread takes steps (weak fairness of its cycle); faults
  are bounded, operators and the source owe nothing.

What can hold up the runtime for ever is named in the properties. A thread at a
closed gate keeps its place in the pool until somebody resumes the task or shuts
down: `RunningEnds` excepts the tasks behind it, `CancelledRunEnds` the paused task
itself. An attempt that is dropped at a token check tells nobody (`local.py:54`):
`RunningEnds` excepts a task whose token is set while it is RUNNING, which takes a
cancel and a resubmission, and both are in the run. `ShutdownCompletes` excepts
nothing.

## 4. Proofs

TLAPS proves, for every value of the constants that satisfies the modules'
assumptions (bounds are naturals, `NoRow`, `None`, `NotDrawn` differ from the
values they stand beside):

| Theorem | Statement | Argument |
|---|---|---|
| `TypeCorrect` | `[]TypeOK` (checkpoints) | per write, from the lemmas that say what each write leaves |
| `CheckpointsStayReadable` | `[]CheckpointReadable` | inductive with `TypeOK` |
| `StoredEpochsWereIssued` | `[]EpochIssuedForMigration` | a live token's epoch is the resource's; epochs only grow |
| `NewestTokenCanSave` | `[]LiveHolderCanSave` | follows from the previous one: a sole scope's epoch is the highest that a row can hold |
| `EpochsNeverRegress`, `WatermarksNeverRegress` | the action properties | from `TypeOK`, write by write |
| `WatermarkKeepsItsPlan` | `PlanNeverRebound` | the stored plan is the bound one or none (`BoundPlanIsStored`) |
| `JournalTypeCorrect` | `[]TypeOK` (journal) | with `Bounded`: numbers and checksums never exceed the number of appends |
| `NeighboursStayLinked` | `[]NeighboursLinked` | a new record follows the last one and has a fresh checksum; deletions only remove |
| `ChainStaysVerifiable` | `[]ChainVerifies` | `ChainInv`: an unanchored empty journal, or an interval of linked records whose first fits the highest anchor, with stamps in order; a cut of such an interval from below is one. `ReadInv`: without a deletion in between, what a verifier has read is a lower part of the journal, with the same first record |
| `TargetIsRolledBackOnce`, `IntentIsStagedFirst`, `JournalHasOneOutcome`, `TombstonesAreTrue` | the rollback properties | `RollbackInv`: one request at most is past staging, and its stage determines the journal and the target |
| `RollbackTypeCorrect`, `NewestExecutionCommits`, `AtMostOneCanCommit`, `CommittedStaysUntilRollback` | `TypeOK`, `CommitsNewestExecution`, `OneCanCommit`, `CommittedUntilRolledBack` of the composition | `IdempotencyInv`: tokens are unique and the record's epoch is at least the owner's, so a running executor not overtaken is the owner; it survives the rollback's UPDATE too (`AbandonKeeps`) |
| `TerminalStays` | `TerminalIsFinal` | only a submission, a completion, a cancel, a pause or a resume writes a snapshot (`StepKinds`), and all but the first leave a terminal one |
| `LeaseIndexIsCurrent` | `[]LeaseIndexCurrent` | `LeasesNumbered`: lease numbers were given out, so a new one is the newest; a release takes the index entry along |
| `ShutdownWaitsAlone` | `[]ClosingHasNoLiveTask` | `NoneLive`: from the cancelling of all tasks on none is live, because submissions are refused and completions only make terminal |
| `RuntimeTypeCorrect`, `EverySlotIsAccounted`, `BusyWorkersAreFull` | `TypeOK`, `SlotsAccounted`, `BusyMeansFull` | `SlotInv`: attempts, workers and flags are typed and what is allocated is the cardinality of what holds it; each action adds or removes one element (`FS_AddElement`, `FS_RemoveElement`) |
| `QueueTypeCorrect`, `OrderIsKept`, `PositionsAreAcked`, `LiveLeasesAreExclusive`, `SupersededClaimsAckNothing` | the queue's invariants and `OnlyNewestClaimAcks` | `ClaimInv`: a row and a reference with one claim id agree on message and lease, claim ids in use differ, and a reference whose lease is live is its row's |
| `QueueRefinement` | `ImplementsMessageQueue` | a message waits while its row is there and its owner is the row's claim; the three writes are `Store`, `Claim` and `Acknowledge`, every other step stutters. `Claim` needs that the row a consumer takes has only claimed rows before it (`OlderIsClaimed`), `Acknowledge` that the reference it presents is its row's |
| `PlanTypeCorrect`, `PlanSuccessCorrect`, `PlanOrderCorrect`, `PlanCancelCorrect`, `PlanKeepsSuccess` | `TypeOK`, `PlanSuccessIsReal`, `InvokedInOrder`, `CancelledPlanIsQuiet`, `SucceededIsKept`, for every dependency graph | `IInv`: rows of executions to come are blank (`FutureIsBlank`), a node DISPATCHED or SUCCEEDED was invoked (`StartedIsInvoked`), and a thread that may write SUCCEEDED points to an invoked row of an existing execution (`ThreadsPointToRows`). Without the last one a late answer could write a row nobody sent. |
| `CompletionsFindTheirRow`, `FencesHold` | `CompletionFindsItsRow`, `FencedStaysFenced` | `LeaseInv`: some map gives every attempt made one row, and rows, calls and threads hold only attempts of their own. The map is not in the state, because a recovery's attempt gets its row when it is bound; it is an existential that each step extends. Epochs never go back and every call is sent at epoch 1 (`LeasesGrow`, `CallsAreLeased`) |
| `SupersededCallsAreFenced` | `SupersededCallIsFenced`, for plans with one root | `RootInv`: only the root can be sent, an open call of the newest execution is the active attempt's, a READY root has no open call, and a cancelled migration has none at all |
| `PlanRestsWaiting` | `[]RestsOnlyWaiting` | `Driven`: a RUNNING plan with nothing dispatched, failed or cancelled has no BLOCKED node and a thread that is going to look at it, unless a crash took it. A thread leaves only past a row that keeps the plan waiting |
| `OwnershipTypeCorrect`, `GenerationsAreExclusive`, `GrantsAreDurable`, `EndedGenerationsStayEnded`, `StaleOwnersStop` | the fabric's invariants | `Ledger`: store, memory and ledger are ordered by generation and the store has every grant; `Holders`: who runs under memory's generation runs for its owner; `Lateness`: who is past a barrier has not been late |
| `StreamTypeCorrect`, `NoChangeIsForgotten` | `TypeOK`, `NoChangeForgotten`, for every finite table, normalization and batch size | until `lost` is set: events have distinct numbers and ids (`Numbered`), memory holds records in the order of capture (`MemoryInOrder`), the map leads to the right record (`MapIsRight`, or an acknowledgement would delete another one), the records of a row are applied in order (`AppliedInOrder`, or a duplicate skipped would hide an older value on the target), and within a batch an event is written and acknowledged only after the older records of its row (`WorkInOrder`, `AcksInOrder`). Then the newest pending event of a row has the adapter's value, up to normalization, and with none pending the target has it (`RowIsKept`) |

The assumptions are the named `ASSUME`s of the modules, which TLC evaluates on
every run: bounds are naturals, constants that stand for "nothing" differ from
the values beside them, dependencies are nodes and ranks are distinct.

Every invariant and every action property of a passing run has a theorem, and
so has the refinement. Only model-checked, because liveness under fairness is out
of TLAPS's reach: `OldestRedelivered`, `RunningEnds`, `CancelledRunEnds`,
`ShutdownCompletes`, `AdvanceReturns`, `UnreadySiteLosesOwnership` and
`StreamConverges`. The refinement is of the safety part; `MessageQueue` states
no fairness.

## 5. Not modelled, and the plan

The map covers a small share of the repository. Most of its 328 000 lines are
the legacy engine, user interfaces, dialect and type conversion, discovery
queries and drivers: sequential code about data, which a model would only
transliterate. The protocols that several actors, crashes or the clock can
disturb are what is modelled. Open, in this order:

1. **Runtime leases over fencing tokens**: `ExecutionLeaseManager` with
   durability tokens, its fall-back to local epochs, expiry and renewal,
   composed with `CheckpointRegistry`.
2. **Two fabric managers** over one store: each decides on its own memory. The
   code starts one per process and says nothing of two.
3. **Schedules and outbox** (`operations/schedules.py`, `events/outbox.py`):
   nothing outside the tests calls them, so who runs them how often is unknown.
4. **State store and spill files**: compare-and-swap, file before row.
5. **The other CDC adapters**: log positions instead of snapshots.
6. **Proofs**: the safety lemmas that the liveness properties rest on (what a
   step must change for a queue to move, a shutdown to go on, a cycle to end).

Left out for good: dialect mapping, discovery and readers and writers
(conversions and I/O), scoring and telemetry, request parsing, authentication,
the desktop shell, and the legacy engine under `akaal/`.

## 6. Running

    tlc -workers 2 -config RuntimeTasks.cfg MCRuntimeTasks
    tlapm PlanExecutionProofs.tla

`PROJECT.json` names the module and the cfg of every run.
