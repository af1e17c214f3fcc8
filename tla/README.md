# A TLA+ development for MongrelDB

MongrelDB is an embedded and clustered database in Rust: a storage core
(`crates/mongreldb-core`), a Raft consensus layer, a cluster layer with
distributed transactions and tablets, a SQL engine, a server and language
bindings. This directory holds TLA+ models of the storage core's commit,
recovery, locking and retention machinery and of the cluster's two-phase commit
and tablet split, the TLC configurations that check them, and theorems checked by
TLAPS. Paths below are relative to `src/crates/`; files without a directory are in
`mongreldb-core/src/`.

## 1. Inventory

| Component | State | Operations | What makes it hard, and what it must guarantee |
|---|---|---|---|
| Epoch authority (`epoch.rs`) | `assigned`, `visible`, `committed`; sets `pending`, `abandoned` | take a ticket, publish in order, abandon, recover | publishers interleave; the watermark covers no epoch in flight, forgets none, and catches up |
| Transactions (`txn.rs`, commit path of `database.rs`) | `ConflictIndex`, `ActiveTxns`, read and predicate sets, key claims | begin, register, claim, prune, validate, sequence, publish, abort | validation outside the locks, pruning beside it; first-committer-wins, serializability of tracked reads |
| Group commit and commit log (`txn.rs`, `commit_log.rs`, `wal.rs`) | `durable_seq`, `syncing`, `poisoned`; the WAL and its authenticated head | append, await durability, lead, sync, fail, reopen | a condition variable, fsync failure, crash; what is acknowledged survives, everybody is answered |
| Table storage (`engine.rs`, `compaction.rs`, `manifest.rs`, `database.rs`, `wal.rs`) | memtable, mutable-run tier, sorted runs, `flushed_epoch`, manifest, WAL segments | commit, flush, compact, checkpoint, collect segments, crash, open | rows are durable in the WAL or in runs and one epoch decides which; nothing acknowledged is lost, the manifest opens, epochs are not reused |
| Idempotency ledger (`txn.rs`) | records in memory and in a file, reserved or with a receipt | check and reserve, complete, release, sweep, evict, reopen | crash windows, failing writes and retries; at most one execution per key |
| Lock manager (`locks.rs`) | holders and FIFO queues per key, fates, keys per transaction | acquire, upgrade, wait, time out, release, detect deadlocks | mutual exclusion, no lost grant, every cycle broken, every wait ends |
| Snapshots, retention (`epoch.rs`, `retention.rs`, `gc.rs`, `compaction.rs`) | snapshot registry, pin registry, history window, timestamp ledger, retired runs | snapshot, register, pin a generation, set the window, compact, collect | floors and pins are read before they are used; a reader's versions and files are not collected |
| Distributed transactions (`mongreldb-cluster/src/dist_txn.rs`) | coordinator records, intents, applied command ids | begin, prepare, mark, decide, resolve, recover, push, sweep | stateless drivers that stop anywhere, proposals applied late or never; one decision, all or nothing, intents do not stay |
| Tablets and split (`mongreldb-cluster/src/{split,tablet,meta,runtime}.rs`) | descriptors, `split.json`, snapshot pin, child rows | plan, step, resume, abort; meta commands | a crash between any two steps, meta commands applied late, writes meanwhile; one owner per key, no row lost, no remains |
| Consensus (`mongreldb-consensus`) | Raft log storage, state machine, engine sink | append, apply, snapshot, read | over an external Raft library |
| Lifecycle (`core.rs`, `handle.rs`, `manager.rs`) | state, admitted operations | admit, poison, drain, close | no operation after close or poison |
| Jobs, index DDL, embedding jobs | persistent job records | claim, progress, retry, finish | crash between steps |
| Resource governance (`memory.rs`, `node_governor.rs`, `scheduler.rs`, `spill.rs`) | reservations, queues | reserve, release, escalate, admit | limits and accounting |
| Catalog commands, backup, PITR, replication | catalog generations, archives, applied positions | apply, archive, restore | replay and idempotence |
| Query, server, protocol, clients, bindings | sessions, query registry, admission | parse, plan, run, cancel | mostly computation and I/O |

Components call each other downwards: a transaction claims its unique keys in the
lock manager, reserves its idempotency key, takes a ticket from the epoch authority
and appends to the WAL under the commit lock, waits in group commit, records its
receipt, applies to the tables under their locks, and publishes its ticket.
`Table::commit`, DDL and `CommitLog::propose` do the same but keep the commit lock
throughout. Checkpoint excludes transactions with the replication barrier and table
users with the table locks. In a cluster every tablet, the transaction-status group
and the meta group are Raft groups; drivers propose commands to them and hold no
durable state, except for the progress file of a split.

## 2. Modules

| Module | Models | Refines, extends or composes |
|---|---|---|
| `EpochWatermark` | what the epoch authority promises | abstract specification |
| `EpochAuthority` | `epoch.rs` at the grain of its atomics and locks | implements `EpochWatermark` |
| `TxnValidation`, `MCTxnValidation` | begin, `ConflictIndex`, `ActiveTxns` and the sequencer; programs for TLC | uses `EpochWatermark` for tickets and visibility |
| `GroupCommit` | `GroupCommit::await_durable` over `SharedWal::group_sync` | |
| `TableRecovery`, `MCTableRecovery` | one mounted table: transactions, commit, flush, compaction, checkpoint, WAL collection, crash, open | uses `EpochWatermark` for tickets |
| `IdempotencyLedger`, `MCIdempotencyLedger` | the ledger and the commit path around it | composes the ledger, the WAL marker and group commit's outcomes |
| `LockManager`, `MCLockManager` | `locks.rs` | |
| `SnapshotRetention`, `MCSnapshotRetention` | readers, registries, history window, compaction and the collectors | uses `EpochWatermark` for tickets |
| `AtomicCommit` | what a distributed commit promises | abstract specification |
| `DistTxn` | `dist_txn.rs` over replicated groups | implements `AtomicCommit` |
| `TabletSplit` | `split.rs` as `runtime.rs` drives it, over the meta group | composes driver, meta state machine and data plane |
| `CommitPathProofs` | theorems about the epoch authority and group commit | extends both and `TLAPS` |
| `TxnValidationProofs`, `TableRecoveryProofs`, `IdempotencyLedgerProofs`, `LockManagerProofs`, `SnapshotRetentionProofs`, `DistTxnProofs`, `TabletSplitProofs` | theorems | extend the component and `TLAPS` |

`PROJECT.json` gives the source lines of every definition.

**EpochAuthority.** `assigned`, `visible`, `committed`, `pending` and `abandoned`
are the fields of the struct; `pc`, `ticket` and `target` are a committer's
locals, `commitLock` is `Database::commit_lock`. `publish_in_order` is three
steps: `PublishRaise` (the atomic maximum of `committed`, before any lock),
`PublishAbsorb` (the section under both set locks), `PublishVisible` (the
compare-and-swap loop after they are dropped). `AbandonAbsorb` is what an armed
`EpochGuard` does when it is dropped: after a failed commit, and after the fault
hook behind publication (`FaultHooks`). The threads in `txns`, chosen initially
among `TxnThreads`, drop the commit lock after the append (`ReleaseCommitLock`); the
others keep it.

**TxnValidation.** One table with records; a record has a row key and a
primary-key hash, and `TableKey` is `WriteKey::Table`. `Conflicts` is
`ConflictIndex::conflicts` with its two table-level maps; `Prune` is
`min_read_epoch` followed by `prune_below`; `SequenceCommit` is the section under
commit lock and WAL lock, and `SequenceFails` the same section when it fails
between its ticket and its record. `Abort` is every earlier error return. An update
is delete plus put, as the commit path normalises it. The ghosts `inWindow` and
`pruned` record the two windows the code leaves open: a commit recorded between a
transaction's pre-validation and its version load, and a prune between its snapshot
and its registration.

**GroupCommit.** Each turn of the loop is one step under the coordinator's mutex;
the leader's `group_sync` is a step of its own, and `place` is where a committer
is in the call. `head` is the WAL head file:
recovery reads no further. A failing `group_sync` may or may not have written it.

**TableRecovery.** A commit is its epoch, and memtable, tier and runs are sets of
epochs. `TxnAppend` to `TxnPublish` are the phases of the commit path between
which other threads run; the replication barrier is held shared by them and
exclusively by a checkpoint. `Seal` and `CommitShared` are `Table::commit`, which
`FlushDrain` and `FlushSpill` continue. `CompactAt` is `Table::compact` at the
visible epoch. `GcCheck` and `GcReap` are the decision of `Database::gc` that
everything is durable and the deletion of WAL segments after it. `Crash` forgets
the live table and the WAL behind the head; `Open` is preflight and replay by the
manifest's gate. The jobs table users may run (`allowed`) are chosen initially, so
that one run covers both the table that is flushed and the one that is not.
Publication is one step (EpochAuthority has its interleavings), and so is the group
commit of everything appended. A failed append or fsync, and a failed manifest write
of a commit or a compaction, poison the handle until it is reopened: that is a
`Crash`. The failures that poison nothing are actions: `FlushFails` has the exits of
`flush_with_outcome_inner` and `spill_mutable_run`, of which the one behind the
drained tier loses rows from the live table; `TxnFails` is `idempotency.complete`
failing after the commit marker is durable, so that the epoch becomes visible
without its rows; `CompactFails`, `CheckpointResetFails`, `GcReapFails` and
`GiveUp` are the errors of the other jobs. The history variable `dropped` has the
commits such a failure left out, `overtaken` those a flush's gate passed.

**IdempotencyLedger.** `mem` and `file` are the ledger's records and its file,
`log` and `synced` the commit markers in the WAL. A call is one transaction with an
idempotency request: `CheckAndReserve`, the sequencer (`AppendMarker` and its
failures), `AwaitDurable`, `Complete`, and the guard that releases the reservation
on every other way out. `Lapse` lets a record's TTL run out; `forgot` records that
the ledger legitimately forgot a key, by TTL or by eviction.

**LockManager.** `inner` is the struct behind the mutex; every operation is one
step under it, and `waiting` is what a blocked `acquire` asked for. `ProcessKeys`
(its halves are `Purge` and `Grant`) is `process_key` for every key of a set: a
transaction waits in one queue only, so the keys do not affect each other.
`find_cycle` may return any cycle, so `DetectDeadlocks` is the set of possible
outcomes.

**SnapshotRetention.** One row of one table; a version is the epoch that wrote it.
A reader takes a snapshot and registers it in two steps, as `Database::snapshot`
does. `scored_read_generation` is three: `ScoreSnapshot` (its own snapshot, or the
caller's `snapshot_override`, under the table lock), `ScoreRegister` and `PinRuns`;
`TakeGeneration` is a read generation without a registration, `BeginTxn` registers
a transaction in `ActiveTxns` only. A flush is `FlushDrain`, which leaves the rows in
the tier below the spill threshold, `FlushSpill`, or `FlushFails`, whose spill has
drained the tier and not written the run; `TxnFails` is a durable commit that is not
applied. `dropped` has the versions these leave out, and `Intact(e)` says that none is
at or before `e`. `Compact` reads the floor and selects versions, `CompactPublish` swaps
the runs; `GcFloor`, `GcPins` and `GcReap` are the three parts of `Database::gc`, which
holds no table lock between them; `GcVersions` is `Table::gc_versions`. The ghost
`raced` names the windows between reading a floor and registering, and the readers
that pinned their runs too late for a collector (`PinsTooLate`).

**DistTxn.** `net` holds proposals that were made: a group applies each at some
time, in any order, or never, and skips an entry whose command id it remembers
(`seen`). `refused` are the rejection journals. A driver's program counter is
volatile: `GiveUp` is a crash, a deadline or the loss of every leader. `ApplyBegin`
to `ApplyAbort` are the transaction-status group's commands, `ApplyPersist`,
`ApplyResolve` and `ApplySweep` those of a tablet's intent group; the remaining
actions are the driver's operations. Rows of a tablet are one key. A request comes
with the largest timestamp it observed (`Begin(t, obs)`): the record starts with it,
marks raise it, and a retry may come with another; `asked` remembers them all.

**TabletSplit.** `meta` are the descriptors in the meta group, `queue` its log of
commands that are not applied, `record` is `split.json`, `pin` the durable snapshot
pin, `log` the source group's writes and `applied` what the driver's replica has of
them. A driver's call is a list of instructions (`Step`, `Abort`) executed one at a
time; `Stop` ends it anywhere. `AcceptsSet`, `AcceptsRemove` and `AcceptsPublish` are
the acceptance rules of the meta state machine. `hosted` says whether the driver's
process runs the source's replica: the retire step shuts it down, `split_step` then
goes by the meta state (`ResumeSplit`), and only a new process (`Restart`) opens it
again. `splitTs` is the plan's `split_ts`, a clock reading that may be before or after
the stamps of the entries written meanwhile; `PinSnapshot` fixes its epoch
(`SplitEpoch`, or the current one when the ledger of commit timestamps does not reach
back) and refuses it when the replica's history (`Retention`) has moved past it.
`kept` says that the pin's unlimited retention is in force, which a failure between
the pin's file and the retention leaves open (`StopInPin`).

## 3. Runs

Passing runs:

| Run | Instance | Shows |
|---|---|---|
| `epoch_mixed` | 3 threads, any of 2 on the transaction path, 4 epochs, failing commits | `VisibleOnlyResolved`; `NoEpochLost`; `LockedCommitVisible`: with committers that keep the lock a commit is visible when it returns; the implementation of `EpochWatermark` |
| `txn_programs` | 2 sessions, 2 records, 5 programs, 3 commits before the last begin | first-committer-wins and certification outside the two windows; claims close the first for puts |
| `group_commit` | 3 committers, 4 markers in the log, fsync failures, crashes | durability of what is acknowledged, no lost wake-up, every waiter answered |
| `table` | 2 transactions, 1 table user (commit, flush, compact; flush, gc; or commit, compact, checkpoint, gc), 4 epochs, crashes, 1 failing call | a crash loses only what a flush overtook or a failure left out (`LostOnlyIfMissed`); published rows are in the table, with the same exceptions; what the table holds is durable; without `Table::flush` (`QuietTableSafe`) nothing is lost but by a checkpoint's own failing spill, the manifest opens, epochs are not reused |
| `idempotency` | 3 calls, 2 keys, 3 requests, room for 1 receipt, 1 crash | one durable commit per key until it is forgotten; replays return earned receipts; acknowledged receipts are on file; a marker in doubt keeps its reservation |
| `lock_manager` | 3 transactions (2 with deadlines, 1 with a priority), 2 keys | compatibility, honest grants, no cycle of waits even with FIFO queues, no lost grant, complete `release_all`, every wait ends |
| `retention` | 1 committer, 1 reader of every kind, windows 0, 1 and 2, 6 epochs, 5 runs, failing spills, commits and compactions | registered readers and the history window read what was committed, and the current state stays readable, as far as no failure left a version out; files of a scored generation stay unless it pinned them too late for a collector that had passed it |
| `dist_commit` | 1 transaction on 1 or 2 tablets, 1 driver at a time, requests that observed 0 or 2, any number of lease renewals | resolutions follow the record, commits are whole, answers are final, timestamps are in order at both ends (`CommitTimestamps`), the implementation of `AtomicCommit`, orphans are resolved where somebody calls the sweep again and again |
| `split` | 2 splits, 2 writes to the source, 2 stops, no history retention (the default) | one owner per key, the owner has what was written before the catch-up, nothing is left behind; an operator that retries ends every split, unless it is in one of the dead ends `DeadEnd` names |

Every component module has a type invariant; `epoch_mixed` checks one, and the inductive
invariants of section 4 contain those of the modules with proofs.

Runs that find a violation, each of something the repository says of itself:

| Run | What happens |
|---|---|
| `txn_lost_update` | A transaction passes pre-validation; a conflicting one is sequenced; the first loads the index version, which does not move any more, so the re-check is skipped. Both commit |
| `table_lost_commit` | A transaction is durable but not applied; a flush with a later epoch spills and sets `flushed_epoch` past it; the transaction applies and is acknowledged; a crash; replay skips it |
| `split_data_loss` | The source group acknowledges a client's write that the driver's replica has not applied when the driver reads the deltas, because the replica lags (TLC's trace) or because the write comes after the read; the driver publishes. The key's new owner does not have the write |

### Further disagreements between the code and its documentation

Each is a property defined in the model (or described by one) that TLC refutes when
it is added to the configuration named; the passing runs state the part that holds.

| Where | What happens | What the repository says |
|---|---|---|
| `epoch.rs:439`; `QuiescentCaughtUp` with `EpochMixed` | A publisher loads `visible` under the set locks and stores it after dropping them: another one absorbs from the old value, finds the epoch before its own consumed, and leaves its own pending. Both return; the watermark stays behind until a later commit | `commit_log.rs:214-216`: "the visibility watermark never stalls behind an epoch hole" |
| `engine.rs:6485`; `LockedCommitVisible` without `txns = {}` | `Table::commit` overtakes a transaction in flight and returns before its epoch is visible | `engine.rs:6402-6405`: read-your-writes |
| `txn.rs:304`; `TrackedReadsValid` with `TxnPrograms` | A put records only the primary-key hash; a Serializable point read is certified by row id: the put replaces the row and the reader commits | `txn.rs:2206-2210`: "aborts with a serialization failure when a concurrent commit invalidated a tracked read" |
| `database.rs:10583`; `LiveConflictsKept` without `~pruned` | `begin` reads the visible epoch before it registers; a prune in between drops conflicts it needs | `txn.rs:1622` says it registers first |
| `commit_log.rs:249` (`GroupCommit`) | A committer is told of an error while the head covers its marker | `commit_log.rs:248`: a failed proposal commits no data |
| `database.rs:13840`; `ManifestAccepted` with `Table` | A transaction persists the manifest at its own epoch after a flush advanced `flushed_epoch` past it: `Database::open` refuses the file | `database.rs:16203`: "(impossible)" |
| `compaction.rs:386`; `EpochsNotReused` with `Table` and every job in one set | A compaction at a lagging visible epoch lowers the manifest's epochs; a checkpoint resets the WAL and crashes before its last manifest: the clock restarts too low | `database.rs:17072-17073`: "so the next commit continues monotonically" |
| `engine.rs:6711`; `LostOnlyIfMissed`, `VisibleRowsLive` without `dropped` | A flush (or the one inside a checkpoint) drains the tier and fails to write the run: its rows are in no tier, nothing is poisoned, readers miss them at once, and a later flush moves the replay gate past them | `database.rs:15958`: "Strict flush. Any error leaves the old WAL recovery source intact" |
| `database.rs:13776`; `VisibleRowsLive` without `dropped` | The idempotency record of a durable commit cannot be written: the call returns before the rows are applied and the epoch is published without them until the next open | `database.rs:13772-13779` reports it as a durable commit |
| `database.rs:15834`; `GenerationFilesKept` without `raced` | The collector reads its floor, then the run pins; a scored generation takes its snapshot before that, registers it after the floor was read and pins its runs after the pins were: a run it reads is deleted | `database.rs:6604-6627` takes both to keep the files |
| `database.rs:13764`; `OncePerKey` with `Idempotency` | A commit whose outcome is unknown releases its reservation, and the retry executes again although the marker turns out durable | `txn.rs:2422`, `database.rs:12844-12848` |
| `txn.rs:382`; `TxnSnapshotKept` with `Retention` | A transaction registers in `ActiveTxns` only; a compaction drops the version its snapshot reads | `retention.rs:200-207`, `txn.rs:482-485` |
| `mongreldb-cluster/src/dist_txn.rs:3159`; `CommitTimestamps` without `asked` | A retry whose request observed other timestamps than the one that made the record computes a `commit_ts` the record refuses: the command id is used up, no later commit is applied and the outcome stays ambiguous until an abort. A retry of a committed transaction is answered with the recorded `commit_ts`, which need not be later than what the retry observed | `dist_txn.rs:2588-2589` |
| `mongreldb-consensus/src/state_machine.rs:689`; `EveryOrphanResolved` with `DistCommit` | An abort applied before the record exists uses up its command id; every later abort is skipped and the intents stay | `mongreldb-cluster/src/dist_txn.rs:30-42`, `3797-3801` |
| `mongreldb-cluster/src/split.rs:1740-1768`; `OneOwner` without `undone` | An abort that follows a publication its record does not show removes the Active children and then fails on the Retiring source: the range is unserved and can be neither resumed nor aborted | comment at `split.rs:1740-1743`: "never routed to" |
| `mongreldb-cluster/src/split.rs:1590`; `MovedWhole` counting from the last read | The catch-up is repeated against the pin, not against the child: a row changed before the first attempt and restored before the second keeps the interim value | `split.rs:25`: "Every step is idempotent" |

Seen in `TabletSplit` and excluded by name in its properties: a meta command whose
driver gave up is applied after the abort and leaves a Splitting source or a Creating
child without a record (`stray` in `NoLeftovers`). The dead ends of `EverySplitEnds`,
besides the abort above: a crash between the removal of the record and the release of
the pin leaves a pin that blocks the next split until somebody aborts it; with the
default retention of 0 a write applied between the plan and the pin makes every later
pin of that split fail (`engine_sink.rs:1122-1128`), and so does a failure between the
pin's file and its retention followed by a write, so that only an abort helps; and
once the retire step has shut the source's group down and a removal of its descriptor
is applied after its driver gave up, `split_step` finds the source neither hosted nor in
the meta state (`runtime.rs:1504-1516`) and refuses until the process starts again. And
`runtime.rs` builds a fresh executor for every step, so the retention guard that
`remove_source` consults is never there.

Nothing in the repository calls `sweep_orphans`, `resolve_orphan` or `push_expired`
outside tests, and nothing but an operator's call resumes or aborts a split: the two
liveness properties about them say what such calls achieve (`SweepsCalled`,
`OperatorRetries`), not that they happen.

**Bounds.** `MaxEpoch`, `MaxSeq`, `MaxRun`, `MaxSplits`, `MaxWrites`, `MaxStops`,
`MaxCrashes`, `MaxFaults` bound how often something happens; they occur only in the
guards of the actions they bound. Four epochs are enough for two transactions in
flight, a flush or commit between them and one commit after recovery. Two sessions
suffice for pairwise conflicts, with commits of earlier transactions in the index;
`MCTxnValidation`'s programs contain one of each kind of write and tracked read. Three
transactions on two keys give cycles of length two and three, upgrades among sharers,
and a bystander. Three calls give an original, a concurrent call and a retry. Six
epochs and five runs, two of them there from the start, give two compactions, so that
a collector deletes what the second superseded with a floor it read before the first,
a version before, at and after the floor, and windows that grow, shrink and are
switched off. In `dist_commit` one transaction is enough for the races of its own
drivers: a driver that gives up leaves its proposals behind, so the next operation
meets all of them; transactions that conflict and drivers that act at the same time
are covered by the theorems of section 4, and so are prepares at different timestamps:
the run has one clock reading. Three decision times and two observed timestamps, one
below and one above it, give a commit timestamp too small for a prepare and one too
small for what another request observed. One failing call in `table` is enough for a
loss (a failed spill and a later flush); how failures combine is left to the theorems.
Two splits give a command of the first that is applied during the second. The
symmetric sets (`txn_programs`' sessions, `table`'s transactions, `idempotency`'s
calls) are interchangeable: no action or property names a member, and no liveness is
checked there. `table` and `retention` have a `VIEW` that leaves out what no later
action and no property reads: the epoch and job of an idle thread; how rows are spread
over runs, files of no live generation, the start of a window that is off or has moved
on.

**Deadlock.** Not checked where the system may stop: at the commit bound
(`txn_programs`, `retention`, `idempotency`), with a table whose manifest was refused
(`table`), and after a completed split (`split`).

**Fairness.** `group_commit`: weak fairness of a thread inside `await_durable`; the
mutex is held for one step at a time and a sleeper waits for a notification, not for
fairness. `lock_manager`: a waiter polls, so a wait that can end does, and a
transaction that keeps running ends at times and lets go of its locks. `dist_commit`:
a group applies the aborts and resolutions proposed to it, clocks pass a lease that
nobody renews, and every driver's call ends (it has a deadline). That the orphan sweep
of a tablet runs again and again (strongly fair, because other operations keep the
driver busy in between) and that no lease is renewed for ever is no fairness of this
code: it is `SweepsCalled`, the hypothesis of `OrphansResolved`. `split`: the driver's
call and the meta group go on. That an interrupted split is resumed and that who began
an abort repeats it until it is done (strong, because a resume may come first) is
`OperatorRetries`, the hypothesis of `EverySplitEnds`. Nothing is assumed of arriving
requests, of fsync succeeding, of crashes or of lost proposals.

## 4. Proofs

All theorems hold for every value of the constants that satisfies the named
assumptions, which TLC evaluates in every run: `EpochAssumptions`,
`ValidationAssumptions`, `GroupAssumptions`, `RecoveryAssumptions`,
`LedgerAssumption`, `LockAssumption`, `RetentionAssumption`, `DistTxnAssumption`,
`TabletSplitAssumption`.
They say that ids and bounds are what they are in the code (transaction ids are
numbers, finitely many are alive, a table starts with a run) and that names do not
clash: a call is none of the replies it may get, a reader none of the two marks in
`raced`.

- **CommitPathProofs, the epoch authority.** `TypeCorrect`,
  `VisibleNeverCoversInFlight`, `NoTicketForgotten`, `RefinesWatermark`. The
  difficulty is that a target is computed from a `visible` that may be stale when it
  is stored. The inductive invariant therefore speaks of the targets of threads that
  are about to store as well as of `visible`: everything up to them is resolved, and
  what was consumed from the sets lies below some such target. `LockedCommitsVisible`
  has an invariant of its own (`LockedClock`): when nobody drops the commit lock
  early, its holder has the last ticket and everything before it is visible, so the
  absorbing loop consumes exactly that ticket. Refinement maps `resolved` to the
  tickets no thread holds; `PublishAbsorb` and `AbandonAbsorb` are `Resolve`,
  `PublishVisible` is `Advance` or a stutter.
- **TxnValidationProofs.** `FirstCommitterWinsHolds`, `SerializableHolds`,
  `LiveConflictsKeptHolds`. The invariant says that for a transaction past its check
  that was not exposed to a window, any recorded conflict implies that the index
  version has moved past the loaded one, so the sequencer checks again, and that the
  index still holds every commit newer than a registered snapshot.
  `ClaimedPutsAreSerial` does without the windows' ghosts: claims of live sessions are
  disjoint, and what was valid for a claimed key stays valid because nobody else can
  be sequenced with it (`ClaimInv`).
- **CommitPathProofs, group commit.** `AcknowledgedSurvives`, `LeaderUnique`,
  `NoLostWakeUp`. The invariant orders acknowledged markers, `durable_seq`, the
  leader's result and the head, and ties `syncing` to the existence of a leader.
- **TableRecoveryProofs.** `OnlyMissedLost`, `ReadersFindCommits`,
  `ReadersSeeDurableRows`, `QuietTableIsSafe`, `RecoveryTypes`, for any transactions,
  table users, jobs, epochs and failing calls. A failure leaves `dropped` behind, so
  that the manifest's runs and the table's may differ by what is in it; `IInv` says
  where the rows of a commit are at every moment: in the live table or with a thread
  that will apply them, and what is only in memory is in the durable WAL past the
  replay gate (`Placed`); what a crash left brings everything back (`Down`); what the
  table lock, the commit lock and the replication barrier exclude meanwhile
  (`Locked`); and, without flushes, that runs and gate stay below the watermark
  (`Quiet`), which is why a lagging compaction cannot take the clock back.
- **IdempotencyLedgerProofs.** `CommitsAtMostOnce`, `ReceiptsAreReal`,
  `AcknowledgedIsRecorded`, `InDoubtKeepsKey`, for any calls, keys, requests and
  bounds. One call claims a key (`Exclusive`), which `check_and_reserve` keeps only
  because a claimed key has a record in memory and in the file (`Guarded`); nobody
  releases or completes another call's record (`Owned`); receipts, in the file too,
  since a restart reads it, are of durable commits (`Truthful`).
- **LockManagerProofs.** `LocksExclude`, `GrantsHold`, `NeverDeadlocked`,
  `NoLostGrant`, `NothingUntracked`, `LockTypes`, for any transactions, keys and
  priorities. Within an operation `Sound` holds after each of its parts (removing
  entries, purging, granting a prefix, dooming a victim, dropping holds): an entry is
  what its thread waits for and asks for more than the transaction holds, a fate
  belongs to a waiting thread, `queued_waiters` counts exactly the queued. `Settled`
  adds that every queue is served, `Resting` that the wait-for graph has no cycle. For
  the last: a set in which everybody waits for somebody contains a cycle (the longest
  path in it cannot leave itself), each turn of `detect_deadlocks` that finds one
  takes a waiter out, so after as many turns as there are transactions none is left;
  and skipping the search when `queued_waiters` is zero is right because the count is
  exact. `NeverDeadlocked` then needs that the graph has edges enough: a FIFO queue
  makes a waiter wait for everyone ahead, the graph only for those with a conflicting
  mode. The first member of a deadlock in a queue waits for a holder, and whoever is
  behind it waits for that holder or for it by an edge of the graph.
- **SnapshotRetentionProofs.** `NewReadersSeeTruth`, `RegisteredSnapshotsKept`,
  `WindowStaysQueryable`, `ScoredFilesKept`, `RetentionTypes`, for any committers,
  readers, windows and bounds. What is stored, with what is still to be applied,
  answers reads as all versions ever committed do (`Answers`), at every epoch before
  the first version a failure left out (`Intact`); a compaction in progress keeps
  every answer from its floor on and nobody whose answers are promised reads below it
  (`Merging`); once a generation has pinned its runs in time and a collector has read
  its pins, the collector knows the generation's files or has a floor not past its
  epoch (`Files`). That a merge picks the right versions rests on rows in memory being
  later than those in runs, and those of the memtable later than the tier's, since a
  failing spill takes the tier only (`Fresh`).
- **DistTxnProofs.** `CommitIsWholeHolds`, `ResolutionsFollowRecordHolds`,
  `AnswersAreFinalHolds`, `CommitTimestampsHold`, `IntentsExcludeHolds`,
  `RefinesAtomicCommit`, for any number of transactions, tablets and drivers. None of
  these is inductive: whether a commit is whole depends on what the proposals in
  flight and the drivers' memories say. `IInv` therefore describes every message
  (`NetOK`: a commit on its way names a transaction prepared everywhere, at earlier
  timestamps; a resolve carries the decision of a decided record) and every driver
  state (`DrvsOK`: a token is the prepare timestamp it was given), that a prepare is
  applied at most once (`PreparesSeen`), and that intents stay until the record is
  decided (`LiveHeld`). The largest timestamp of a record is that of a prepare or what
  some request observed, and not before all that was observed (`MarksOK`): a commit
  refused for it convicts two requests. `Grows` is what these facts depend on: a
  prepare timestamp, once given, and a decision never change. Driver steps change no
  replicated state, so one lemma (`DriverStep`) covers them; the groups' commands have
  a lemma each. In the refinement the record's decision is `CommitTxn` or `AbortTxn`,
  an accepted prepare is `Lock`, a resolution of held intents is `Leave`, all else
  stutters.
- **TabletSplitProofs.** `OneOwnerAlways`, `MovedWholeAlways`, `NoLeftoversAlways`,
  `SplitTypes`, for any number of splits, writes, stops and restarts and any
  retention. The three properties are about the descriptors and rows of the moment;
  whether they stay true depends on how far the driver is and on commands in the meta
  log whose driver gave up long ago. `IInv` therefore gives the driver a place
  (`Labels`, `At`: the instructions that remain) and says
  - for each command in the queue, in which state it can still pass (`CommandOK`): a
    mark or a restore only at the generation it was meant for, the publication of an
    earlier split never, since its children are absent; only removals of the source
    follow one (`DropsLast`), and a command the driver waits for is the last
    (`Waits`);
  - who serves: the source while it is up, otherwise the children of the last split,
    less those an abort removed after their publication (`Owned`);
  - what the record promises of the meta state (`Progress`), what an undisturbed split
    leaves (`Clean`), and what a place has reached (`Placed`, `Reached`, `Pinned`);
  - what the children hold (`Copied`, `Served`): the rows at the pin after the build,
    those of the first catch-up read after the catch-up, key by key while the deltas
    are being applied, with the keys written since excepted.

  Each instruction moves the driver to the next place and has a lemma; so has each
  kind of meta command. `ApplyMeta` takes the oldest command off the queue and applies
  or rejects it: `Applying` is what is known of it and of those that stay, `Settles`
  what the meta state keeps whatever it does. `SourceTypes`, an invariant of its own,
  is what the pin needs: the epoch it fixes is one the replica has applied
  (`EpochReached`). `SplitTypes` has a second
  invariant (`Counted`): every mark and publication raises a generation, and the
  number of splits bounds by how much, in each state of a descriptor.

Recursive definitions (`Without`, `DetectDeadlocks`) and longest or shortest witnesses
(`Prefix`, a path in the wait-for graph) are reasoned about through least
counterexamples: the well-foundedness of the naturals gives a set of them its least
member (`HasMin`), and no induction rule is needed.

Every invariant, action property and refinement that a passing run checks has its
theorem. Only model-checked: liveness (`EveryWaiterReturns`, `EveryWaitEnds`,
`OrphansResolved`, `EverySplitEnds`), which needs fairness and is out of the prover's
reach.

## 5. What is left out, and the plan

Left out of the present modules: foreign keys, triggers, external tables and
materialized views of a transaction; ReadCommitted re-pinning; spilled (large)
transactions; WAL segment rotation; DDL; tables with a private WAL; row TTL; index
checkpoints; backup pins; `dist_ssi.rs` and `global_constraints.rs`; merge (`merge.rs`
mirrors `split.rs` with two sources); typed tablets, which split refuses; the local
copies of tablet descriptors and `sync_hosted_tablets`, an operator's call that
creates and tears down a node's replicas after the meta state; the bound on remembered
command ids. Data formats, search structures and SQL are computation over data and are
not modelled; bindings and tools are marshalling. These, with the storage formats, are
most of the repository's lines: the models are of the concurrent and crash-sensitive
core.

Next, in order:

1. Spilled transactions in `TableRecovery`.
2. Lifecycle of a storage core: admission, poison, drain, close.
3. Persistent jobs; tablet merge; the consensus crate's log storage.
