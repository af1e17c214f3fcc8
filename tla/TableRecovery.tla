--------------------------- MODULE TableRecovery ----------------------------
(***************************************************************************)
(* One mounted table of a Database, its shared WAL and its manifest:       *)
(* transactions (database.rs, commit path and publish phase), Table::commit*)
(* and Table::flush (engine.rs), Table::compact (compaction.rs),           *)
(* Database::checkpoint, a crash, and the recovery of Database::open.      *)
(*                                                                         *)
(* Data: a commit that writes the table is its epoch; memtable, mutable-run*)
(* tier and sorted runs are the sets of epochs whose rows they hold.  The  *)
(* durable state is the WAL up to `durable`, and the manifest with the     *)
(* runs it references.  publish_in_order is one step here (EpochAuthority  *)
(* has its interleavings), and so is the group commit that makes every     *)
(* appended record durable.  A failed append or fsync, and a failed        *)
(* manifest write of a commit or a compaction, poison the handle: nothing  *)
(* commits until it is reopened, which is a Crash here.  Every other       *)
(* failure leaves the table in use and is an action of its own (TxnFails,  *)
(* FlushFails, CompactFails, CheckpointResetFails, GcReapFails, GiveUp).   *)
(***************************************************************************)
EXTENDS Integers, FiniteSets

CONSTANTS
    Txns,       \* threads that commit cross-table transactions
    Owners,     \* threads that use the table handle, or checkpoint
    JobSets,    \* the sets of jobs the owners of one behaviour may run
    MaxEpoch,   \* bound on commits, for model checking
    MaxFaults,  \* bound on calls that fail, for model checking
    NoThread

AllJobs == {"commit", "flush", "compact", "checkpoint", "gc"}

ASSUME RecoveryAssumptions ==
    /\ Txns \cap Owners = {} /\ NoThread \notin Txns \cup Owners
    /\ JobSets \subseteq SUBSET AllJobs
    /\ MaxEpoch \in Nat /\ MaxFaults \in Nat

Threads == Txns \cup Owners

VARIABLES
    mode,                         \* "open", "down" or "refused" (open failed)
    assigned, visible, resolved,  \* EpochAuthority
    wal,                          \* commit markers with what they carry
    durable,                      \* markers up to here survive a crash
    rotated,                      \* epochs in segments that are not active
    manifest,                     \* the durable _mf file
    memtable, tier, runs, flushed, staged,   \* the live Table
    tableLock, commitLock, barrier,
    pc, job, epoch,               \* per thread
    acked,                        \* epochs of writes whose caller saw success
    overtaken,                    \* history: see FlushSpill
    dropped,                      \* history: see FlushFails and TxnFails
    faults,                       \* failing calls still to come
    allowed                       \* what the owners do: a set in JobSets

authority == <<assigned, visible, resolved>>
disk  == <<wal, durable, rotated, manifest>>
table == <<memtable, tier, runs, flushed, staged>>
locks == <<tableLock, commitLock, barrier>>
vars  == <<mode, assigned, visible, resolved, wal, durable, rotated, manifest,
           memtable,
           tier, runs, flushed, staged, tableLock, commitLock, barrier, pc, job,
           epoch, acked, overtaken, dropped, faults, allowed>>

Watermark == INSTANCE EpochWatermark

Kinds == {"rows", "empty"}
Marker(e, k) == [epoch |-> e, kind |-> k]
Run(e, s) == [created |-> e, rows |-> s]
RowsOf(rs) == UNION {r.rows : r \in rs}
Manifest(c, f, rs) == [current |-> c, flushed |-> f, runs |-> rs]
MaxOf(S) == CHOOSE m \in S : \A n \in S : n <= m

Live == memtable \cup tier \cup RowsOf(runs)
Written == {w.epoch : w \in {v \in wal : v.kind = "rows"}}
Missed == overtaken \cup dropped

Init ==
    /\ mode = "open"
    /\ assigned = 0 /\ visible = 0 /\ resolved = {}
    /\ wal = {} /\ durable = 0 /\ rotated = {} /\ manifest = Manifest(0, 0, {})
    /\ memtable = {} /\ tier = {} /\ runs = {} /\ flushed = 0 /\ staged = FALSE
    /\ tableLock = NoThread /\ commitLock = NoThread /\ barrier = NoThread
    /\ pc = [t \in Threads |-> "idle"]
    /\ job = [t \in Threads |-> "commit"]
    /\ epoch = [t \in Threads |-> 0]
    /\ acked = {} /\ overtaken = {} /\ dropped = {}
    /\ faults = MaxFaults
    /\ allowed \in JobSets

\* Nothing in memory, so a checkpoint need not flush the table.
Clean == ~staged /\ memtable = {} /\ tier = {}

\* A call fails on an I/O error.
Fault == faults > 0 /\ faults' = faults - 1

Goto(t, l) == pc' = [pc EXCEPT ![t] = l]

-----------------------------------------------------------------------------
(* Group commit and the watermark *)

\* The leader's group_sync: everything appended so far becomes durable.
GroupSync ==
    /\ mode = "open" /\ durable < assigned
    /\ durable' = assigned
    /\ UNCHANGED <<allowed, rotated, mode, authority, wal, manifest, table,
                   locks, pc, job, epoch, acked, overtaken, dropped, faults>>

\* publish_in_order(e), undisturbed: resolve the ticket and absorb.
PublishInOrder(e) ==
    /\ resolved' = resolved \cup {e}
    /\ \E n \in visible..assigned :
          /\ ((visible + 1)..n) \subseteq resolved'
          /\ (n + 1) \notin resolved'
          /\ visible' = n
    /\ UNCHANGED assigned

-----------------------------------------------------------------------------
(* A cross-table transaction *)

\* The sequencer: take the epoch and append under commit and WAL lock, then
\* drop the commit lock.  The replication barrier is held shared throughout.
TxnAppend(t) ==
    /\ mode = "open" /\ pc[t] = "idle"
    /\ barrier = NoThread /\ commitLock = NoThread
    /\ assigned < MaxEpoch /\ Watermark!Assign
    /\ wal' = wal \cup {Marker(assigned + 1, "rows")}
    /\ epoch' = [epoch EXCEPT ![t] = assigned + 1]
    /\ Goto(t, "appended")
    /\ UNCHANGED <<allowed, rotated, mode, durable, manifest, table, locks,
                   job, acked, overtaken, dropped, faults>>

\* Mutant: the publish phase does not wait for the group commit.
TxnApplyEarly(t) ==
    /\ pc[t] = "appended" /\ tableLock = NoThread
    /\ memtable' = memtable \cup {epoch[t]}
    /\ Goto(t, "applied")
    /\ UNCHANGED <<allowed, mode, authority, disk, tier, runs, flushed,
                   staged, locks, job, epoch, acked, overtaken, dropped, faults>>

\* Publish phase, under the table lock: apply the rows.
TxnApply(t) ==
    /\ pc[t] = "appended" /\ durable >= epoch[t] /\ tableLock = NoThread
    /\ memtable' = memtable \cup {epoch[t]}
    /\ Goto(t, "applied")
    /\ UNCHANGED <<allowed, mode, authority, disk, tier, runs, flushed,
                   staged, locks, job, epoch, acked, overtaken, dropped, faults>>

\* Then the manifest is rewritten at the transaction's epoch, under the lock
\* taken a second time.
TxnPersist(t) ==
    /\ pc[t] = "applied" /\ tableLock = NoThread
    /\ manifest' = Manifest(epoch[t], flushed, runs)
    /\ dropped' = dropped \ RowsOf(runs)
    /\ Goto(t, "persisted")
    /\ UNCHANGED <<allowed, rotated, mode, authority, wal, durable, table,
                   locks, job, epoch, acked, overtaken, faults>>

\* finish_durable_publish: the epoch is published and the commit returns.
TxnPublish(t) ==
    /\ pc[t] = "persisted"
    /\ PublishInOrder(epoch[t])
    /\ acked' = acked \cup {epoch[t]}
    /\ Goto(t, "idle")
    /\ UNCHANGED <<allowed, mode, disk, table, locks, job, epoch, overtaken,
                   dropped, faults>>

\* Or the idempotency ledger cannot record the receipt of the durable commit:
\* the call returns before the rows are applied, nothing is poisoned, and the
\* epoch guard resolves the ticket all the same.
TxnFails(t) ==
    /\ Fault
    /\ pc[t] = "appended" /\ durable >= epoch[t]
    /\ PublishInOrder(epoch[t])
    /\ dropped' = dropped \cup {epoch[t]}
    /\ Goto(t, "idle")
    /\ UNCHANGED <<allowed, mode, disk, table, locks, job, epoch, acked,
                   overtaken>>

-----------------------------------------------------------------------------
(* The table handle: put, commit, flush *)

\* Table::put on a mounted table: rows staged until the next commit.
StagePut ==
    /\ mode = "open" /\ tableLock = NoThread /\ ~staged
    /\ staged' = TRUE
    /\ UNCHANGED <<allowed, mode, authority, disk, memtable, tier, runs,
                   flushed, locks, pc, job, epoch, acked, overtaken, dropped, faults>>

\* An owner locks the table.  A checkpoint first takes the replication barrier
\* exclusively, so no transaction is between its append and its return.
Lock(o, j) ==
    /\ mode = "open" /\ pc[o] = "idle" /\ tableLock = NoThread
    /\ j = "checkpoint" => barrier = NoThread /\ \A t \in Txns : pc[t] = "idle"
    /\ tableLock' = o
    /\ barrier' = IF j = "checkpoint" THEN o ELSE barrier
    /\ job' = [job EXCEPT ![o] = j]
    /\ Goto(o, IF j = "compact" THEN "compacting" ELSE "locked")
    /\ UNCHANGED <<allowed, mode, authority, disk, table, commitLock, epoch,
                   acked, overtaken, dropped, faults>>

\* commit_shared: seal a commit, with the staged rows if there are any, and
\* keep the commit lock.
Seal(o) ==
    /\ pc[o] = "locked" /\ commitLock = NoThread
    /\ job[o] = "checkpoint" => ~Clean
    /\ assigned < MaxEpoch /\ Watermark!Assign
    /\ wal' = wal \cup {Marker(assigned + 1, IF staged THEN "rows" ELSE "empty")}
    /\ epoch' = [epoch EXCEPT ![o] = assigned + 1]
    /\ commitLock' = o
    /\ Goto(o, "sealed")
    /\ UNCHANGED <<allowed, rotated, mode, durable, manifest, table,
                   tableLock, barrier, job, acked, overtaken, dropped, faults>>

\* ... once durable: apply, persist the manifest, publish, release it.
CommitShared(o) ==
    /\ pc[o] = "sealed" /\ durable >= epoch[o]
    /\ memtable' = IF staged THEN memtable \cup {epoch[o]} ELSE memtable
    /\ staged' = FALSE
    /\ manifest' = Manifest(epoch[o], flushed, runs)
    /\ dropped' = dropped \ RowsOf(runs)
    /\ PublishInOrder(epoch[o])
    /\ commitLock' = NoThread
    /\ Goto(o, "committed")
    /\ UNCHANGED <<allowed, rotated, mode, wal, durable, tier, runs, flushed,
                   tableLock, barrier, job, epoch, acked, overtaken, faults>>

\* The call returns: the lock is dropped and its write, if any, acknowledged.
Finish(o) ==
    /\ tableLock' = NoThread
    /\ barrier' = IF barrier = o THEN NoThread ELSE barrier
    /\ Goto(o, "idle")

Acknowledge(o) == acked' = acked \cup ({epoch[o]} \cap Written)

ReturnCommit(o) ==
    /\ pc[o] = "committed" /\ job[o] = "commit"
    /\ Acknowledge(o) /\ Finish(o)
    /\ UNCHANGED <<allowed, mode, authority, disk, table, commitLock, job,
                   epoch, overtaken, dropped, faults>>

\* flush below the spill threshold: the memtable drains into the tier.
FlushDrain(o) ==
    /\ pc[o] = "committed" /\ job[o] = "flush"
    /\ tier' = tier \cup memtable /\ memtable' = {}
    /\ Acknowledge(o) /\ Finish(o)
    /\ UNCHANGED <<allowed, mode, authority, disk, runs, flushed, staged,
                   commitLock, job, epoch, overtaken, dropped, faults>>

\* The commits that a replay gate at `gate` passes although their rows are not
\* in the table yet.
Overtaken(gate) ==
    overtaken \cup {e \in Written : e < gate /\ e \notin Live \cup dropped}

\* flush past the threshold: everything in memory becomes a run, and the
\* replay gate moves to the flush's own epoch (spill_mutable_run,
\* mark_flushed, persist_manifest).
FlushSpill(o) ==
    /\ pc[o] = "committed" /\ job[o] \in {"flush", "checkpoint"}
    /\ tier \cup memtable # {}
    /\ runs' = runs \cup {Run(epoch[o], tier \cup memtable)}
    /\ overtaken' = Overtaken(epoch[o]) \ RowsOf(runs')
    /\ dropped' = dropped \ RowsOf(runs')
    /\ tier' = {} /\ memtable' = {}
    /\ flushed' = epoch[o]
    /\ manifest' = Manifest(epoch[o], flushed', runs')
    /\ Acknowledge(o)
    /\ IF job[o] = "flush" THEN Finish(o)
       ELSE Goto(o, "compacting") /\ UNCHANGED <<tableLock, barrier>>
    /\ UNCHANGED <<allowed, rotated, mode, authority, wal, durable, staged,
                   commitLock, job, epoch, faults>>

FlushExits == {"id", "run", "gate", "manifest", "index"}

\* The same, failing at one of its exits, none of which poisons: no run id is
\* left; the tier is drained and the run is not written; the run is linked but
\* the gate does not move; it moves but the manifest is not written; the
\* manifest is written but the index work after it fails.  The call, and a
\* checkpoint around it, returns the error.  `dropped` remembers the rows that
\* this leaves in no tier and in no run of the manifest.
FlushFails(o, exit) ==
    /\ Fault
    /\ pc[o] = "committed" /\ job[o] \in {"flush", "checkpoint"}
    /\ tier \cup memtable # {}
    /\ tier' = (IF exit = "id" THEN tier \cup memtable ELSE {}) /\ memtable' = {}
    /\ runs' = IF exit \in {"id", "run"} THEN runs
               ELSE runs \cup {Run(epoch[o], tier \cup memtable)}
    /\ IF exit \in {"id", "run", "gate"} THEN UNCHANGED <<flushed, overtaken>>
       ELSE flushed' = epoch[o] /\ overtaken' = Overtaken(epoch[o]) \ RowsOf(runs')
    /\ manifest' = IF exit = "index" THEN Manifest(epoch[o], flushed', runs')
                   ELSE manifest
    /\ dropped' = IF exit = "id" THEN dropped
                  ELSE (dropped \cup tier \cup memtable) \ RowsOf(manifest'.runs)
    /\ Finish(o)
    /\ UNCHANGED <<allowed, rotated, mode, authority, wal, durable, staged,
                   commitLock, job, epoch, acked>>

-----------------------------------------------------------------------------
(* Compaction and checkpoint *)

\* Where a compaction leaves its owner: it returns, or the checkpoint goes on.
AfterCompaction(o) ==
    IF job[o] = "compact" THEN Finish(o)
    ELSE Goto(o, "resetting") /\ UNCHANGED <<tableLock, barrier>>

\* What a compaction does first when no rows are staged: the committed rows of
\* the memtable join the tier.
DrainCommitted(e) ==
    IF staged THEN UNCHANGED <<tier, memtable>>
    ELSE LET kept == {r \in memtable : r > e} IN
         tier' = tier \cup (memtable \ kept) /\ memtable' = kept

CompactAt(o, e) ==
    /\ pc[o] = "compacting"
    /\ LET kept == {r \in memtable : r > e}
           rows == IF staged THEN RowsOf(runs)
                   ELSE RowsOf(runs) \cup tier \cup (memtable \ kept) IN
       IF Cardinality(runs) < 2
       THEN /\ DrainCommitted(e)
            /\ UNCHANGED <<runs, flushed, manifest, overtaken, dropped>>
       ELSE /\ runs' = {Run(e, rows)}
            /\ IF staged THEN UNCHANGED <<tier, memtable, flushed>>
               ELSE tier' = {} /\ memtable' = kept /\ flushed' = e
            /\ manifest' = Manifest(e, flushed', runs')
            /\ overtaken' = overtaken \ rows /\ dropped' = dropped \ rows
    /\ AfterCompaction(o)
    /\ UNCHANGED <<allowed, rotated, mode, authority, wal, durable, staged,
                   commitLock, job, epoch, acked, faults>>

\* Mutant: the gate moves to the last assigned epoch.
CompactAssigned(o) == CompactAt(o, assigned)

\* Table::compact at the visible epoch: fewer than two runs only drain the
\* committed memtable rows; otherwise one run replaces all of them.  With rows
\* staged the memory tiers stay out of it and the gate stays put.
Compact(o) == CompactAt(o, visible)

\* It fails, or is cancelled, before the replacement run is published: only the
\* drain remains.
CompactFails(o) ==
    /\ Fault
    /\ pc[o] = "compacting"
    /\ DrainCommitted(visible)
    /\ Finish(o)
    /\ UNCHANGED <<allowed, mode, authority, disk, runs, flushed, staged,
                   commitLock, job, epoch, acked, overtaken, dropped>>

\* A checkpoint does not flush a table with nothing in memory.
CheckpointClean(o) ==
    /\ pc[o] = "locked" /\ job[o] = "checkpoint"
    /\ Clean
    /\ Goto(o, "compacting")
    /\ UNCHANGED <<allowed, mode, authority, disk, table, locks, job, epoch,
                   acked, overtaken, dropped, faults>>

\* reset_after_checkpoint: a synced empty WAL replaces every segment ...
CheckpointReset(o) ==
    /\ pc[o] = "resetting"
    /\ wal' = {} /\ durable' = assigned /\ rotated' = {}
    /\ Goto(o, "manifesting")
    /\ UNCHANGED <<allowed, mode, authority, manifest, table, locks, job,
                   epoch, acked, overtaken, dropped, faults>>

\* ... or it fails once the new segment is there, with the oldest segments
\* deleted and the others left behind ...
CheckpointResetFails(o) ==
    /\ Fault
    /\ pc[o] = "resetting"
    /\ \E cut \in 0..MaxEpoch : wal' = {w \in wal : w.epoch > cut}
    /\ durable' = assigned /\ rotated' = {w.epoch : w \in wal'}
    /\ Finish(o)
    /\ UNCHANGED <<allowed, mode, authority, manifest, table, commitLock, job,
                   epoch, acked, overtaken, dropped>>

\* ... and the manifest is written once more at the visible epoch.
CheckpointManifest(o) ==
    /\ pc[o] = "manifesting"
    /\ manifest' = Manifest(visible, flushed, runs)
    /\ dropped' = dropped \ RowsOf(runs)
    /\ Finish(o)
    /\ UNCHANGED <<allowed, rotated, mode, authority, wal, durable, table,
                   commitLock, job, epoch, acked, overtaken, faults>>

\* A call that fails where it has nothing to undo: before its commit, before
\* the reset of the WAL, or before the last manifest write.
GiveUp(o) ==
    /\ Fault
    /\ pc[o] \in {"locked", "resetting", "manifesting"}
    /\ Finish(o)
    /\ UNCHANGED <<allowed, mode, authority, disk, table, commitLock, job,
                   epoch, acked, overtaken, dropped>>

-----------------------------------------------------------------------------
(* WAL garbage collection *)

\* Mutant: rows in the mutable-run tier are taken for durable.
GcCheckMemtable(o) ==
    /\ mode = "open" /\ pc[o] = "idle" /\ tableLock = NoThread
    /\ "gc" \in allowed /\ rotated # {}
    /\ memtable = {}
    /\ Goto(o, "reaping")
    /\ UNCHANGED <<allowed, mode, authority, disk, table, locks, job, epoch,
                   acked, overtaken, dropped, faults>>

\* Database::gc looks at the table, under its lock, and finds no rows in
\* memory.  Rows staged for a commit do not count ...
GcCheck(o) ==
    /\ mode = "open" /\ pc[o] = "idle" /\ tableLock = NoThread
    /\ "gc" \in allowed /\ rotated # {}
    /\ memtable = {} /\ tier = {}
    /\ Goto(o, "reaping")
    /\ UNCHANGED <<allowed, mode, authority, disk, table, locks, job, epoch,
                   acked, overtaken, dropped, faults>>

\* ... and later, whatever was committed since, syncs the WAL and deletes the
\* segments that are not active.
GcReap(o) ==
    /\ pc[o] = "reaping"
    /\ wal' = {w \in wal : w.epoch \notin rotated}
    /\ rotated' = {} /\ durable' = assigned
    /\ Goto(o, "idle")
    /\ UNCHANGED <<allowed, mode, authority, manifest, table, locks, job,
                   epoch, acked, overtaken, dropped, faults>>

\* It fails half-way through the segments, oldest first.
GcReapFails(o) ==
    /\ Fault
    /\ pc[o] = "reaping"
    /\ \E cut \in 0..MaxEpoch :
          /\ wal' = {w \in wal : w.epoch \notin rotated \/ w.epoch > cut}
          /\ rotated' = {e \in rotated : e > cut}
    /\ durable' = assigned
    /\ Goto(o, "idle")
    /\ UNCHANGED <<allowed, mode, authority, manifest, table, locks, job,
                   epoch, acked, overtaken, dropped>>

-----------------------------------------------------------------------------
(* Crash and recovery *)

\* The process dies: the live table is gone, and so is the WAL past the head.
Crash ==
    /\ mode = "open" /\ mode' = "down"
    /\ wal' = {w \in wal : w.epoch <= durable}
    /\ memtable' = {} /\ tier' = {} /\ runs' = {} /\ flushed' = 0 /\ staged' = FALSE
    /\ tableLock' = NoThread /\ commitLock' = NoThread /\ barrier' = NoThread
    /\ pc' = [t \in Threads |-> "idle"]
    /\ UNCHANGED <<allowed, rotated, authority, durable, manifest, job, epoch,
                   acked, overtaken, dropped, faults>>

\* The preflight of Database::open.
Accepted(m) ==
    /\ m.flushed <= m.current
    /\ \A r \in m.runs : r.created <= m.current

OpenRefused ==
    /\ mode = "down" /\ ~Accepted(manifest)
    /\ mode' = "refused"
    /\ UNCHANGED <<allowed, authority, disk, table, locks, pc, job, epoch,
                   acked, overtaken, dropped, faults>>

RecoveredEpoch == MaxOf({manifest.current} \cup {w.epoch : w \in wal})

\* recover_shared_wal: replay the rows past the gate into the memtable,
\* rewrite the manifest if there were any, and raise the authority.
Recover(gate, last) ==
    /\ mode = "down" /\ Accepted(manifest)
    /\ mode' = "open"
    /\ LET replay == {e \in Written : e > gate} IN
       /\ memtable' = replay /\ dropped' = dropped \ replay
       /\ manifest' = [manifest EXCEPT !.current = MaxOf({manifest.current} \cup replay)]
    /\ runs' = manifest.runs /\ flushed' = manifest.flushed
    /\ assigned' = last /\ visible' = last /\ resolved' = 1..last
    /\ durable' = last /\ rotated' = {w.epoch : w \in wal}
    /\ UNCHANGED <<allowed, wal, tier, staged, locks, pc, job, epoch, acked,
                   overtaken, faults>>

\* Mutant: the manifest's current epoch is taken for its replay gate.
OpenPastCurrent == Recover(manifest.current, RecoveredEpoch)

Open == Recover(manifest.flushed, RecoveredEpoch)

Next ==
    \/ GroupSync \/ StagePut \/ Crash \/ OpenRefused \/ Open
    \/ \E t \in Txns : TxnAppend(t) \/ TxnApply(t) \/ TxnPersist(t) \/ TxnPublish(t)
                      \/ TxnFails(t)
    \/ \E o \in Owners :
         \/ \E j \in allowed \ {"gc"} : Lock(o, j)
         \/ Seal(o) \/ CommitShared(o) \/ ReturnCommit(o)
         \/ FlushDrain(o) \/ FlushSpill(o) \/ \E x \in FlushExits : FlushFails(o, x)
         \/ Compact(o) \/ CompactFails(o)
         \/ CheckpointClean(o) \/ CheckpointReset(o) \/ CheckpointResetFails(o)
         \/ CheckpointManifest(o) \/ GiveUp(o)
         \/ GcCheck(o) \/ GcReap(o) \/ GcReapFails(o)

Spec == Init /\ [][Next]_vars

-----------------------------------------------------------------------------
Epochs == 1..MaxEpoch
RunSet == [created : 0..MaxEpoch, rows : SUBSET Epochs]

\* Types: clock, WAL, manifest, the tiers of the table and its locks; the
\* visible epoch is one that was assigned (publish_in_order, Database::open).
TypeOK ==
    /\ mode \in {"open", "down", "refused"}
    /\ assigned \in 0..MaxEpoch /\ visible \in 0..assigned
    /\ resolved \subseteq 1..assigned
    /\ wal \subseteq [epoch : Epochs, kind : Kinds] /\ durable \in 0..MaxEpoch
    /\ rotated \subseteq Epochs
    /\ manifest.current \in 0..MaxEpoch /\ manifest.flushed \in 0..MaxEpoch
    /\ manifest.runs \subseteq RunSet
    /\ memtable \subseteq Epochs /\ tier \subseteq Epochs /\ runs \subseteq RunSet
    /\ flushed \in 0..MaxEpoch /\ staged \in BOOLEAN
    /\ {tableLock, commitLock, barrier} \subseteq Owners \cup {NoThread}
    /\ acked \subseteq Epochs /\ Missed \subseteq Epochs
    /\ faults \in 0..MaxFaults
    /\ allowed \in JobSets

\* What Database::open would bring back if the process died now.
Recoverable ==
    RowsOf(manifest.runs) \cup
        {e \in Written : e <= durable /\ e > manifest.flushed}

\* Every acknowledged write survives a crash: it is in a run the manifest
\* references, or in the durable WAL past the replay gate (manifest.rs:
\* records up to flushed_epoch "are already represented by runs").
AckedRecoverable == acked \subseteq Recoverable

\* The manifest a crash would leave is one Database::open accepts
\* (database.rs, Database::check: flushed_epoch past current_epoch is
\* "impossible").
ManifestAccepted == Accepted(manifest)

\* The only acknowledged writes a crash can lose are those a flush's replay
\* gate passed while they were appended but not applied, and those a failed
\* spill drained out of the table or a failed manifest write left out of the
\* manifest; and none of these once a referenced run or a replay has its rows
\* again.
LostOnlyIfMissed == acked \ Missed \subseteq Recoverable

\* A reader at the visible epoch finds every commit up to it in the table:
\* publication never precedes the apply, and neither flush, compaction,
\* checkpoint nor recovery drops an applied commit.  Excepted are the commits
\* the gate overtook and those a failed spill, or a failed idempotency record,
\* left out.
VisibleRowsLive ==
    mode = "open" =>
        \A e \in (Written \cup acked) \ Missed : e <= visible => e \in Live

\* No reader sees a commit that a crash would take back, and recovery brings
\* back no commit whose marker was not durable: what the table holds is in a
\* referenced run or in the durable WAL past the gate.
LiveRowsDurable == Live \ Missed \subseteq Recoverable

\* The recovered clock covers every acknowledged commit, so that no later
\* commit reuses its epoch (database.rs, recover_shared_wal: the authority is
\* raised "so the next commit continues monotonically").
EpochsNotReused == mode = "open" => \A e \in acked : e <= assigned

\* As long as nobody flushes the table outside a checkpoint (which excludes
\* transactions by the replication barrier), commits, compactions, checkpoints
\* and WAL collections, with a crash or a failure anywhere in them, lose no
\* acknowledged write but what a checkpoint's own failing spill dropped, never
\* leave a manifest that the preflight of Database::open refuses, although each
\* of them writes it at an epoch of its own, and never let the recovered clock
\* hand out an acknowledged epoch again, not even after a crash between a
\* checkpoint's WAL reset and its last manifest write.
QuietTableSafe ==
    "flush" \notin allowed =>
        acked \ dropped \subseteq Recoverable /\ ManifestAccepted /\ EpochsNotReused
=============================================================================
