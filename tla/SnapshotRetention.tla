-------------------------- MODULE SnapshotRetention --------------------------
(***************************************************************************)
(* Who may still read a row version, and who reclaims it: snapshots,       *)
(* read generations and transactions (database.rs, engine.rs, txn.rs), the *)
(* registries they pin their epoch in (retention.rs), the rolling history  *)
(* window, compaction (compaction.rs) and the two collectors of retired    *)
(* run files (Database::gc, Table::gc_versions).                           *)
(*                                                                         *)
(* Data: one row of one mounted WITHOUT ROWID table, where a put of the    *)
(* same key is a version of the same row.  A version is the epoch of the   *)
(* commit that wrote it; the row's tombstones are the epochs in `dead`.    *)
(* Commit timestamps are handed out under the commit lock with the epochs  *)
(* and in their order, so the timestamp of an epoch is the epoch itself,   *)
(* and the live clock stands after every epoch assigned so far.            *)
(*                                                                         *)
(* The table lock is held by a compaction and by scored_read_generation    *)
(* from their first to their last step; the other operations on the table  *)
(* are single steps.  Publication is one step (EpochAuthority has its      *)
(* interleavings).                                                         *)
(***************************************************************************)
EXTENDS Integers, FiniteSets

CONSTANTS
    Committers,   \* threads that commit cross-table transactions
    Readers,      \* snapshots, generations and transactions that read
    Windows,      \* history windows to change between, 0 is off
    MaxEpoch,     \* bound on commits
    MaxRun        \* bound on run ids

\* The bounds leave room for the table of Init.
ASSUME RetentionAssumption ==
    /\ Windows \subseteq Nat
    /\ MaxEpoch \in Nat /\ MaxEpoch >= 4 /\ MaxRun \in Nat /\ MaxRun >= 2
    /\ Readers \cap {"ahead", "history"} = {}

VARIABLES
    assigned, visible, resolved,   \* EpochAuthority
    ledger,          \* epochs whose commit timestamp is recorded
    versions, dead,  \* versions of the row ever committed; the tombstones
    dropped,         \* versions that a failure left out of the table
    memtable, tier,  \* versions in the table's memory tiers
    runs,            \* its sorted runs, [id, rows]
    lastRun,         \* the run id last allocated
    retiring,        \* superseded runs, [id, epoch], whose files are kept
    reaped,          \* those whose files are deleted
    committing,      \* the epoch each committer has in flight, 0 if none
    applied,         \* committers that have applied theirs to the table
    history,         \* the window: [epochs, start]
    setting,         \* a set_history_retention_epochs call in progress
    compaction,      \* a compaction in progress
    collector,       \* a Database::gc in progress
    pc,              \* what each reader holds
    snap, upto,      \* its snapshot: epoch, and timestamp
    gen,             \* ids of the runs of its read generation
    raced            \* history: windows a compaction fell into, see Races

authority == <<assigned, visible, resolved>>
data == <<ledger, versions, dead, dropped>>
table == <<memtable, tier, runs, lastRun, retiring, reaped>>
txns == <<committing, applied>>
readers == <<pc, snap, upto, gen>>
vars == <<assigned, visible, resolved, ledger, versions, dead, dropped,
          memtable, tier, runs, lastRun, retiring, reaped, committing, applied, history,
          setting, compaction, collector, pc, snap, upto, gen, raced>>

Watermark == INSTANCE EpochWatermark

Off == [on |-> FALSE]
Scoring(r) == pc[r] \in {"locked", "registered"}
Unlocked == compaction = Off /\ \A r \in Readers : ~Scoring(r)

-----------------------------------------------------------------------------
(* What a snapshot finds, and what compaction keeps for it *)

RowsOf(rs) == UNION {r.rows : r \in rs}
Stored == memtable \cup tier \cup RowsOf(runs)

\* The newest of the versions in S up to e; nothing if it is a tombstone.
Reads(S, e) ==
    {v \in S \ dead : v <= e /\ \A w \in S : w <= e => w <= v}

\* The oldest of a set of epochs, as a set: empty if there is none.
Oldest(S) == {e \in S : \A f \in S : e <= f}

\* The epoch guaranteed by the history window (history_floor).
HistoryFloor ==
    IF history.epochs = 0 THEN {}
    ELSE {IF history.start > visible - history.epochs
          THEN history.start ELSE visible - history.epochs}

\* Epochs in the SnapshotRegistry, and in the table's PinRegistry.
Registered ==
    {snap[r] : r \in {s \in Readers : pc[s] \in {"pinned", "registered", "scored"}}}
Pinned == {snap[r] : r \in {s \in Readers : pc[s] \in {"scored", "generation"}}}

\* min_active_snapshot: the floor of compaction, if anything is pinned.
MinActive == Oldest(Registered \cup Pinned \cup HistoryFloor)

\* SnapshotRegistry::min_active: the floor of Database::gc.
MinRegistered == IF Registered = {} THEN {visible} ELSE Oldest(Registered)

\* Mutant: the version visible at the floor itself is not kept.
SelectKeepAbove(S, floor) ==
    IF floor = {} THEN {v \in S \ dead : \A w \in S : w <= v}
    ELSE {v \in S : \A f \in floor : v >= f}

\* select_keep: every version since the floor and the boundary version that is
\* visible at it, or without a floor the newest alone; a tombstone with
\* nothing after it goes too.
SelectKeep(S, floor) ==
    LET recent == {v \in S : \A f \in floor : v >= f}
        boundary == {v \in S \ recent : \A w \in S \ recent : w <= v}
    IN  IF floor = {} THEN {v \in S \ dead : \A w \in S : w <= v}
        ELSE recent \cup IF recent \cap floor # {} THEN {}
                         ELSE IF recent = {} THEN boundary \ dead ELSE boundary

-----------------------------------------------------------------------------
\* A table whose row was committed (epochs 1 and 3) and flushed (2 and 4) twice.
Init ==
    /\ assigned = 4 /\ visible = 4 /\ resolved = 1..4
    /\ ledger = {} /\ versions = {1, 3} /\ dead = {} /\ dropped = {}
    /\ memtable = {} /\ tier = {}
    /\ runs = {[id |-> 1, rows |-> {1}], [id |-> 2, rows |-> {3}]} /\ lastRun = 2
    /\ retiring = {} /\ reaped = {}
    /\ committing = [c \in Committers |-> 0] /\ applied = {}
    /\ history = [epochs |-> 0, start |-> 0] /\ setting = Off
    /\ compaction = Off /\ collector = Off
    /\ pc = [r \in Readers |-> "idle"]
    /\ snap = [r \in Readers |-> 0] /\ upto = [r \in Readers |-> 0]
    /\ gen = [r \in Readers |-> {}]
    /\ raced = {}

-----------------------------------------------------------------------------
(* Commits *)

Record(e, del) ==
    /\ versions' = versions \cup {e}
    /\ dead' = IF del THEN dead \cup {e} ELSE dead

\* publish_in_order(e).
PublishInOrder(e) ==
    /\ resolved' = resolved \cup {e}
    /\ \E n \in visible..assigned' :
          /\ ((visible + 1)..n) \subseteq resolved'
          /\ (n + 1) \notin resolved'
          /\ visible' = n

\* A transaction takes its epoch and timestamp and appends its delete of the
\* row (its puts are new rows); the timestamp is recorded when the append is
\* durable.
TxnAppend(c) ==
    /\ committing[c] = 0
    /\ assigned < MaxEpoch /\ Watermark!Assign
    /\ Record(assigned + 1, TRUE)
    /\ ledger' = ledger \cup {assigned + 1}
    /\ committing' = [committing EXCEPT ![c] = assigned + 1]
    /\ UNCHANGED <<dropped, table, applied, history, setting, compaction, collector,
                   readers, raced>>

TxnApply(c) ==
    /\ committing[c] # 0 /\ c \notin applied /\ Unlocked
    /\ memtable' = memtable \cup {committing[c]}
    /\ applied' = applied \cup {c}
    /\ UNCHANGED <<authority, data, tier, runs, lastRun, retiring, reaped,
                   committing, history, setting, compaction, collector,
                   readers, raced>>

TxnPublish(c) ==
    /\ c \in applied
    /\ UNCHANGED assigned
    /\ PublishInOrder(committing[c])
    /\ committing' = [committing EXCEPT ![c] = 0]
    /\ applied' = applied \ {c}
    /\ UNCHANGED <<data, table, history, setting, compaction, collector,
                   readers, raced>>

\* Or the idempotency ledger cannot record the durable commit: the call returns
\* without applying it, and the epoch guard resolves its ticket.
TxnFails(c) ==
    /\ committing[c] # 0 /\ c \notin applied
    /\ UNCHANGED assigned
    /\ PublishInOrder(committing[c])
    /\ dropped' = dropped \cup {committing[c]}
    /\ committing' = [committing EXCEPT ![c] = 0]
    /\ UNCHANGED <<ledger, versions, dead, table, applied, history, setting,
                   compaction, collector, readers, raced>>

\* Table::commit assigns, applies and publishes under the commit lock; the
\* ledger gets no timestamp.  Sealing without rows is part of the flush.
TableCommit(del) ==
    /\ Unlocked /\ assigned < MaxEpoch
    /\ assigned' = assigned + 1
    /\ Record(assigned + 1, del)
    /\ memtable' = memtable \cup {assigned + 1}
    /\ PublishInOrder(assigned + 1)
    /\ UNCHANGED <<ledger, dropped, tier, runs, lastRun, retiring, reaped, txns,
                   history, setting, compaction, collector, readers, raced>>

\* Table::flush seals an epoch of its own and drains the memtable, rows that
\* are applied and not published yet included, into the tier.
SealFlush ==
    /\ Unlocked /\ assigned < MaxEpoch
    /\ memtable \cup tier # {}
    /\ assigned' = assigned + 1
    /\ PublishInOrder(assigned + 1)
    /\ memtable' = {}

\* Below the spill threshold, or without a run id, the rows stay there.
FlushDrain ==
    /\ SealFlush
    /\ tier' = tier \cup memtable
    /\ UNCHANGED <<data, runs, lastRun, retiring, reaped, txns, history, setting,
                   compaction, collector, readers, raced>>

\* Past the threshold they become a run.  That the replay gate or the manifest
\* cannot be written after it changes nothing here.
FlushSpill ==
    /\ SealFlush /\ lastRun < MaxRun
    /\ tier' = {}
    /\ runs' = runs \cup {[id |-> lastRun + 1, rows |-> memtable \cup tier]}
    /\ lastRun' = lastRun + 1
    /\ UNCHANGED <<data, retiring, reaped, txns, history, setting, compaction,
                   collector, readers, raced>>

\* Or the run is not written: the tier was drained before, and the table goes
\* on without the rows.
FlushFails ==
    /\ SealFlush /\ lastRun < MaxRun
    /\ tier' = {} /\ lastRun' = lastRun + 1
    /\ dropped' = dropped \cup memtable \cup tier
    /\ UNCHANGED <<ledger, versions, dead, runs, retiring, reaped, txns, history,
                   setting, compaction, collector, readers, raced>>

-----------------------------------------------------------------------------
(* Readers *)

\* visible_snapshot: the visible epoch with its recorded timestamp, or the
\* live clock's reading when none is recorded.
Snapshot(r) ==
    /\ snap' = [snap EXCEPT ![r] = visible]
    /\ upto' = [upto EXCEPT ![r] = IF visible \in ledger \cup {0}
                                   THEN visible ELSE assigned]

\* Database::snapshot takes the snapshot first ...
TakeSnapshot(r) ==
    /\ pc[r] = "idle"
    /\ Snapshot(r)
    /\ pc' = [pc EXCEPT ![r] = "taken"]
    /\ UNCHANGED <<authority, data, table, txns, history, setting, compaction,
                   collector, gen, raced>>

\* The epochs that snapshot_at_owned accepts: those of the history window.
Retained(e) ==
    /\ e <= visible
    /\ \A f \in (IF HistoryFloor = {} THEN {visible} ELSE HistoryFloor) : f <= e

SnapshotAt(r, e) ==
    /\ snap' = [snap EXCEPT ![r] = e]
    /\ upto' = [upto EXCEPT ![r] = e]

\* ... and so does snapshot_at_owned ...
CheckHistory(r, e) ==
    /\ pc[r] = "idle" /\ Retained(e)
    /\ SnapshotAt(r, e)
    /\ pc' = [pc EXCEPT ![r] = "taken"]
    /\ UNCHANGED <<authority, data, table, txns, history, setting, compaction,
                   collector, gen, raced>>

\* ... before it is registered.
Register(r) ==
    /\ pc[r] = "taken"
    /\ pc' = [pc EXCEPT ![r] = "pinned"]
    /\ UNCHANGED <<authority, data, table, txns, history, setting, compaction,
                   collector, snap, upto, gen, raced>>

\* A read generation is a copy of the table, made under its lock; it pins its
\* epoch in the table's registry.
TakeGeneration(r) ==
    /\ pc[r] = "idle" /\ Unlocked
    /\ snap' = [snap EXCEPT ![r] = visible]
    /\ upto' = [upto EXCEPT ![r] = assigned]
    /\ gen' = [gen EXCEPT ![r] = {x.id : x \in runs}]
    /\ pc' = [pc EXCEPT ![r] = "generation"]
    /\ UNCHANGED <<authority, data, table, txns, history, setting, compaction,
                   collector, raced>>

\* scored_read_generation locks the table and takes its snapshot, of the
\* visible epoch or of one in the history window ...
ScoreSnapshot(r) ==
    /\ pc[r] = "idle" /\ Unlocked
    /\ \/ snap' = [snap EXCEPT ![r] = visible] /\ upto' = [upto EXCEPT ![r] = assigned]
       \/ \E e \in 0..visible : Retained(e) /\ SnapshotAt(r, e)
    /\ gen' = [gen EXCEPT ![r] = {x.id : x \in runs}]
    /\ pc' = [pc EXCEPT ![r] = "locked"]
    /\ UNCHANGED <<authority, data, table, txns, history, setting, compaction,
                   collector, raced>>

\* ... registers it ...
ScoreRegister(r) ==
    /\ pc[r] = "locked"
    /\ pc' = [pc EXCEPT ![r] = "registered"]
    /\ UNCHANGED <<authority, data, table, txns, history, setting, compaction,
                   collector, snap, upto, gen, raced>>

\* A Database::gc that has read a floor past the reader's epoch, and the run
\* pins, knows nothing of the runs of the reader.
PinsTooLate(r) ==
    collector.on /\ collector.pinned /\ \A f \in collector.floor : snap[r] < f

\* ... and pins the run files of its copy before it lets go of the table.
PinRuns(r) ==
    /\ pc[r] = "registered"
    /\ pc' = [pc EXCEPT ![r] = "scored"]
    /\ raced' = IF PinsTooLate(r) THEN raced \cup {r} ELSE raced
    /\ UNCHANGED <<authority, data, table, txns, history, setting, compaction,
                   collector, snap, upto, gen>>

\* Transaction::new registers with ActiveTxns, for the conflict index, and in
\* neither of the retention registries.
BeginTxn(r) ==
    /\ pc[r] = "idle"
    /\ Snapshot(r)
    /\ pc' = [pc EXCEPT ![r] = "txn"]
    /\ UNCHANGED <<authority, data, table, txns, history, setting, compaction,
                   collector, gen, raced>>

\* The guards are dropped: the reader is done, or its copy could not be made.
Release(r) ==
    /\ pc[r] \in {"pinned", "registered", "scored", "generation", "txn"}
    /\ pc' = [pc EXCEPT ![r] = "idle"]
    /\ snap' = [snap EXCEPT ![r] = 0] /\ upto' = [upto EXCEPT ![r] = 0]
    /\ gen' = [gen EXCEPT ![r] = {}]
    /\ raced' = raced \ {r}
    /\ UNCHANGED <<authority, data, table, txns, history, setting, compaction,
                   collector>>

-----------------------------------------------------------------------------
(* The history window *)

Guaranteed(n) ==
    IF n = 0 \/ HistoryFloor = {} THEN visible
    ELSE CHOOSE f \in HistoryFloor : TRUE

\* Mutant: a window that was off starts at the first epoch.
SetHistoryFromStart(n) ==
    /\ setting = Off
    /\ setting' = [on |-> TRUE, epochs |-> n,
                   start |-> IF history.epochs = 0 THEN 0 ELSE Guaranteed(n)]
    /\ UNCHANGED <<authority, data, table, txns, history, compaction,
                   collector, readers, raced>>

\* set_history_retention_epochs computes the start from the visible epoch ...
SetHistory(n) ==
    /\ setting = Off
    /\ setting' = [on |-> TRUE, epochs |-> n, start |-> Guaranteed(n)]
    /\ UNCHANGED <<authority, data, table, txns, history, compaction,
                   collector, readers, raced>>

\* ... and configures the registry once the file is written.
ConfigureHistory ==
    /\ setting.on
    /\ history' = [epochs |-> setting.epochs, start |-> setting.start]
    /\ setting' = Off
    /\ UNCHANGED <<authority, data, table, txns, compaction, collector,
                   readers, raced>>

-----------------------------------------------------------------------------
(* Compaction *)

\* What the floor that a compaction is about to read does not take into
\* account: readers between snapshot and registration, a window between its
\* start and its configuration, and versions that are not published yet.
Races(input) ==
    {r \in Readers : pc[r] = "taken"}
      \cup (IF setting.on THEN {"history"} ELSE {})
      \cup (IF \E v \in input : v > visible THEN {"ahead"} ELSE {})

\* Table::compact at the visible epoch: without staged rows the published part
\* of the memtable joins the input; fewer than two runs end it there.  The
\* floor is read once, before the merge.
Compact(pending) ==
    LET old == {v \in memtable : v <= visible}
        mem == IF pending THEN {} ELSE tier \cup old
        input == RowsOf(runs) \cup mem
        enough == Cardinality(runs) >= 2 /\ lastRun < MaxRun
    IN
    /\ Unlocked
    /\ IF pending THEN UNCHANGED <<memtable, tier>>
       ELSE memtable' = memtable \ old /\ tier' = tier \cup old
    /\ IF enough
       THEN /\ compaction' = [on |-> TRUE, epoch |-> visible,
                              pending |-> pending,
                              keep |-> SelectKeep(input, MinActive)]
            /\ raced' = raced \cup Races(input)
       ELSE ~pending /\ old # {} /\ UNCHANGED <<compaction, raced>>
    /\ UNCHANGED <<authority, data, runs, lastRun, retiring, reaped, txns,
                   history, setting, collector, readers>>

\* Mutant: the memory tier is cleared although the merge did not read it.
CompactPublishClears ==
    /\ compaction.on
    /\ runs' = {[id |-> lastRun + 1, rows |-> compaction.keep]}
    /\ lastRun' = lastRun + 1
    /\ tier' = {}
    /\ retiring' = retiring \cup
                     {[id |-> r.id, epoch |-> compaction.epoch] : r \in runs}
    /\ compaction' = Off
    /\ UNCHANGED <<authority, data, memtable, reaped, txns, history, setting,
                   collector, readers, raced>>

\* The replacement run is published and the old ones retire.
CompactPublish ==
    LET new == {[id |-> lastRun + 1, rows |-> compaction.keep]} IN
    /\ compaction.on
    /\ tier' = IF compaction.pending THEN tier ELSE {}
    /\ IF compaction.keep = {}
       THEN runs' = {} /\ UNCHANGED lastRun
       ELSE runs' = new /\ lastRun' = lastRun + 1
    /\ retiring' = retiring \cup
                     {[id |-> r.id, epoch |-> compaction.epoch] : r \in runs}
    /\ compaction' = Off
    /\ UNCHANGED <<authority, data, memtable, reaped, txns, history, setting,
                   collector, readers, raced>>

\* Cancelled before publication, or the output could not be written.
CompactFails ==
    /\ compaction.on
    /\ compaction' = Off
    /\ UNCHANGED <<authority, data, table, txns, history, setting, collector,
                   readers, raced>>

-----------------------------------------------------------------------------
(* Deleting retired run files *)

\* reap_retiring: retired at or below the floor and not pinned by a reader.
ReapRetiring(floor, pins) ==
    LET gone == {x \in retiring :
                   x.id \notin pins /\ \A f \in floor : x.epoch <= f}
    IN  retiring' = retiring \ gone /\ reaped' = reaped \cup gone

RunPins == UNION {gen[r] : r \in {s \in Readers : pc[s] = "scored"}}

\* Database::gc reads its floor ...
GcFloor ==
    /\ collector = Off
    /\ collector' = [on |-> TRUE, pinned |-> FALSE, floor |-> MinRegistered, pins |-> {}]
    /\ UNCHANGED <<authority, data, table, txns, history, setting, compaction,
                   readers, raced>>

\* Mutant: the run pins are not consulted.
GcPinsNone ==
    /\ collector.on /\ ~collector.pinned
    /\ collector' = [on |-> TRUE, pinned |-> TRUE, floor |-> collector.floor, pins |-> {}]
    /\ UNCHANGED <<authority, data, table, txns, history, setting, compaction,
                   readers, raced>>

\* ... then the run pins of the table, neither of them under the table lock ...
GcPins ==
    /\ collector.on /\ ~collector.pinned
    /\ collector' = [on |-> TRUE, pinned |-> TRUE, floor |-> collector.floor, pins |-> RunPins]
    /\ UNCHANGED <<authority, data, table, txns, history, setting, compaction,
                   readers, raced>>

\* ... and deletes later, with what it read.
GcReap ==
    /\ collector.on /\ collector.pinned /\ Unlocked
    /\ ReapRetiring(collector.floor, collector.pins)
    /\ collector' = Off
    /\ UNCHANGED <<authority, data, memtable, tier, runs, lastRun, txns,
                   history, setting, compaction, readers, raced>>

\* Table::gc_versions, at the floor compaction uses, without run pins.
GcVersions ==
    /\ Unlocked /\ retiring # {}
    /\ ReapRetiring(IF MinActive = {} THEN {visible} ELSE MinActive, {})
    /\ UNCHANGED <<authority, data, memtable, tier, runs, lastRun, txns,
                   history, setting, compaction, collector, readers, raced>>

-----------------------------------------------------------------------------
Commits ==
    \/ \E c \in Committers : TxnAppend(c) \/ TxnApply(c) \/ TxnPublish(c)
                                \/ TxnFails(c)
    \/ \E del \in BOOLEAN : TableCommit(del)
    \/ FlushDrain \/ FlushSpill \/ FlushFails

Reading(r) ==
    \/ TakeSnapshot(r) \/ Register(r) \/ BeginTxn(r) \/ Release(r)
    \/ \E e \in 0..visible : CheckHistory(r, e)
    \/ TakeGeneration(r) \/ ScoreSnapshot(r) \/ ScoreRegister(r) \/ PinRuns(r)

Maintenance ==
    \/ \E n \in Windows \ {history.epochs} : SetHistory(n)
    \/ ConfigureHistory
    \/ \E pending \in BOOLEAN : Compact(pending)
    \/ CompactPublish \/ CompactFails
    \/ GcFloor \/ GcPins \/ GcReap \/ GcVersions

Next == Commits \/ Maintenance \/ \E r \in Readers : Reading(r)

Spec == Init /\ [][Next]_vars

-----------------------------------------------------------------------------
Epochs == 1..MaxEpoch
Runs == [id : 1..MaxRun, rows : SUBSET Epochs]
Reader == {"idle", "taken", "pinned", "locked", "registered", "scored", "generation",
           "txn"}

\* Types; no version is visible before it is in the ledger of commits, and the
\* table refers to run files that exist.
TypeOK ==
    /\ assigned \in 0..MaxEpoch /\ visible \in 0..assigned
    /\ resolved \subseteq 1..assigned
    /\ ledger \subseteq 1..assigned
    /\ versions \subseteq 1..assigned /\ dead \cup dropped \subseteq versions
    /\ Stored \subseteq versions
    /\ runs \subseteq Runs /\ lastRun \in 0..MaxRun
    /\ retiring \cup reaped \subseteq [id : 1..lastRun, epoch : 0..visible]
    /\ retiring \cap reaped = {}
    /\ \A x \in runs, y \in retiring \cup reaped : x.id # y.id
    /\ committing \in [Committers -> 0..assigned] /\ applied \subseteq Committers
    /\ history \in [epochs : Windows \cup {0}, start : 0..visible]
    /\ pc \in [Readers -> Reader]
    /\ snap \in [Readers -> 0..visible] /\ upto \in [Readers -> 0..assigned]
    /\ gen \in [Readers -> SUBSET (1..lastRun)]

\* No version up to e was left out of the table by a failing spill or a failed
\* idempotency record.
Intact(e) == \A d \in dropped : e < d

\* A snapshot that is registered reads what was committed at its epoch for as
\* long as it is held, whatever compaction, flush and the collectors do
\* (min_active_snapshot: a version must not be dropped under a reader),
\* unless a failure left out a version up to its epoch, or a compaction read
\* its floor between the snapshot and its registration, or between the start
\* of a history window and its configuration, or merged versions that were not
\* published.
PinnedSeesTruth ==
    \A r \in Readers :
        /\ pc[r] = "pinned" /\ upto[r] = snap[r] /\ Intact(snap[r])
        /\ raced \cap {r, "ahead", "history"} = {}
        => Reads(Stored, snap[r]) = Reads(versions, snap[r])

\* Every epoch of the history window that no failure touched can be queried, as
\* the window grows, shrinks and moves along: earliest_retained_epoch promises
\* it.
HistoryQueryable ==
    raced \cap {"ahead", "history"} = {} =>
        \A f \in HistoryFloor : \A e \in f..visible :
            Intact(e) => Reads(Stored, e) = Reads(versions, e)

\* A new reader finds the committed state: nothing that is visible is hidden
\* by a merge or dropped with a tombstone, unless a failure left it out.
CurrentReadable ==
    "ahead" \notin raced /\ Intact(visible) =>
        Reads(Stored, visible) = Reads(versions, visible)

\* A scored read generation keeps its run files: both collectors leave alone
\* what was superseded after its birth, also when they delete with a floor and
\* pins they read before or during it.  The exceptions are a run superseded at
\* the very epoch of the snapshot (retire_epoch: such a reader "is served by
\* the merged run") and a reader that pinned its runs too late for a collector
\* whose floor had passed it.
GenerationFilesKept ==
    \A r \in Readers, x \in reaped :
        pc[r] = "scored" /\ r \notin raced /\ x.id \in gen[r] => x.epoch = snap[r]

\* What the documentation says of a transaction ("observe the fixed begin
\* snapshot"; a version is reclaimed only below "the oldest pin of every
\* source", active transactions among them): it reads what was committed at
\* its snapshot until it ends.
TxnSnapshotKept ==
    \A r \in Readers :
        /\ pc[r] = "txn" /\ upto[r] = snap[r] /\ Intact(snap[r])
        /\ "ahead" \notin raced
        => Reads(Stored, snap[r]) = Reads(versions, snap[r])
=============================================================================
