--------------------------- MODULE TxnValidation ----------------------------
(***************************************************************************)
(* Optimistic validation of transactions: ConflictIndex and ActiveTxns     *)
(* (crates/mongreldb-core/src/txn.rs) as Database::begin and the commit    *)
(* path (database.rs) drive them.                                          *)
(*                                                                         *)
(* A session runs one transaction after another.  begin reads the visible  *)
(* epoch and registers it in a second step; commit claims the unique keys, *)
(* prunes the index, validates outside the sequencer, loads the index      *)
(* version, and in the sequencer (commit lock and WAL lock held, one step) *)
(* validates again only if the version moved, takes an epoch and records   *)
(* its keys.  Publication is the abstract watermark of EpochWatermark.     *)
(*                                                                         *)
(* Data: one table, whose records are Items.  A record has a row key and a *)
(* primary key; an UPDATE is normalised to delete + put, as in the code.   *)
(***************************************************************************)
EXTENDS Integers

CONSTANTS
    Sessions,
    Items,      \* records of the table
    Programs,   \* what a transaction may do: a set of Program records
    MaxEpoch    \* bound on commits, for model checking

TableKey == <<"table", "*">>
RowKey(i) == <<"row", i>>
UniqueKey(i) == <<"unique", i>>
Keys == {RowKey(i) : i \in Items} \cup {UniqueKey(i) : i \in Items} \cup {TableKey}

\* gets and scan are tracked reads; an updated item is in puts and in deletes.
Program == [serializable : BOOLEAN, gets : SUBSET Items, scan : BOOLEAN,
            puts : SUBSET Items, deletes : SUBSET Items, truncate : BOOLEAN]

ASSUME ValidationAssumptions ==
    /\ Programs \subseteq Program /\ Programs # {}
    /\ MaxEpoch \in Nat

VARIABLES
    \* EpochAuthority, as its users see it
    assigned, visible, resolved,
    \* ConflictIndex
    rec,          \* the shards: last commit epoch per key, 0 when absent
    truncEpoch,   \* table_truncate_epochs of the table, 0 when absent
    writeEpoch,   \* table_write_epochs of the table, 0 when absent
    version, floor,
    \* per session
    pc, prog, readEpoch, preVersion, epoch,
    \* history, for the properties
    commits,      \* every commit sequenced so far
    inWindow,     \* a commit was recorded between my check and my version load
    pruned        \* the index was pruned past my snapshot before I registered

index == <<rec, truncEpoch, writeEpoch, version, floor>>
authority == <<assigned, visible, resolved>>
ghosts == <<inWindow, pruned>>
vars == <<assigned, visible, resolved, rec, truncEpoch, writeEpoch, version,
          floor, pc, prog, readEpoch, preVersion, epoch, commits, inWindow, pruned>>

Watermark == INSTANCE EpochWatermark

MaxOf(a, b) == IF a >= b THEN a ELSE b

-----------------------------------------------------------------------------
\* The write set of a program as the sequencer sees it.
WriteKeys(p) ==
    {UniqueKey(i) : i \in p.puts} \cup {RowKey(i) : i \in p.deletes}
        \cup (IF p.truncate THEN {TableKey} ELSE {})

\* Mutant: predicate reads are not certified.
SsiRowKeys(p) ==
    IF p.serializable THEN {RowKey(i) : i \in p.gets} ELSE {}

\* ssi_validation_keys: certified only at Serializable.
SsiKeys(p) ==
    IF p.serializable
    THEN {RowKey(i) : i \in p.gets} \cup (IF p.scan THEN {TableKey} ELSE {})
    ELSE {}

\* ConflictIndex::conflicts(keys, r).
Conflicts(keys, r) ==
    \/ \E k \in keys : rec[k] > r
    \/ \E k \in keys : k # TableKey /\ truncEpoch > r
    \/ TableKey \in keys /\ writeEpoch > r

\* Both validations of a commit.
Invalid(s) ==
    \/ Conflicts(WriteKeys(prog[s]), readEpoch[s])
    \/ Conflicts(SsiKeys(prog[s]), readEpoch[s])

\* The sessions registered in ActiveTxns, and the claims of one that commits.
Registered == {s \in Sessions : pc[s] \notin {"idle", "snapped"}}
Claims(s) == IF pc[s] \in {"idle", "snapped", "active"} THEN {} ELSE prog[s].puts

Init ==
    /\ assigned = 0 /\ visible = 0 /\ resolved = {}
    /\ rec = [k \in Keys |-> 0]
    /\ truncEpoch = 0 /\ writeEpoch = 0 /\ version = 0 /\ floor = 0
    /\ pc = [s \in Sessions |-> "idle"]
    /\ prog = [s \in Sessions |-> CHOOSE p \in Programs : TRUE]
    /\ readEpoch = [s \in Sessions |-> 0]
    /\ preVersion = [s \in Sessions |-> 0]
    /\ epoch = [s \in Sessions |-> 0]
    /\ commits = {}
    /\ inWindow = [s \in Sessions |-> FALSE]
    /\ pruned = [s \in Sessions |-> FALSE]

\* A transaction that ends drops its registration, its claims and its locals.
EndTxn(s) ==
    /\ pc' = [pc EXCEPT ![s] = "idle"]
    /\ readEpoch' = [readEpoch EXCEPT ![s] = 0]
    /\ preVersion' = [preVersion EXCEPT ![s] = 0]
    /\ epoch' = [epoch EXCEPT ![s] = 0]
    /\ inWindow' = [inWindow EXCEPT ![s] = FALSE]
    /\ pruned' = [pruned EXCEPT ![s] = FALSE]
    /\ UNCHANGED prog

-----------------------------------------------------------------------------
\* begin: read the visible epoch ...
BeginSnapshot(s, p) ==
    /\ pc[s] = "idle" /\ assigned < MaxEpoch
    /\ pc' = [pc EXCEPT ![s] = "snapped"]
    /\ prog' = [prog EXCEPT ![s] = p]
    /\ readEpoch' = [readEpoch EXCEPT ![s] = visible]
    /\ UNCHANGED <<authority, index, preVersion, epoch, commits, ghosts>>

\* ... then register it in ActiveTxns (Transaction::new).
Register(s) ==
    /\ pc[s] = "snapped"
    /\ pc' = [pc EXCEPT ![s] = "active"]
    /\ UNCHANGED <<authority, index, prog, readEpoch, preVersion, epoch,
                   commits, ghosts>>

\* Mutant: no claims are taken.
ClaimNothing(s) ==
    /\ pc[s] = "active"
    /\ pc' = [pc EXCEPT ![s] = "claimed"]
    /\ UNCHANGED <<authority, index, prog, readEpoch, preVersion, epoch,
                   commits, ghosts>>

\* commit: claim every unique key in exclusive mode before validating.
Claim(s) ==
    /\ pc[s] = "active"
    /\ \A u \in Sessions \ {s} : Claims(u) \cap prog[s].puts = {}
    /\ pc' = [pc EXCEPT ![s] = "claimed"]
    /\ UNCHANGED <<authority, index, prog, readEpoch, preVersion, epoch,
                   commits, ghosts>>

Keep(e, m) == IF e >= m THEN e ELSE 0

\* Opportunistic pruning below the lowest registered read epoch.
Prune(s) ==
    /\ pc[s] = "claimed"
    /\ pc' = [pc EXCEPT ![s] = "pruned"]
    /\ \E r \in Registered :
         /\ \A u \in Registered : readEpoch[r] <= readEpoch[u]
         /\ LET m == readEpoch[r] IN
            IF m <= floor
            THEN UNCHANGED <<index, pruned>>
            ELSE /\ floor' = m
                 /\ rec' = [k \in Keys |-> Keep(rec[k], m)]
                 /\ truncEpoch' = Keep(truncEpoch, m)
                 /\ writeEpoch' = Keep(writeEpoch, m)
                 /\ pruned' = [u \in Sessions |->
                       pruned[u] \/ (pc[u] = "snapped" /\ readEpoch[u] < m)]
                 /\ UNCHANGED version
    /\ UNCHANGED <<authority, prog, readEpoch, preVersion, epoch, commits, inWindow>>

\* Pre-validation outside the sequencer passes ...
PreValidate(s) ==
    /\ pc[s] = "pruned" /\ ~Invalid(s)
    /\ pc' = [pc EXCEPT ![s] = "checked"]
    /\ UNCHANGED <<authority, index, prog, readEpoch, preVersion, epoch,
                   commits, ghosts>>

\* ... and afterwards the index version is loaded.
LoadVersion(s) ==
    /\ pc[s] = "checked"
    /\ preVersion' = [preVersion EXCEPT ![s] = version]
    /\ pc' = [pc EXCEPT ![s] = "versioned"]
    /\ UNCHANGED <<authority, index, prog, readEpoch, epoch, commits, ghosts>>

\* The sequencer's append and record, with the next epoch.
SequenceCommit(s) ==
    /\ Watermark!Assign
    /\ LET e == assigned + 1  w == WriteKeys(prog[s]) IN
       /\ epoch' = [epoch EXCEPT ![s] = e]
       /\ rec' = [k \in Keys |-> IF k \in w THEN e ELSE rec[k]]
       /\ truncEpoch' = IF TableKey \in w THEN MaxOf(truncEpoch, e) ELSE truncEpoch
       /\ writeEpoch' = IF w \ {TableKey} # {} THEN MaxOf(writeEpoch, e) ELSE writeEpoch
       /\ commits' = commits \cup
             {[epoch |-> e, read |-> readEpoch[s], prog |-> prog[s],
               inWindow |-> inWindow[s], pruned |-> pruned[s]]}
    /\ version' = version + 1
    /\ inWindow' = [u \in Sessions |-> inWindow[u] \/ pc[u] = "checked"]
    /\ pc' = [pc EXCEPT ![s] = "sequenced"]
    /\ UNCHANGED <<floor, prog, readEpoch, preVersion, pruned>>

\* Mutant: the sequencer trusts the pre-validation whatever the version.
SequenceUnchecked(s) ==
    /\ pc[s] = "versioned"
    /\ SequenceCommit(s)

\* The sequencer: re-check if the version moved, take the epoch, append, record.
Sequence(s) ==
    /\ pc[s] = "versioned"
    /\ version # preVersion[s] => ~Invalid(s)
    /\ SequenceCommit(s)

\* The sequencer fails between its ticket and its record: the epoch guard
\* abandons the ticket, and the index and its version stay as they are.
SequenceFails(s) ==
    /\ pc[s] = "versioned"
    /\ version # preVersion[s] => ~Invalid(s)
    /\ assigned' = assigned + 1
    /\ resolved' = resolved \cup {assigned + 1}
    /\ EndTxn(s)
    /\ UNCHANGED <<visible, index, commits>>

\* Durable, applied and published (or abandoned: the record stays either way):
\* the transaction ends and lets go of its registration and claims.
Publish(s) ==
    /\ pc[s] = "sequenced"
    /\ resolved' = resolved \cup {epoch[s]}
    /\ EndTxn(s)
    /\ UNCHANGED <<assigned, visible, index, commits>>

\* A rollback, a failed pre-validation, or after it a failed preparation or
\* re-check: nothing was assigned or recorded.
Abort(s) ==
    /\ \/ pc[s] = "pruned" /\ Invalid(s)
       \/ pc[s] \in {"active", "claimed", "versioned"}
    /\ EndTxn(s)
    /\ UNCHANGED <<authority, index, commits>>

\* The watermark moves on its own (EpochAuthority).
AdvanceVisible ==
    /\ Watermark!Advance
    /\ UNCHANGED <<index, pc, prog, readEpoch, preVersion, epoch, commits, ghosts>>

Next ==
    \/ \E s \in Sessions :
         \/ \E p \in Programs : BeginSnapshot(s, p)
         \/ Register(s) \/ Claim(s) \/ Prune(s) \/ PreValidate(s)
         \/ LoadVersion(s) \/ Sequence(s) \/ SequenceFails(s)
         \/ Publish(s) \/ Abort(s)
    \/ AdvanceVisible

Spec == Init /\ [][Next]_vars

-----------------------------------------------------------------------------
PCs == {"idle", "snapped", "active", "claimed", "pruned", "checked",
        "versioned", "sequenced"}

Commit == [epoch : 1..assigned, read : 0..assigned, prog : Programs,
           inWindow : BOOLEAN, pruned : BOOLEAN]

\* Types: clock, conflict index, registrations, claims and every session's
\* transaction; a snapshot is at a visible epoch (Database::begin).
TypeOK ==
    /\ assigned \in Nat /\ visible \in 0..assigned /\ resolved \subseteq 1..assigned
    /\ rec \in [Keys -> 0..assigned]
    /\ truncEpoch \in 0..assigned /\ writeEpoch \in 0..assigned
    /\ version \in 0..assigned /\ floor \in 0..visible
    /\ pc \in [Sessions -> PCs]
    /\ prog \in [Sessions -> Programs]
    /\ readEpoch \in [Sessions -> 0..visible]
    /\ preVersion \in [Sessions -> 0..version]
    /\ epoch \in [Sessions -> 0..assigned]
    /\ inWindow \in [Sessions -> BOOLEAN] /\ pruned \in [Sessions -> BOOLEAN]
    /\ commits \subseteq Commit

\* h committed after g took its snapshot and before g committed.
Concurrent(h, g) == g.read < h.epoch /\ h.epoch < g.epoch

\* A committed write set w makes the keys k stale.
Overlap(w, k) ==
    \/ w \cap k # {}
    \/ TableKey \in w /\ k # {}
    \/ TableKey \in k /\ w # {}

\* g's validation was not exposed to one of the two windows of the code.
Unexposed(g) == ~g.inWindow /\ ~g.pruned

\* First-committer-wins (txn.rs, RepeatableRead): no two concurrent commits
\* write overlapping keys.
FirstCommitterWins ==
    \A h, g \in commits :
        Concurrent(h, g) => ~Overlap(WriteKeys(h.prog), WriteKeys(g.prog))

\* What the two-phase validation does guarantee: a commit can overwrite a
\* concurrent one only if that one was recorded between its check and its
\* version load, or if the index was pruned past its snapshot before it was
\* registered.
FirstCommitterWinsOutsideWindows ==
    \A h, g \in commits :
        Concurrent(h, g) /\ Unexposed(g) =>
            ~Overlap(WriteKeys(h.prog), WriteKeys(g.prog))

\* The same for Serializable certification: a tracked row read or scan of a
\* commit was not invalidated by a concurrent delete, scan-covered write or
\* truncate.
SerializableOutsideWindows ==
    \A h, g \in commits :
        Concurrent(h, g) /\ Unexposed(g) /\ g.prog.serializable =>
            /\ g.prog.gets \cap h.prog.deletes = {}
            /\ g.prog.scan => WriteKeys(h.prog) = {}
            /\ h.prog.truncate => g.prog.gets = {}

\* Unique-key claims close the first window for puts: two concurrent commits
\* never put the same primary key unless the index was pruned too early.
ClaimedPutsSerialize ==
    \A h, g \in commits :
        Concurrent(h, g) /\ ~g.pruned => h.prog.puts \cap g.prog.puts = {}

\* Pruning never drops an entry that a registered transaction could still
\* conflict with, except for one that registered after the prune.
LiveConflictsKept ==
    \A s \in Registered, h \in commits : \A k \in WriteKeys(h.prog) :
        h.epoch > readEpoch[s] /\ ~pruned[s] => rec[k] >= h.epoch

\* txn.rs, IsolationLevel::Serializable: a commit aborts "when a concurrent
\* commit invalidated a tracked read".  A put of a primary key replaces the
\* record a point read returned.
TrackedReadsValid ==
    \A h, g \in commits :
        Concurrent(h, g) /\ Unexposed(g) /\ g.prog.serializable =>
            g.prog.gets \cap (h.prog.deletes \cup h.prog.puts) = {}
=============================================================================
