---------------------------- MODULE GroupCommit -----------------------------
(***************************************************************************)
(* The group-commit coordinator (crates/mongreldb-core/src/txn.rs,         *)
(* GroupCommit::await_durable) over SharedWal::group_sync (wal.rs), for    *)
(* committers that append a commit marker and wait for it.                 *)
(*                                                                         *)
(* Each turn of the await_durable loop runs under the coordinator's mutex  *)
(* and is one step; the leader's fsync runs outside it, under the WAL lock.*)
(* Only what the authenticated WAL head covers is read by recovery, so the *)
(* head is the durable prefix of the log.                                  *)
(***************************************************************************)
EXTENDS Integers

CONSTANTS
    Committers,
    MaxSeq,      \* bound on appended markers, for model checking
    FsyncFails   \* whether group_sync may fail

ASSUME GroupAssumptions == MaxSeq \in Nat /\ FsyncFails \in BOOLEAN

VARIABLES
    appended,    \* sequence number of the last marker in the active segment
    head,        \* last marker the head file on disk covers
    durableSeq, syncing, poisoned,   \* GroupState
    place, seq,  \* per committer: where it is in await_durable, and its marker
    synced,      \* what the leader's group_sync returned
    acked        \* markers whose committer got Ok

log == <<appended, head>>
state == <<durableSeq, syncing, poisoned>>
groupVars == <<appended, head, durableSeq, syncing, poisoned, place, seq, synced,
               acked>>

Places == {"idle", "checking", "asleep", "leading", "synced", "broken"}
Raise(a, b) == IF a >= b THEN a ELSE b

GroupInit ==
    /\ appended = 0 /\ head = 0
    /\ durableSeq = 0 /\ syncing = FALSE /\ poisoned = FALSE
    /\ place = [t \in Committers |-> "idle"]
    /\ seq = [t \in Committers |-> 0]
    /\ synced = 0
    /\ acked = {}

\* notify_all: every sleeper checks again; t goes on at l.
WakeAll(t, l) ==
    place' = [u \in Committers |->
                IF u = t THEN l
                ELSE IF place[u] = "asleep" THEN "checking" ELSE place[u]]

\* The sequencer appends a commit marker under the WAL lock.
Append(t) ==
    /\ place[t] = "idle" /\ appended < MaxSeq
    /\ appended' = appended + 1
    /\ seq' = [seq EXCEPT ![t] = appended + 1]
    /\ place' = [place EXCEPT ![t] = "checking"]
    /\ UNCHANGED <<head, state, synced, acked>>

\* The loop of await_durable: poisoned, ...
ReturnErr(t) ==
    /\ place[t] = "checking" /\ poisoned
    /\ place' = [place EXCEPT ![t] = "idle"]
    /\ UNCHANGED <<log, state, seq, synced, acked>>

\* ... durable, ...
ReturnOk(t) ==
    /\ place[t] = "checking" /\ ~poisoned /\ durableSeq >= seq[t]
    /\ acked' = acked \cup {seq[t]}
    /\ place' = [place EXCEPT ![t] = "idle"]
    /\ UNCHANGED <<log, state, seq, synced>>

\* ... somebody else is syncing, ...
Sleep(t) ==
    /\ place[t] = "checking" /\ ~poisoned /\ durableSeq < seq[t] /\ syncing
    /\ place' = [place EXCEPT ![t] = "asleep"]
    /\ UNCHANGED <<log, state, seq, synced, acked>>

\* ... or become the leader.
Lead(t) ==
    /\ place[t] = "checking" /\ ~poisoned /\ durableSeq < seq[t] /\ ~syncing
    /\ syncing' = TRUE
    /\ place' = [place EXCEPT ![t] = "leading"]
    /\ UNCHANGED <<log, durableSeq, poisoned, seq, synced, acked>>

\* group_sync under the WAL lock: fsync, then the head file.
GroupSync(t) ==
    /\ place[t] = "leading"
    /\ head' = appended /\ synced' = appended
    /\ place' = [place EXCEPT ![t] = "synced"]
    /\ UNCHANGED <<appended, state, seq, acked>>

\* It fails, before or after the new head reached the disk.
GroupSyncFails(t) ==
    /\ FsyncFails /\ place[t] = "leading"
    /\ head' \in {head, appended}
    /\ place' = [place EXCEPT ![t] = "broken"]
    /\ UNCHANGED <<appended, state, seq, synced, acked>>

\* Mutant: the leader credits what was appended meanwhile.
LeaderDoneAppended(t) ==
    /\ place[t] = "synced"
    /\ syncing' = FALSE
    /\ durableSeq' = Raise(durableSeq, appended)
    /\ WakeAll(t, "checking")
    /\ UNCHANGED <<log, poisoned, seq, synced, acked>>

\* Mutant: the leader forgets to notify.
LeaderDoneSilent(t) ==
    /\ place[t] = "synced"
    /\ syncing' = FALSE
    /\ durableSeq' = Raise(durableSeq, synced)
    /\ place' = [place EXCEPT ![t] = "checking"]
    /\ UNCHANGED <<log, poisoned, seq, synced, acked>>

\* Back under the mutex: raise durable_seq, notify, loop.
LeaderDone(t) ==
    /\ place[t] = "synced"
    /\ syncing' = FALSE
    /\ durableSeq' = Raise(durableSeq, synced)
    /\ WakeAll(t, "checking")
    /\ UNCHANGED <<log, poisoned, seq, synced, acked>>

\* Mutant: a failed leader poisons without notifying.
LeaderFailsSilent(t) ==
    /\ place[t] = "broken"
    /\ syncing' = FALSE /\ poisoned' = TRUE
    /\ place' = [place EXCEPT ![t] = "idle"]
    /\ UNCHANGED <<log, durableSeq, seq, synced, acked>>

\* The same after an error: poison, notify, return the error.
LeaderFails(t) ==
    /\ place[t] = "broken"
    /\ syncing' = FALSE /\ poisoned' = TRUE
    /\ WakeAll(t, "idle")
    /\ UNCHANGED <<log, durableSeq, seq, synced, acked>>

\* The process dies; the next one reads the log up to the head and starts a
\* coordinator there.
CrashReopen ==
    /\ appended' = head
    /\ durableSeq' = head /\ syncing' = FALSE /\ poisoned' = FALSE
    /\ place' = [t \in Committers |-> "idle"]
    /\ seq' = [t \in Committers |-> 0]
    /\ synced' = 0
    /\ UNCHANGED <<head, acked>>

AwaitDurable(t) ==
    \/ ReturnErr(t) \/ ReturnOk(t) \/ Sleep(t) \/ Lead(t)
    \/ GroupSync(t) \/ GroupSyncFails(t) \/ LeaderDone(t) \/ LeaderFails(t)

GroupNext ==
    \/ \E t \in Committers : Append(t) \/ AwaitDurable(t)
    \/ CrashReopen

GroupSpec == GroupInit /\ [][GroupNext]_groupVars

\* A thread inside await_durable is scheduled: nothing is assumed of when
\* commits arrive or of crashes.
GroupFairSpec == GroupSpec /\ \A t \in Committers : WF_groupVars(AwaitDurable(t))

-----------------------------------------------------------------------------
\* Types: neither the WAL head nor a marker somebody waits for lies beyond the
\* last append, over crashes and reopens (append_commit_at, SharedWal::open).
GroupTypeOK ==
    /\ appended \in Nat /\ head \in 0..appended
    /\ durableSeq \in Nat /\ synced \in Nat
    /\ syncing \in BOOLEAN /\ poisoned \in BOOLEAN
    /\ place \in [Committers -> Places]
    /\ seq \in [Committers -> 0..appended]
    /\ acked \subseteq Nat

\* A commit that was told it is durable is covered by the WAL head, so that a
\* crash at any later moment keeps it.
AckedDurable == \A s \in acked : s <= head

Leader(t) == place[t] \in {"leading", "synced", "broken"}

\* At most one committer syncs at a time, and `syncing` says whether one does.
OneLeader ==
    /\ \A t, u \in Committers : Leader(t) /\ Leader(u) => t = u
    /\ syncing <=> \E t \in Committers : Leader(t)

\* No lost wake-up: a committer sleeps on the condition variable only while a
\* leader is on its way to notify it.
SleeperHasLeader == (\E t \in Committers : place[t] = "asleep") => syncing

\* Every commit that waits for durability is answered.
EveryWaiterReturns == \A t \in Committers : place[t] # "idle" ~> place[t] = "idle"
=============================================================================
