------------------------- MODULE IdempotencyLedger -------------------------
(***************************************************************************)
(* The durable idempotency ledger (crates/mongreldb-core/src/txn.rs) with  *)
(* the part of the commit path that uses it (database.rs): a keyed commit  *)
(* reserves its key, appends its commit marker, waits for group commit,    *)
(* records its receipt, and drops the reservation on every other exit.     *)
(*                                                                         *)
(* Calls run concurrently.  Each ledger operation is one critical section  *)
(* of the ledger's mutex, the write of the TXN_IDEMPOTENCY file included.  *)
(* A write of the file may fail before or after the new content is in      *)
(* place, an fsync of the WAL may fail with any prefix of the appended     *)
(* markers on disk, and the process may crash between any two steps.       *)
(***************************************************************************)
EXTENDS Naturals, Sequences, FiniteSets

CONSTANTS
    Calls,       \* calls of commit_idempotent, first attempts and retries
    Keys,        \* (owner, key) pairs
    Requests,    \* IdempotencyRequests: [key, fp, ttl], ttl: has it one?
    MaxRecords,  \* MAX_IDEMPOTENCY_RECORDS
    MaxCrashes   \* bound on restarts

Reserved == "Reserved"

(* What a call returns besides the receipt of a commit. *)
Replies == {"none", "conflict", "error", Reserved, "unknown", "durable",
            "crashed"}

ASSUME LedgerAssumption ==
    /\ \A r \in Requests : r.key \in Keys /\ r.ttl \in BOOLEAN
    /\ IsFiniteSet(Keys)
    /\ MaxRecords \in Nat /\ MaxCrashes \in Nat
    /\ Calls \cap Replies = {}

VARIABLES
    mem,      \* the records in memory, by key
    file,     \* the records in the file
    pc,       \* where each call is in the commit path
    req,      \* its request
    answer,   \* what it returned, or will return
    log,      \* commit markers appended to the WAL, in epoch order
    synced,   \* how many of them are known to be durable
    health,   \* "ok", "poisoned" (no admission) or "syncFailed" (no fsync)
    crashes,  \* restarts so far
    forgot    \* keys the ledger forgot: record expired, evicted, or released
              \* by a commit whose outcome is unknown

vars == <<mem, file, pc, req, answer, log, synced, health, crashes, forgot>>

NoRec == [fp |-> "none"]
NoReq == [key |-> "none"]
Fps == {r.fp : r \in Requests}
(* The outcome of a record is Reserved or the call whose receipt it holds. *)
Recs == [fp : Fps, ttl : BOOLEAN, expired : BOOLEAN,
         outcome : Calls \cup {Reserved}]

Key(c) == req[c].key
Epoch(c) == CHOOSE i \in DOMAIN log : log[i] = c
Present(m) == {k \in Keys : m[k] # NoRec}

-----------------------------------------------------------------------------
(* sweep_expired: reservations expire too. *)
Sweep(m) ==
    [k \in Keys |-> IF m[k] # NoRec /\ m[k].expired THEN NoRec ELSE m[k]]

Swept(m) == Present(m) \ Present(Sweep(m))

(***************************************************************************)
(* enforce_bounds drops the oldest committed records beyond the bound and  *)
(* fails, when only reservations are left, after it has dropped the rest.  *)
(***************************************************************************)
Committed(m) == {k \in Present(m) : m[k].outcome # Reserved}

Excess(m) == IF Cardinality(Present(m)) > MaxRecords
             THEN Cardinality(Present(m)) - MaxRecords ELSE 0

Oldest(m) ==
    CHOOSE S \in SUBSET Committed(m) :
        /\ \/ Cardinality(S) = Excess(m)
           \/ S = Committed(m) /\ Cardinality(S) < Excess(m)
        /\ \A k \in S, l \in Committed(m) \ S :
             Epoch(m[k].outcome) < Epoch(m[l].outcome)

EnforceBounds(m) == [k \in Keys |-> IF k \in Oldest(m) THEN NoRec ELSE m[k]]

(* persist_locked with m in memory; ok tells whether it returned Ok. *)
Persist(m, ok) ==
    /\ mem' = EnforceBounds(m)
    /\ \/ ok /\ file' = mem'
       \/ ~ok /\ file' \in {file, mem'}
    /\ Cardinality(Present(mem')) > MaxRecords => ~ok /\ file' = file

Forget(ks) == forgot' = forgot \cup ks

Finish(c, a) ==
    /\ pc' = [pc EXCEPT ![c] = "done"]
    /\ answer' = [answer EXCEPT ![c] = a]

-----------------------------------------------------------------------------
Init ==
    /\ mem = [k \in Keys |-> NoRec] /\ file = mem
    /\ pc = [c \in Calls |-> "new"]
    /\ req = [c \in Calls |-> NoReq]
    /\ answer = [c \in Calls |-> "none"]
    /\ log = <<>> /\ synced = 0
    /\ health = "ok" /\ crashes = 0 /\ forgot = {}

\* Mutant: the fingerprint is not compared.
CheckFindsAny(c, r) ==
    LET m == Sweep(mem) IN
    /\ pc[c] = "new" /\ health = "ok"
    /\ m[r.key] # NoRec
    /\ mem' = m
    /\ Finish(c, m[r.key].outcome)
    /\ req' = [req EXCEPT ![c] = r]
    /\ Forget(Swept(mem))
    /\ UNCHANGED <<file, log, synced, health, crashes>>

(* check_and_reserve finds a record of the key. *)
CheckFinds(c, r) ==
    LET m == Sweep(mem) IN
    /\ pc[c] = "new" /\ health = "ok"
    /\ m[r.key] # NoRec
    /\ mem' = m
    /\ Finish(c, IF m[r.key].fp = r.fp THEN m[r.key].outcome ELSE "conflict")
    /\ req' = [req EXCEPT ![c] = r]
    /\ Forget(Swept(mem))
    /\ UNCHANGED <<file, log, synced, health, crashes>>

Reservation(r) ==
    [fp |-> r.fp, ttl |-> r.ttl, expired |-> FALSE, outcome |-> Reserved]

\* Mutant: the reservation is kept in memory only.
ReserveInMemory(c, r) ==
    LET m == [Sweep(mem) EXCEPT ![r.key] = Reservation(r)] IN
    /\ pc[c] = "new" /\ health = "ok"
    /\ Sweep(mem)[r.key] = NoRec
    /\ req' = [req EXCEPT ![c] = r]
    /\ mem' = m
    /\ pc' = [pc EXCEPT ![c] = "reserved"]
    /\ Forget(Swept(mem))
    /\ UNCHANGED <<file, answer, log, synced, health, crashes>>

(* check_and_reserve reserves the key, in memory before in the file: when  *)
(* the file cannot be written the call fails and the reservation stays.    *)
Reserve(c, r) ==
    LET m == [Sweep(mem) EXCEPT ![r.key] = Reservation(r)] IN
    /\ pc[c] = "new" /\ health = "ok"
    /\ Sweep(mem)[r.key] = NoRec
    /\ req' = [req EXCEPT ![c] = r]
    /\ \/ /\ Persist(m, TRUE)
          /\ pc' = [pc EXCEPT ![c] = "reserved"]
          /\ UNCHANGED answer
       \/ /\ Persist(m, FALSE)
          /\ Finish(c, "error")
    /\ Forget(Swept(mem) \cup Oldest(m))
    /\ UNCHANGED <<log, synced, health, crashes>>

(* Validation or anything else before the proposal fails. *)
FailEarly(c) ==
    /\ pc[c] = "reserved"
    /\ pc' = [pc EXCEPT ![c] = "releasing"]
    /\ answer' = [answer EXCEPT ![c] = "error"]
    /\ UNCHANGED <<mem, file, req, log, synced, health, crashes, forgot>>

(* append_transaction under the WAL lock. *)
AppendMarker(c) ==
    /\ pc[c] = "reserved"
    /\ pc' = [pc EXCEPT ![c] = "appended"]
    /\ log' = Append(log, c)
    /\ UNCHANGED <<mem, file, req, answer, synced, health, crashes, forgot>>

(* Its error leaves open what reached the WAL: commit_outcome_unknown. *)
AppendFails(c) ==
    /\ pc[c] = "reserved"
    /\ pc' = [pc EXCEPT ![c] = "releasing"]
    /\ answer' = [answer EXCEPT ![c] = "unknown"]
    /\ log' \in {log, Append(log, c)}
    /\ health' = IF health = "ok" THEN "poisoned" ELSE health
    /\ UNCHANGED <<mem, file, req, synced, crashes, forgot>>

(* The group-commit leader's fsync, for the markers appended so far. *)
GroupSync(ok) ==
    /\ health # "syncFailed"
    /\ synced < Len(log)
    /\ \/ ok /\ synced' = Len(log) /\ UNCHANGED health
       \/ ~ok /\ health' = "syncFailed" /\ UNCHANGED synced
    /\ UNCHANGED <<mem, file, pc, req, answer, log, crashes, forgot>>

(* await_durable_commit_with_ts: the poison is looked at first. *)
AwaitDurable(c) ==
    /\ pc[c] = "appended"
    /\ health # "syncFailed" /\ Epoch(c) <= synced
    /\ pc' = [pc EXCEPT ![c] = "durable"]
    /\ UNCHANGED <<mem, file, req, answer, log, synced, health, crashes, forgot>>

AwaitFails(c) ==
    /\ pc[c] = "appended"
    /\ health = "syncFailed"
    /\ pc' = [pc EXCEPT ![c] = "releasing"]
    /\ answer' = [answer EXCEPT ![c] = "unknown"]
    /\ UNCHANGED <<mem, file, req, log, synced, health, crashes, forgot>>

(* The record of the key, whoever reserved it, gets the receipt of c. *)
Receipt(c) ==
    [mem EXCEPT ![Key(c)] = [@ EXCEPT !.outcome = c, !.ttl = req[c].ttl,
                                      !.expired = FALSE]]

\* Mutant: success is answered although the record may not be in the file.
CompleteAnyway(c) ==
    /\ pc[c] = "durable"
    /\ mem[Key(c)] # NoRec
    /\ Persist(Receipt(c), FALSE)
    /\ Finish(c, c)
    /\ Forget(Oldest(Receipt(c)))
    /\ UNCHANGED <<req, log, synced, health, crashes>>

(* complete records the receipt and the guard is disarmed; if the file     *)
(* cannot be written, or the reservation is gone, the call returns         *)
(* DurableCommit and the guard still releases.                             *)
Complete(c) ==
    /\ pc[c] = "durable"
    /\ \/ /\ mem[Key(c)] = NoRec
          /\ pc' = [pc EXCEPT ![c] = "releasing"]
          /\ answer' = [answer EXCEPT ![c] = "durable"]
          /\ UNCHANGED <<mem, file, forgot>>
       \/ /\ mem[Key(c)] # NoRec
          /\ \/ Persist(Receipt(c), TRUE) /\ Finish(c, c)
             \/ /\ Persist(Receipt(c), FALSE)
                /\ pc' = [pc EXCEPT ![c] = "releasing"]
                /\ answer' = [answer EXCEPT ![c] = "durable"]
          /\ Forget(Oldest(Receipt(c)))
    /\ UNCHANGED <<req, log, synced, health, crashes>>

\* Mutant: the key is released whatever its record says.
ReleaseAny(c) ==
    LET m == [mem EXCEPT ![Key(c)] = NoRec] IN
    /\ pc[c] = "releasing"
    /\ pc' = [pc EXCEPT ![c] = "done"]
    /\ \E ok \in BOOLEAN : Persist(m, ok)
    /\ Forget(Oldest(m) \cup IF answer[c] = "unknown" THEN {Key(c)} ELSE {})
    /\ UNCHANGED <<req, answer, log, synced, health, crashes>>

(* The guard is dropped: release, best effort in the file. *)
Release(c) ==
    LET held == mem[Key(c)] # NoRec /\ mem[Key(c)].outcome = Reserved
        m == IF held THEN [mem EXCEPT ![Key(c)] = NoRec] ELSE mem
    IN
    /\ pc[c] = "releasing"
    /\ pc' = [pc EXCEPT ![c] = "done"]
    /\ \E ok \in BOOLEAN : Persist(m, ok)
    /\ Forget(Oldest(m) \cup IF answer[c] = "unknown" THEN {Key(c)} ELSE {})
    /\ UNCHANGED <<req, answer, log, synced, health, crashes>>

(* Time: the expiry of a record passes, of an older copy in the file first. *)
Ages(x) == x # NoRec /\ x.ttl /\ ~x.expired

Lapse(k) ==
    /\ \/ /\ Ages(file[k])
          /\ file' = [file EXCEPT ![k].expired = TRUE]
          /\ UNCHANGED mem
       \/ /\ Ages(mem[k]) /\ ~Ages(file[k])
          /\ mem' = [mem EXCEPT ![k].expired = TRUE]
          /\ UNCHANGED file
    /\ UNCHANGED <<pc, req, answer, log, synced, health, crashes, forgot>>

(* The process stops and the database is opened again: recovery keeps the  *)
(* markers that reached the disk, at least those known to be durable.      *)
CrashReopen ==
    /\ crashes < MaxCrashes
    /\ crashes' = crashes + 1
    /\ \E n \in synced .. Len(log) : log' = SubSeq(log, 1, n) /\ synced' = n
    /\ mem' = Sweep(file)
    /\ health' = "ok"
    /\ pc' = [c \in Calls |-> IF pc[c] = "new" THEN "new" ELSE "done"]
    /\ answer' = [c \in Calls |-> IF pc[c] \in {"new", "done"} THEN answer[c]
                                  ELSE "crashed"]
    /\ Forget(Swept(file))
    /\ UNCHANGED <<file, req>>

CheckAndReserve(c) == \E r \in Requests : CheckFinds(c, r) \/ Reserve(c, r)

Commit(c) ==
    \/ FailEarly(c) \/ AppendMarker(c) \/ AppendFails(c)
    \/ AwaitDurable(c) \/ AwaitFails(c) \/ Complete(c) \/ Release(c)

Next ==
    \/ \E c \in Calls : CheckAndReserve(c) \/ Commit(c)
    \/ \E ok \in BOOLEAN : GroupSync(ok)
    \/ \E k \in Keys : Lapse(k)
    \/ CrashReopen

Spec == Init /\ [][Next]_vars

-----------------------------------------------------------------------------
\* Types; a record holds the receipt of a marker that is in the WAL.
TypeOK ==
    /\ {mem, file} \subseteq [Keys -> Recs \cup {NoRec}]
    /\ pc \in [Calls -> {"new", "reserved", "appended", "durable",
                         "releasing", "done"}]
    /\ req \in [Calls -> Requests \cup {NoReq}]
    /\ answer \in [Calls -> Calls \cup Replies]
    /\ log \in Seq(Calls) /\ synced \in 0 .. Len(log)
    /\ health \in {"ok", "poisoned", "syncFailed"}
    /\ crashes \in 0 .. MaxCrashes
    /\ forgot \subseteq Keys

Durable == {log[i] : i \in 1 .. synced}

\* At most one durable commit per key, across retries, concurrent calls,
\* failed writes of the ledger and crashes, as long as the ledger did not
\* forget the key: check_and_reserve keeps everybody else out.
AtMostOnce ==
    \A c, d \in Durable :
        c # d /\ Key(c) = Key(d) => Key(c) \in forgot

\* An answer is the receipt of a commit that is durable, and unless the key
\* was forgotten, of the same request: never a receipt that a restart
\* takes back, and never that of a different request.
ReplayIsReal ==
    \A c \in Calls : answer[c] \in Calls =>
        /\ answer[c] \in Durable
        /\ Key(answer[c]) = Key(c)
        /\ Key(c) \notin forgot => req[answer[c]].fp = req[c].fp

\* What complete acknowledged, a restart sees: the file holds the receipt, and
\* later failures and releases of other calls do not remove it.
AckedRecorded ==
    \A c \in Calls : answer[c] = c /\ Key(c) \notin forgot =>
        /\ file[Key(c)] # NoRec /\ file[Key(c)].outcome = c
        /\ mem[Key(c)] # NoRec /\ mem[Key(c)].outcome = c

\* As documented, without a condition: a repeated key never executes again.
OncePerKey == \A c, d \in Durable : c # d => Key(c) # Key(d)

\* Fail closed: while a marker may be durable and its call has not ended, or
\* a crash cut it short, its key has a record that keeps retries out.
InDoubtKept ==
    \A c \in Calls :
        /\ c \in {log[i] : i \in DOMAIN log}
        /\ answer[c] \in {"none", "crashed", "durable", c}
        /\ Key(c) \notin forgot
        => mem[Key(c)] # NoRec /\ file[Key(c)] # NoRec
=============================================================================
