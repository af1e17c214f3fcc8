---------------------------- MODULE LockManager ----------------------------
(***************************************************************************)
(* The key lock manager (crates/mongreldb-core/src/locks.rs): Shared and   *)
(* Exclusive holds per key, strict FIFO queues, upgrades, deadlines and    *)
(* cancellation, and a deadlock detector that dooms one member of a cycle. *)
(*                                                                         *)
(* All state is behind one mutex, so an action is what a thread does       *)
(* between taking it and giving it up: the first part of acquire, one turn *)
(* of the loop of wait_for_grant with the rest of acquire, release, or     *)
(* release_all.  A waiter polls every CANCELLATION_POLL_INTERVAL, so it    *)
(* may run at any time, notified or not.                                   *)
(*                                                                         *)
(* A transaction that ended starts again under its id: ids order the       *)
(* transactions by age, the largest is the youngest.                       *)
(***************************************************************************)
EXTENDS Integers, Sequences, FiniteSets, SequencesExt

CONSTANTS
    Txns,      \* transaction ids
    Keys,      \* LockKeys
    Priority,  \* stated priority of each transaction
    Impatient  \* those whose requests have a deadline or may be cancelled

ASSUME LockAssumption ==
    /\ Txns \subseteq Nat
    /\ IsFiniteSet(Txns)
    /\ Priority \in [Txns -> Nat]
    /\ Impatient \subseteq Txns

VARIABLES
    inner,      \* the fields of Inner, see TypeOK
    waiting,    \* waiting[t]: what t's thread waits for in acquire, or NoWait
    expired     \* waiting transactions whose request's deadline passed or
                \* whose control was cancelled

vars == <<inner, waiting, expired>>

Modes == {"Shared", "Exclusive"}
NoWait == [key |-> "none"]

Compatible(m, n) == m = "Shared" /\ n = "Shared"

-----------------------------------------------------------------------------
(***************************************************************************)
(* Helpers on Inner: s is its value, k a key, t a transaction.             *)
(***************************************************************************)
Holds(s, k, t) == s.holders[k][t] # "none"

Queued(s, k, t) == \E i \in DOMAIN s.queue[k] : s.queue[k][i].txn = t

(* The queue q without the entries of the transactions in T. *)
Without(q, T) ==
    LET kept[i \in 0 .. Len(q)] ==
          IF i = 0 THEN <<>>
          ELSE IF q[i].txn \in T THEN kept[i - 1] ELSE Append(kept[i - 1], q[i])
    IN kept[Len(q)]

\* Mutant: forgets the key although a weaker hold on it remains.
UntrackHeld(s, k, t) == [s EXCEPT !.txnKeys[t] = @ \ {k}]

(* untrack_transaction_key_if_unused *)
Untrack(s, k, t) ==
    IF Holds(s, k, t) \/ Queued(s, k, t) THEN s
    ELSE [s EXCEPT !.txnKeys[t] = @ \ {k}]

(* remove_waiter *)
RemoveWaiter(s, k, t) ==
    IF ~Queued(s, k, t) THEN s
    ELSE Untrack([s EXCEPT !.queue[k] = Without(@, {t}),
                           !.queuedWaiters = @ - 1], k, t)

\* Mutant: a waiter is compared with those ahead of it only.
GrantableToo(s, k, i) ==
    \A j \in 1 .. i - 1 : Compatible(s.queue[k][i].mode, s.queue[k][j].mode)

(* No other holder excludes waiter i once those ahead of it hold the key.  *)
(* Its own hold never blocks it.                                           *)
Grantable(s, k, i) ==
    LET w == s.queue[k][i] IN
    /\ \A t \in Txns \ {w.txn} :
         Holds(s, k, t) => Compatible(w.mode, s.holders[k][t])
    /\ \A j \in 1 .. i - 1 : Compatible(w.mode, s.queue[k][j].mode)

(* The number of waiters at the front that process_key grants. *)
Prefix(s, k) ==
    CHOOSE n \in 0 .. Len(s.queue[k]) :
        /\ \A i \in 1 .. n : Grantable(s, k, i)
        /\ n < Len(s.queue[k]) => ~Grantable(s, k, n + 1)

(* process_key for each key of K.  A transaction waits in one queue, so    *)
(* the keys do not affect each other.                                      *)
(*                                                                         *)
(* First half: waiters whose request is dead get a fate.                   *)
Purge(s, K) ==
    LET dead == {t \in expired : \E k \in K : Queued(s, k, t)} IN
    [s EXCEPT
       !.queue = [k \in Keys |-> IF k \in K THEN Without(@[k], dead) ELSE @[k]],
       !.queuedWaiters = @ - Cardinality(dead),
       !.fates = [t \in Txns |-> IF t \in dead /\ @[t] = "none"
                                THEN "Cancelled" ELSE @[t]],
       !.txnKeys = [t \in Txns |-> IF t \notin dead THEN @[t]
                      ELSE @[t] \ {k \in K : Queued(s, k, t) /\ ~Holds(s, k, t)}]]

(* What t holds on k once the waiters at the front are granted: a holder's *)
(* mode becomes Exclusive.                                                 *)
GrantedMode(s, k, t) ==
    LET front == {i \in 1 .. Prefix(s, k) : s.queue[k][i].txn = t} IN
    IF front = {} THEN s.holders[k][t]
    ELSE IF Holds(s, k, t) THEN "Exclusive"
    ELSE s.queue[k][CHOOSE i \in front : TRUE].mode

(* Second half: grant the prefix. *)
Grant(s, K) ==
    [s EXCEPT
       !.holders = [k \in Keys |-> IF k \notin K THEN @[k]
                      ELSE [t \in Txns |-> GrantedMode(s, k, t)]],
       !.queue = [k \in Keys |-> IF k \notin K THEN @[k]
                    ELSE SubSeq(@[k], Prefix(s, k) + 1, Len(@[k]))],
       !.queuedWaiters =
           @ - Cardinality(UNION {{k} \X (1 .. Prefix(s, k)) : k \in K})]

ProcessKeys(s, K) == Grant(Purge(s, K), K)

(***************************************************************************)
(* The deadlock detector.                                                  *)
(***************************************************************************)
Excludes(s, k, i, u) ==
    Holds(s, k, u) /\ ~Compatible(s.queue[k][i].mode, s.holders[k][u])

\* Mutant: only holders block a waiter.
EdgeToHolder(s, t, u) ==
    \E k \in Keys : \E i \in DOMAIN s.queue[k] :
        /\ s.queue[k][i].txn = t /\ u # t
        /\ Excludes(s, k, i, u)

(* build_wait_for_graph: t waits for u. *)
Edge(s, t, u) ==
    \E k \in Keys : \E i \in DOMAIN s.queue[k] :
        /\ s.queue[k][i].txn = t /\ u # t
        /\ \/ Excludes(s, k, i, u)
           \/ \E j \in 1 .. i - 1 :
                /\ s.queue[k][j].txn = u
                /\ ~Compatible(s.queue[k][i].mode, s.queue[k][j].mode)

(* The sets of transactions that form a cycle.  find_cycle returns one of  *)
(* them; which one depends on its search order.                            *)
Cycles(s) ==
    LET E == {p \in Txns \X Txns : Edge(s, p[1], p[2])}
        Closed == {C \in (SUBSET Txns) \ {{}} :
                     \A t \in C : \E u \in C : <<t, u>> \in E}
    IN {C \in Closed : \E c \in SetToSeqs(C) :
          \A i \in DOMAIN c : <<c[i], c[(i % Len(c)) + 1]>> \in E}

(* choose_victim: the lowest priority, then the youngest. *)
Victim(C) ==
    CHOOSE v \in C : \A t \in C :
        \/ Priority[v] < Priority[t]
        \/ Priority[v] = Priority[t] /\ t <= v

\* Mutant: the victim leaves its queue without a fate.
DoomSilent(s, v) ==
    LET k == CHOOSE k \in Keys : Queued(s, k, v) IN RemoveWaiter(s, k, v)

(* The victim leaves its queue with a fate. *)
Doom(s, v) ==
    LET k == CHOOSE k \in Keys : Queued(s, k, v)
    IN [RemoveWaiter(s, k, v) EXCEPT !.fates[v] = "Deadlock"]

(* detect_deadlocks: until no cycle is left.  The possible outcomes. *)
Break(s) ==
    LET cycles == IF s.queuedWaiters = 0 THEN {} ELSE Cycles(s) IN
    IF cycles = {} THEN {s} ELSE {Doom(s, Victim(C)) : C \in cycles}

DetectDeadlocks(s) ==
    LET after[n \in 0 .. Cardinality(Txns)] ==
          IF n = 0 THEN {s} ELSE UNION {Break(x) : x \in after[n - 1]}
    IN after[Cardinality(Txns)]

-----------------------------------------------------------------------------
Init ==
    /\ inner = [holders |-> [k \in Keys |-> [t \in Txns |-> "none"]],
                queue |-> [k \in Keys |-> <<>>],
                txnKeys |-> [t \in Txns |-> {}],
                queuedWaiters |-> 0,
                fates |-> [t \in Txns |-> "none"]]
    /\ waiting = [t \in Txns |-> NoWait]
    /\ expired = {}

Running(t) == waiting[t] = NoWait

(* The hold t has already covers the request: acquire changes nothing. *)
Covered(t, k, m) ==
    \/ inner.holders[k][t] = "Exclusive"
    \/ inner.holders[k][t] = "Shared" /\ m = "Shared"

(* The request is granted at once: a free or compatible key with nobody    *)
(* queued, or the upgrade of its only holder.                              *)
Free(t, k, m) ==
    /\ inner.queue[k] = <<>>
    /\ \A u \in Txns \ {t} : Holds(inner, k, u) =>
         Compatible(m, inner.holders[k][u]) /\ ~Holds(inner, k, t)

AcquireFree(t, k, m) ==
    /\ Running(t)
    /\ ~Covered(t, k, m)
    /\ Free(t, k, m)
    /\ inner' = [inner EXCEPT !.holders[k][t] = m, !.txnKeys[t] = @ \cup {k}]
    /\ UNCHANGED <<waiting, expired>>

\* Mutant: a failed wait does not look at the queue it left.
LeaveQueueQuietly(s, k, t) == {Untrack(s, k, t)}

(* acquire after a failed wait: the queue behind t may go on. *)
LeaveQueue(s, k, t) ==
    {Untrack(x, k, t) : x \in DetectDeadlocks(ProcessKeys(s, {k}))}

Forget(s, t) == [s EXCEPT !.fates[t] = "none"]

(* Otherwise the request is queued and the wait-for graph checked.  If it  *)
(* is the victim itself it returns before the mutex is given up.           *)
AcquireWait(t, k, m) ==
    LET queued ==
          [inner EXCEPT !.queue[k] = Append(@, [txn |-> t, mode |-> m]),
                        !.queuedWaiters = @ + 1,
                        !.txnKeys[t] = @ \cup {k}]
    IN
    /\ Running(t)
    /\ ~Covered(t, k, m)
    /\ ~Free(t, k, m)
    /\ \E x \in DetectDeadlocks(queued) :
         \/ /\ x.fates[t] = "none"
            /\ inner' = x
            /\ waiting' = [waiting EXCEPT ![t] = [key |-> k, mode |-> m]]
         \/ /\ x.fates[t] # "none"
            /\ inner' \in LeaveQueue(Forget(x, t), k, t)
            /\ UNCHANGED waiting
    /\ UNCHANGED expired

(* The control of the request is cancelled, or a deadline passes. *)
Expire(t) ==
    /\ ~Running(t) /\ t \in Impatient \ expired
    /\ expired' = expired \cup {t}
    /\ UNCHANGED <<inner, waiting>>

(* wait_for_grant returns Ok. *)
WaitGranted(t) ==
    LET k == waiting[t].key IN
    /\ ~Running(t)
    /\ inner.fates[t] = "none"
    /\ ~Queued(inner, k, t)
    /\ Holds(inner, k, t)
    /\ waiting' = [waiting EXCEPT ![t] = NoWait]
    /\ expired' = expired \ {t}
    /\ UNCHANGED inner

StopWaiting(t) ==
    /\ waiting' = [waiting EXCEPT ![t] = NoWait]
    /\ expired' = expired \ {t}

(* wait_for_grant returns the recorded fate. *)
WaitDoomed(t) ==
    /\ ~Running(t)
    /\ inner.fates[t] # "none"
    /\ inner' \in LeaveQueue(Forget(inner, t), waiting[t].key, t)
    /\ StopWaiting(t)

(* wait_for_grant sees that the request is dead itself. *)
WaitCancelled(t) ==
    LET k == waiting[t].key IN
    /\ ~Running(t)
    /\ inner.fates[t] = "none"
    /\ Queued(inner, k, t)
    /\ t \in expired
    /\ inner' \in LeaveQueue(RemoveWaiter(inner, k, t), k, t)
    /\ StopWaiting(t)

Release(t, k) ==
    /\ Running(t)
    /\ Holds(inner, k, t)
    /\ inner' \in LeaveQueue([inner EXCEPT !.holders[k][t] = "none"], k, t)
    /\ UNCHANGED <<waiting, expired>>

(* release_all finds what t holds through txn_keys. *)
Dropped(t) ==
    [inner EXCEPT
       !.holders = [k \in Keys |->
                      IF k \in inner.txnKeys[t]
                      THEN [inner.holders[k] EXCEPT ![t] = "none"]
                      ELSE inner.holders[k]],
       !.txnKeys[t] = {}]

\* Mutant: release_all drops the holds and grants nobody.
ReleaseAllOnly(t) ==
    /\ Running(t)
    /\ inner' = Dropped(t)
    /\ UNCHANGED <<waiting, expired>>

(* release_all at the end of the transaction. *)
ReleaseAll(t) ==
    /\ Running(t)
    /\ inner' \in
         DetectDeadlocks(ProcessKeys(Dropped(t), inner.txnKeys[t]))
    /\ UNCHANGED <<waiting, expired>>

Acquire(t, k, m) ==
    AcquireFree(t, k, m) \/ AcquireWait(t, k, m)

Wake(t) == WaitGranted(t) \/ WaitDoomed(t) \/ WaitCancelled(t)

Next ==
    \E t \in Txns :
        \/ \E k \in Keys : Release(t, k) \/ \E m \in Modes : Acquire(t, k, m)
        \/ Wake(t)
        \/ ReleaseAll(t)
        \/ Expire(t)

(* A waiter polls, so a wait that can end does (these are the Wake steps); *)
(* a transaction ends, which lets go of all it holds.                      *)
CanWake(t) ==
    \/ inner.fates[t] # "none"
    \/ ~Queued(inner, waiting[t].key, t)
    \/ t \in expired

WaitEnds(t) ==
    /\ ~Running(t) /\ CanWake(t)
    /\ waiting' = [waiting EXCEPT ![t] = NoWait]

HoldsNothing(t) == \A k \in Keys : ~Holds(inner, k, t)

Fairness ==
    \A t \in Txns :
        /\ WF_waiting(WaitEnds(t))
        /\ []<>Running(t) => []<>HoldsNothing(t)

Spec == Init /\ [][Next]_vars /\ Fairness

-----------------------------------------------------------------------------
\* Types of Inner's fields; queued_waiters never exceeds the transactions, so
\* the count that detect_deadlocks and every queue removal keep stays exact.
TypeOK ==
    /\ inner.holders \in [Keys -> [Txns -> Modes \cup {"none"}]]
    /\ \A k \in Keys : inner.queue[k] \in Seq([txn : Txns, mode : Modes])
    /\ inner.txnKeys \in [Txns -> SUBSET Keys]
    /\ inner.queuedWaiters \in 0 .. Cardinality(Txns)
    /\ inner.fates \in [Txns -> {"none", "Deadlock", "Cancelled"}]
    /\ waiting \in [Txns -> {NoWait} \cup [key : Keys, mode : Modes]]
    /\ expired \subseteq Impatient

\* Mutual exclusion: acquire and process_key never let two transactions hold a
\* key in modes that exclude each other, upgrades of a Shared hold included.
HoldersCompatible ==
    \A k \in Keys, t, u \in Txns :
        t # u /\ Holds(inner, k, t) /\ Holds(inner, k, u) =>
            Compatible(inner.holders[k][t], inner.holders[k][u])

\* An entry leaves a queue by a grant or with a fate (wait_for_grant): a thread
\* that finds itself neither queued nor doomed holds at least the mode it asked
\* for, an upgrade too, whose old hold alone must not look like a grant.
GrantsAreReal ==
    \A t \in Txns :
        LET w == waiting[t] IN
        ~Running(t) /\ inner.fates[t] = "none" /\ ~Queued(inner, w.key, t) =>
            inner.holders[w.key][t] \in {w.mode, "Exclusive"}

\* t cannot go on before u leaves: u holds the key in a mode that excludes t,
\* or u is ahead of t in a queue that is served in order, whatever the modes.
BlockedBy(t, u) ==
    \E k \in Keys : \E i \in DOMAIN inner.queue[k] :
        /\ inner.queue[k][i].txn = t
        /\ u # t
        /\ \/ Excludes(inner, k, i, u)
           \/ \E j \in 1 .. i - 1 : inner.queue[k][j].txn = u

\* detect_deadlocks leaves no deadlock behind after any operation, although the
\* wait-for graph has fewer edges than the strict FIFO queues have waits.
NoDeadlock ==
    \A C \in (SUBSET Txns) \ {{}} :
        \E t \in C : \A u \in C : ~BlockedBy(t, u)

\* No lost grant: when the waiter at the front of a queue could be granted, a
\* doomed thread that left this queue has yet to wake, and acquire's error path
\* then serves the queue.
GrantableHasWaker ==
    \A k \in Keys :
        inner.queue[k] # <<>> /\ Grantable(inner, k, 1) =>
            \E t \in Txns : inner.fates[t] # "none" /\ waiting[t].key = k

\* release_all finds everything a transaction has through txn_keys: no hold and
\* no queue entry is ever missing from it, whatever was purged or released.
ReleaseAllFindsAll ==
    \A t \in Txns, k \in Keys :
        Holds(inner, k, t) \/ Queued(inner, k, t) => k \in inner.txnKeys[t]

\* acquire returns: with waiters that poll and transactions that end, nobody
\* waits forever, with or without a deadline.
EveryWaitEnds == \A t \in Txns : waiting[t] # NoWait ~> waiting[t] = NoWait
=============================================================================
