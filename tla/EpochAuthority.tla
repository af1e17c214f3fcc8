--------------------------- MODULE EpochAuthority ---------------------------
(***************************************************************************)
(* crates/mongreldb-core/src/epoch.rs: the dual-counter commit clock.      *)
(*                                                                         *)
(* A committer takes a ticket (bump_assigned) under the commit lock and    *)
(* later resolves it with publish_in_order or, when its EpochGuard is      *)
(* dropped armed, with abandon.  Two kinds of committer share the clock:   *)
(* Table::commit, DDL and CommitLog::propose keep the commit lock until    *)
(* they have published; the transaction path (`txns`) of Database releases *)
(* it as soon as its records are appended, so it waits for durability,     *)
(* applies and publishes concurrently with everybody else.                 *)
(*                                                                         *)
(* Grain: publish_in_order is three steps, because the code raises         *)
(* `committed` before it takes the set locks and stores `visible` after it *)
(* has dropped them.  The locked section in between touches shared state   *)
(* that is not lock-protected at one point only (the load of `visible`),   *)
(* so it is one step.                                                      *)
(***************************************************************************)
EXTENDS Integers, FiniteSets

CONSTANTS
    Threads,      \* committing threads
    TxnThreads,   \* those that may run the cross-table transaction path
    Start,        \* the epoch the authority is opened with
    MaxEpoch,     \* bound on tickets, for model checking
    FaultHooks,   \* whether the commit.publish.after hook may fail
    NoThread      \* the commit lock is free

ASSUME EpochAssumptions ==
    /\ TxnThreads \subseteq Threads
    /\ Start \in Nat
    /\ MaxEpoch \in Nat
    /\ FaultHooks \in BOOLEAN
    /\ NoThread \notin Threads

VARIABLES
    assigned, visible, committed,   \* the three atomics
    pending, abandoned,             \* the two mutexed sets
    commitLock,                     \* holder of Database::commit_lock
    pc,                             \* where each thread is
    ticket,                         \* the epoch a thread has taken
    target,                         \* `vis` computed under the set locks
    txns                            \* threads whose commits are transactions

clock == <<assigned, visible, committed>>
sets  == <<pending, abandoned>>
vars  == <<assigned, visible, committed, pending, abandoned,
           commitLock, pc, ticket, target, txns>>

PCs == {"idle", "held", "raised", "storing", "published", "dropping"}

MaxOf(a, b) == IF a >= b THEN a ELSE b

(***************************************************************************)
(* EpochAuthority::new(start)                                              *)
(***************************************************************************)
Init ==
    /\ assigned = Start /\ visible = Start /\ committed = Start
    /\ pending = {} /\ abandoned = {}
    /\ commitLock = NoThread
    /\ pc = [t \in Threads |-> "idle"]
    /\ ticket = [t \in Threads |-> 0]
    /\ target = [t \in Threads |-> 0]
    /\ txns \in SUBSET TxnThreads

\* Mutant: the next ticket is computed from a load instead of a fetch_add.
BumpAssignedLoad(t) ==
    /\ pc[t] = "idle" /\ commitLock = NoThread
    /\ assigned < MaxEpoch
    /\ ticket' = [ticket EXCEPT ![t] = assigned + 1]
    /\ pc' = [pc EXCEPT ![t] = "held"]
    /\ commitLock' = t
    /\ UNCHANGED <<txns, clock, sets, target>>

\* Take the next ticket under the commit lock; the EpochGuard is now armed.
BumpAssigned(t) ==
    /\ pc[t] = "idle" /\ commitLock = NoThread
    /\ assigned < MaxEpoch
    /\ assigned' = assigned + 1
    /\ ticket' = [ticket EXCEPT ![t] = assigned + 1]
    /\ pc' = [pc EXCEPT ![t] = "held"]
    /\ commitLock' = t
    /\ UNCHANGED <<txns, visible, committed, sets, target>>

\* The transaction path drops the commit lock once its records are appended.
ReleaseCommitLock(t) ==
    /\ t \in txns /\ pc[t] = "held" /\ commitLock = t
    /\ commitLock' = NoThread
    /\ UNCHANGED <<txns, clock, sets, pc, ticket, target>>

\* publish_in_order, first step: raise `committed`.
PublishRaise(t) ==
    /\ pc[t] = "held"
    /\ t \in txns => commitLock # t
    /\ committed' = MaxOf(committed, ticket[t])
    /\ pc' = [pc EXCEPT ![t] = "raised"]
    /\ UNCHANGED <<txns, assigned, visible, sets, commitLock, ticket, target>>

\* The loop under the set locks, over the sets p (pending) and a (abandoned):
\* from the loaded `visible` it consumes the run of resolved epochs.
Absorb(t, p, a) ==
    \E n \in visible..assigned :
        /\ ((visible + 1)..n) \subseteq (p \cup a)
        /\ (n + 1) \notin (p \cup a)
        /\ pending' = p \ ((visible + 1)..n)
        /\ abandoned' = a \ (((visible + 1)..n) \ p)
        /\ target' = [target EXCEPT ![t] = n]

\* publish_in_order, second step: record the epoch and absorb.
PublishAbsorb(t) ==
    /\ pc[t] = "raised"
    /\ Absorb(t, pending \cup {ticket[t]}, abandoned)
    /\ pc' = [pc EXCEPT ![t] = "storing"]
    /\ UNCHANGED <<txns, clock, commitLock, ticket>>

\* Mutant: abandon forgets to record the epoch.
AbandonUnrecorded(t) ==
    /\ \/ pc[t] = "held"
       \/ pc[t] = "published" /\ FaultHooks
    /\ Absorb(t, pending \ {ticket[t]}, abandoned)
    /\ pc' = [pc EXCEPT ![t] = "dropping"]
    /\ UNCHANGED <<txns, clock, commitLock, ticket>>

\* Mutant: abandon records the epoch and leaves the watermark to the next publish.
AbandonWithoutAbsorb(t) ==
    /\ \/ pc[t] = "held"
       \/ pc[t] = "published" /\ FaultHooks
    /\ pending' = pending \ {ticket[t]}
    /\ abandoned' = abandoned \cup {ticket[t]}
    /\ target' = [target EXCEPT ![t] = visible]
    /\ pc' = [pc EXCEPT ![t] = "dropping"]
    /\ UNCHANGED <<txns, clock, commitLock, ticket>>

\* abandon(e), locked part: a failed commit drops its armed guard; so does a
\* commit that fails at the hook after publication (its guard is still armed).
AbandonAbsorb(t) ==
    /\ \/ pc[t] = "held"
       \/ pc[t] = "published" /\ FaultHooks
    /\ Absorb(t, pending \ {ticket[t]}, abandoned \cup {ticket[t]})
    /\ pc' = [pc EXCEPT ![t] = "dropping"]
    /\ UNCHANGED <<txns, clock, commitLock, ticket>>

\* Mutant: the publisher stores its own epoch instead of the absorbed watermark.
PublishVisibleOwn(t) ==
    /\ pc[t] \in {"storing", "dropping"}
    /\ visible' = MaxOf(visible, ticket[t])
    /\ pc' = [pc EXCEPT ![t] = IF pc[t] = "storing" THEN "published" ELSE "idle"]
    /\ commitLock' = IF pc[t] = "dropping" /\ commitLock = t
                     THEN NoThread ELSE commitLock
    /\ UNCHANGED <<txns, assigned, committed, sets, ticket, target>>

\* Mutant: a plain store in place of the compare-and-swap maximum.
PublishVisibleStore(t) ==
    /\ pc[t] \in {"storing", "dropping"}
    /\ visible' = target[t]
    /\ pc' = [pc EXCEPT ![t] = IF pc[t] = "storing" THEN "published" ELSE "idle"]
    /\ commitLock' = IF pc[t] = "dropping" /\ commitLock = t
                     THEN NoThread ELSE commitLock
    /\ UNCHANGED <<txns, assigned, committed, sets, ticket, target>>

\* publish_visible after the set locks are dropped: an atomic maximum.
PublishVisible(t) ==
    /\ pc[t] \in {"storing", "dropping"}
    /\ visible' = MaxOf(visible, target[t])
    /\ pc' = [pc EXCEPT ![t] = IF pc[t] = "storing" THEN "published" ELSE "idle"]
    /\ commitLock' = IF pc[t] = "dropping" /\ commitLock = t
                     THEN NoThread ELSE commitLock
    /\ UNCHANGED <<txns, assigned, committed, sets, ticket, target>>

\* The publisher disarms its guard and returns, releasing a lock it still holds.
Disarm(t) ==
    /\ pc[t] = "published"
    /\ pc' = [pc EXCEPT ![t] = "idle"]
    /\ commitLock' = IF commitLock = t THEN NoThread ELSE commitLock
    /\ UNCHANGED <<txns, clock, sets, ticket, target>>

\* advance_recovered, on the open path and on a replica: no ticket is out.
AdvanceRecovered(e) ==
    /\ \A t \in Threads : pc[t] = "idle"
    /\ assigned' = MaxOf(assigned, e)
    /\ visible' = MaxOf(visible, e)
    /\ committed' = MaxOf(committed, e)
    /\ UNCHANGED <<txns, sets, commitLock, pc, ticket, target>>

Step(t) ==
    \/ BumpAssigned(t)  \/ ReleaseCommitLock(t)
    \/ PublishRaise(t)  \/ PublishAbsorb(t)
    \/ AbandonAbsorb(t) \/ PublishVisible(t) \/ Disarm(t)

Next ==
    \/ \E t \in Threads : Step(t)
    \/ \E e \in 1..MaxEpoch : AdvanceRecovered(e)

Spec == Init /\ [][Next]_vars

-----------------------------------------------------------------------------
InFlight(t) == pc[t] \in {"held", "raised"}

\* Types: the watermark, the recorded epochs and every ticket and computed
\* target stay at or below the last assigned epoch (bump_assigned).
TypeOK ==
    /\ assigned \in Nat /\ visible \in Nat /\ committed \in Nat
    /\ pending \subseteq 1..assigned /\ abandoned \subseteq 1..assigned
    /\ commitLock \in Threads \cup {NoThread}
    /\ pc \in [Threads -> PCs]
    /\ ticket \in [Threads -> 0..assigned]
    /\ target \in [Threads -> 0..assigned]
    /\ visible <= assigned
    /\ txns \subseteq TxnThreads

\* A reader that pins `visible` never covers an epoch whose committer has not
\* resolved it yet: publish_in_order may not jump over an in-flight commit.
VisibleOnlyResolved ==
    \A t \in Threads : InFlight(t) => visible < ticket[t]

\* No resolved ticket is forgotten: it is visible, waits in one of the two
\* sets, or lies under a watermark some thread is about to store.
NoEpochLost ==
    \A e \in 1..assigned :
        \/ e <= visible
        \/ e \in pending \cup abandoned
        \/ \E t \in Threads : InFlight(t) /\ ticket[t] = e
        \/ \E t \in Threads : pc[t] \in {"storing", "dropping"} /\ e <= target[t]

\* Once every commit has returned, the watermark has reached the last ticket:
\* no resolved epoch stays invisible (commit_log.rs: "the visibility watermark
\* never stalls behind an epoch hole").
QuiescentCaughtUp ==
    (\A t \in Threads : pc[t] = "idle") => visible = assigned

\* As long as every committer keeps the commit lock until it has published,
\* each of its commits, whatever abandons preceded it, is visible when it
\* returns (engine.rs, commit_shared: "each returns only once its epoch is
\* visible") and the watermark rests at the last ticket.
LockedCommitVisible ==
    txns = {} =>
        /\ QuiescentCaughtUp
        /\ \A t \in Threads : pc[t] = "published" => ticket[t] <= visible

-----------------------------------------------------------------------------
\* Tickets that are no longer in flight.
Resolved ==
    {e \in 1..assigned : \A t \in Threads : InFlight(t) => ticket[t] # e}

Watermark == INSTANCE EpochWatermark WITH resolved <- Resolved

\* The two-lock, three-atomic implementation behaves as the abstract watermark:
\* every step is one of its steps or changes nothing a reader or committer sees.
ImplementsWatermark == Watermark!WatermarkSpec
=============================================================================
