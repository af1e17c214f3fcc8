---------------------------- MODULE AtomicCommit ----------------------------
(***************************************************************************)
(* What a distributed commit promises, without messages, drivers and       *)
(* failures: a transaction takes the tablets it writes, is decided once,   *)
(* can be committed only while it holds every one of them, and leaves a    *)
(* tablet by applying its rows there, or none if it was aborted.           *)
(***************************************************************************)
CONSTANTS Txns, Tablets

VARIABLES
    writes,    \* the tablets each transaction writes
    decision,  \* of each transaction, "none" while undecided
    locks,     \* <<t, p>>: t holds tablet p
    rows       \* <<t, p>>: the rows t wrote are in p

avars == <<writes, decision, locks, rows>>

AtomicInit ==
    /\ writes \in [Txns -> SUBSET Tablets]
    /\ decision = [t \in Txns |-> "none"]
    /\ locks = {}
    /\ rows = {}

Lock(t, p) ==
    /\ \A u \in Txns \ {t} : <<u, p>> \notin locks
    /\ locks' = locks \cup {<<t, p>>}
    /\ UNCHANGED <<writes, decision, rows>>

CommitTxn(t) ==
    /\ decision[t] = "none"
    /\ \A p \in writes[t] : <<t, p>> \in locks
    /\ decision' = [decision EXCEPT ![t] = "Committed"]
    /\ UNCHANGED <<writes, locks, rows>>

AbortTxn(t) ==
    /\ decision[t] = "none"
    /\ decision' = [decision EXCEPT ![t] = "Aborted"]
    /\ UNCHANGED <<writes, locks, rows>>

Leave(t, p) ==
    /\ decision[t] # "none"
    /\ <<t, p>> \in locks
    /\ locks' = locks \ {<<t, p>>}
    /\ rows' = IF decision[t] = "Committed" THEN rows \cup {<<t, p>>} ELSE rows
    /\ UNCHANGED <<writes, decision>>

AtomicNext ==
    \E t \in Txns :
        \/ CommitTxn(t)
        \/ AbortTxn(t)
        \/ \E p \in Tablets : Lock(t, p) \/ Leave(t, p)

AtomicSpec == AtomicInit /\ [][AtomicNext]_avars
=============================================================================
