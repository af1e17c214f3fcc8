-------------------------- MODULE MCTableRecovery --------------------------
(***************************************************************************)
(* TableRecovery for TLC: the transaction threads are interchangeable.     *)
(***************************************************************************)
EXTENDS TableRecovery, TLC

TxnSymmetry == Permutations(Txns)

\* The epoch and the job of an idle thread are leftovers that no action reads.
Busy(f) == [t \in {u \in Threads : pc[u] # "idle"} |-> f[t]]
View == <<mode, authority, disk, table, locks, pc, Busy(job), Busy(epoch),
          acked, overtaken, dropped, faults, allowed>>
=============================================================================
