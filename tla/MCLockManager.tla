--------------------------- MODULE MCLockManager ---------------------------
(***************************************************************************)
(* LockManager for TLC: transaction ids order the transactions by age, and *)
(* the youngest of three has an explicit priority, so both rules that      *)
(* choose a deadlock victim are used.                                      *)
(***************************************************************************)
EXTENDS LockManager

MCPriority == [t \in Txns |-> IF t = 3 THEN 1 ELSE 0]
=============================================================================
