-------------------------- MODULE MCTxnValidation ---------------------------
(***************************************************************************)
(* TxnValidation on two records and a handful of transaction programs.     *)
(***************************************************************************)
EXTENDS TxnValidation, TLC

CONSTANTS x, y

Prog(ser, gets, scan, puts, deletes, trunc) ==
    [serializable |-> ser, gets |-> gets, scan |-> scan, puts |-> puts,
     deletes |-> deletes, truncate |-> trunc]

\* Writers under RepeatableRead: delete x, put x, truncate.
WriteX  == Prog(FALSE, {}, FALSE, {}, {x}, FALSE)
PutX    == Prog(FALSE, {}, FALSE, {x}, {}, FALSE)
Truncate == Prog(FALSE, {}, FALSE, {}, {}, TRUE)
\* Serializable transactions that read x, or scan, and write y.
ReadXWriteY == Prog(TRUE, {x}, FALSE, {}, {y}, FALSE)
ScanWriteY  == Prog(TRUE, {}, TRUE, {}, {y}, FALSE)

AllPrograms    == {WriteX, PutX, Truncate, ReadXWriteY, ScanWriteY}
WritePrograms  == {WriteX, Truncate}
UpsertPrograms == {PutX, ReadXWriteY}

SessionSymmetry == Permutations(Sessions)
=============================================================================
