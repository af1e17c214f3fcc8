------------------------- MODULE MCSnapshotRetention -------------------------
(* SnapshotRetention for TLC. *)
EXTENDS SnapshotRetention

\* The runs some reader is asked about later.
Watched == UNION {gen[r] : r \in {s \in Readers : Scoring(s) \/ pc[s] = "scored"}}

\* What the behaviour from a state on, and the properties, depend on.  Left out
\* are how the rows are spread over the runs, retired runs of no live
\* generation, the snapshot of a transaction, the start of a window that is off
\* or has moved past it, and dropped versions later than the first.
View ==
    LET first(e, n) == IF n = 0 THEN 0
                       ELSE IF e > visible - n THEN e ELSE visible - n
        mine(x) == x.id \in Watched
        reader(r) == IF pc[r] = "txn" THEN <<"txn">>
                     ELSE <<pc[r], snap[r], pc[r] \in {"taken", "pinned"} /\ upto[r] = snap[r]>>
    IN << authority, ledger \cap (visible..assigned), versions, dead, Oldest(dropped),
          memtable, tier, RowsOf(runs), {x.id : x \in runs}, lastRun,
          {x \in retiring : mine(x)}, {x \in reaped : mine(x)}, txns,
          <<history.epochs, first(history.start, history.epochs)>>,
          IF setting.on THEN <<setting.epochs, first(setting.start, setting.epochs)>> ELSE <<>>,
          compaction,
          IF collector.on
          THEN <<collector.pinned, collector.floor, collector.pins \cap Watched>> ELSE <<>>,
          [r \in Readers |-> reader(r)], Watched, raced >>
=============================================================================
