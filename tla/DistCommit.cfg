SPECIFICATION FairSpec
CONSTANTS
    Txns = {t1}
    Tablets = {p1, p2}
    Drivers = {d1}
    WriteSets = {{p1}, {p1, p2}}
    Clock = {1}
    Times = {1, 2, 3}
    Observed = {0, 2}
INVARIANT ResolutionsFollowRecord
INVARIANT CommitIsWhole
INVARIANT AnswersAreFinal
INVARIANT CommitTimestamps
PROPERTY ImplementsAtomicCommit
PROPERTY OrphansResolved
