---------------------- MODULE SnapshotRetentionProofs -----------------------
(***************************************************************************)
(* SnapshotRetention for any committers, readers, windows and bounds: what *)
(* a registered reader and the history window find, whatever compaction    *)
(* and the collectors do, and which run files stay.                        *)
(***************************************************************************)
EXTENDS SnapshotRetention, WellFoundedInduction, TLAPS

-----------------------------------------------------------------------------
(* The inductive invariant *)

\* Reads, of any set of versions S with tombstones D.
Newest(S, D, e) == {v \in S \ D : v <= e /\ \A w \in S : w <= e => w <= v}

\* Two sets of versions give the same answer at e.
Alike(S, T, D, e) == Newest(S, D, e) = Newest(T, D, e)

\* The stored versions answer a read at e as all versions ever committed do,
\* unless a failure left some up to e out of the table.
Truthful(e) == Intact(e) => Alike(Stored, versions, dead, e)

\* Versions appended and not applied to the table yet.
Unapplied == {committing[c] : c \in {d \in Committers : committing[d] # 0 /\ d \notin applied}}

\* Versions stored, and those still to be; they answer a read at e as all
\* versions ever committed do.
Written == Stored \cup Unapplied
Faithful(e) == Intact(e) => Alike(Written, versions, dead, e)

\* Readers whose snapshot is to be kept, registered or not yet, and readers
\* whose run files are, pinned in time or not yet.
Holding == {r \in Readers : pc[r] \in {"taken", "pinned"}}
Scored == {r \in Readers : (Scoring(r) \/ pc[r] = "scored") /\ r \notin raced}

\* The memory that a compaction in progress leaves alone, and what is stored
\* once it is published.
Rest == memtable \cup IF compaction.pending THEN tier ELSE {}
Outcome == compaction.keep \cup Rest

\* The types TypeOK leaves out: the calls in progress.
Types ==
    /\ TypeOK
    /\ setting = Off \/ (setting.on /\ setting.epochs \in Windows /\ setting.start \in 0..visible)
    /\ compaction = Off \/ (/\ compaction.on /\ compaction.pending \in BOOLEAN
                            /\ compaction.epoch \in 0..visible /\ lastRun < MaxRun
                            /\ compaction.keep \subseteq Stored)
    /\ collector = Off \/ (/\ collector.on /\ collector.pinned \in BOOLEAN
                           /\ collector.floor \subseteq 0..visible /\ collector.floor # {})

\* Epochs in flight are not resolved, and each is one transaction's delete.
Clock ==
    /\ \A e \in 1..visible : e \in resolved
    /\ \A c \in Committers : committing[c] # 0 =>
         committing[c] \in dead /\ committing[c] \notin resolved
    /\ \A c, d \in Committers : committing[c] = committing[d] /\ committing[c] # 0 => c = d
    /\ \A c \in applied : committing[c] # 0

\* Rows in memory are later than the rows in the runs, and those of the memtable
\* later than the tier's, tombstones excepted.
Fresh ==
    /\ \A v \in (memtable \cup tier) \ dead : \A w \in RowsOf(runs) : w < v
    /\ \A v \in memtable \ dead : \A w \in tier : w < v

\* What is stored, with what is still to be applied, answers every read from
\* the visible epoch on; the window and the readers are answered too.
Answers ==
    /\ "ahead" \notin raced => \A e \in visible..MaxEpoch : Faithful(e)
    /\ raced \cap {"ahead", "history"} = {} =>
         /\ \A h \in HistoryFloor : \A e \in h..visible : Truthful(e)
         /\ setting.on => \A e \in setting.start..visible : Truthful(e)
    /\ \A r \in Holding : raced \cap {r, "ahead", "history"} = {} => Truthful(snap[r])

\* Nobody whose answers are promised reads below the epoch f.
NoneBelow(f) ==
    /\ \A r \in Holding : raced \cap {r, "history"} = {} => f <= snap[r]
    /\ "history" \notin raced =>
         /\ \A h \in HistoryFloor : f <= h
         /\ setting.on => f <= setting.start

\* A compaction in progress keeps every answer from the epoch f on.
KeepsFrom(f) ==
    /\ \A e \in f..MaxEpoch : Alike(Outcome, Stored, dead, e)
    /\ NoneBelow(f)

Merging ==
    compaction.on =>
        /\ \A v \in Rest \ dead : \A w \in compaction.keep : w < v
        /\ "ahead" \notin raced =>
             /\ \A w \in Stored \ Outcome : w <= compaction.epoch
             /\ \E f \in 0..compaction.epoch : KeepsFrom(f)

\* Run ids are fresh; a run that a scored generation reads retires at its epoch
\* or later, and once both have read what they go by, a collector knows of the
\* generation's files or has a floor that is not past its epoch.
Files ==
    /\ \A x \in runs : x.id <= lastRun
    /\ \A r \in Scored :
         /\ \A x \in retiring \cup reaped : x.id \in gen[r] => snap[r] <= x.epoch
         /\ \A x \in reaped : x.id \in gen[r] => x.epoch = snap[r]
         /\ compaction.on => snap[r] <= compaction.epoch
         /\ pc[r] = "scored" /\ collector.on /\ collector.pinned =>
              gen[r] \subseteq collector.pins \/ \E f \in collector.floor : f <= snap[r]

IInv == Types /\ Clock /\ Fresh /\ Answers /\ Merging /\ Files

-----------------------------------------------------------------------------
(* Reading a set of versions *)

\* A read at e depends on the versions up to e only.
LEMMA NewestLocal ==
  ASSUME NEW S, NEW T, NEW D, NEW E, NEW e,
         \A v : v <= e => (v \in S <=> v \in T),
         \A v \in S : v <= e => (v \in D <=> v \in E)
  PROVE  Newest(S, D, e) = Newest(T, E, e)
<1>1. \A v : v \in Newest(S, D, e) <=>
          v \in S /\ v \notin D /\ v <= e /\ \A w \in S : w <= e => w <= v
  BY DEF Newest
<1>2. \A v : v \in Newest(T, E, e) <=>
          v \in T /\ v \notin E /\ v <= e /\ \A w \in T : w <= e => w <= v
  BY DEF Newest
<1>3. \A v : v \in Newest(S, D, e) <=> v \in Newest(T, E, e)
  BY <1>1, <1>2
<1> QED BY <1>3

\* Whether two sets agree at e depends on their versions up to e only.
LEMMA AlikeLocal ==
  ASSUME NEW S, NEW S2, NEW T, NEW T2, NEW D, NEW E, NEW e,
         \A v : v <= e => (v \in S <=> v \in S2),
         \A v : v <= e => (v \in T <=> v \in T2),
         \A v \in S \cup T : v <= e => (v \in D <=> v \in E),
         Alike(S, T, D, e)
  PROVE  Alike(S2, T2, E, e)
<1>1. Newest(S, D, e) = Newest(S2, E, e)
  BY NewestLocal
<1>2. Newest(T, D, e) = Newest(T2, E, e)
  BY NewestLocal
<1> QED BY <1>1, <1>2 DEF Alike

\* B is A with the version n.
With(B, A, n) == B = A \cup {n}

\* A new version, later than all there are, keeps two sets alike.
LEMMA NewestAppend ==
  ASSUME NEW A, NEW V, NEW D, NEW E, NEW e, NEW n, n \in Int, e \in Int,
         A \subseteq V, V \subseteq Int, \A v \in V : v < n,
         \A v \in V : v \in E <=> v \in D,
         NEW An, With(An, A, n), NEW Vn, With(Vn, V, n),
         Alike(A, V, D, e)
  PROVE  Alike(An, Vn, E, e)
<1> USE DEF With, Alike
<1>1. CASE e < n
  <2>1. /\ \A v : v <= e => (v \in An <=> v \in A)
        /\ \A v : v <= e => (v \in Vn <=> v \in V)
        /\ \A v \in An : v <= e => (v \in E <=> v \in D)
        /\ \A v \in Vn : v <= e => (v \in E <=> v \in D)
    BY <1>1
  <2>2. Newest(An, E, e) = Newest(A, D, e)
    BY ONLY <2>1, NewestLocal
  <2>3. Newest(Vn, E, e) = Newest(V, D, e)
    BY ONLY <2>1, NewestLocal
  <2> QED BY <2>2, <2>3
<1>2. CASE n <= e
  <2>1. ASSUME NEW v \in Newest(An, E, e) PROVE v \in Newest(Vn, E, e)
    <3>1. v \in An /\ v \notin E /\ v <= e /\ n <= v
      BY <1>2, <2>1 DEF Newest
    <3>2. v = n
      BY <3>1
    <3> QED BY <1>2, <3>1, <3>2 DEF Newest
  <2>2. ASSUME NEW v \in Newest(Vn, E, e) PROVE v \in Newest(An, E, e)
    <3>1. v \in Vn /\ v \notin E /\ v <= e /\ n <= v
      BY <1>2, <2>2 DEF Newest
    <3>2. v = n
      BY <3>1
    <3> QED BY <1>2, <3>1, <3>2 DEF Newest
  <2> QED BY <2>1, <2>2
<1> QED BY <1>1, <1>2

\* Versions later than all that A lacks of S keep the two alike.
LEMMA NewestMore ==
  ASSUME NEW A, NEW S, NEW X, NEW D, NEW e, NEW m \in Int,
         A \subseteq S, S \subseteq Int, X \subseteq Int,
         \A w \in S \ A : w <= m, \A x \in X : m < x,
         NEW Ax, Ax = A \cup X, NEW Sx, Sx = S \cup X,
         Alike(A, S, D, e)
  PROVE  Alike(Ax, Sx, D, e)
<1> USE DEF Alike
<1>1. ASSUME NEW v \in Newest(Ax, D, e) PROVE v \in Newest(Sx, D, e)
  <2>1. v \in A \cup X /\ v \notin D /\ v <= e /\ \A w \in A \cup X : w <= e => w <= v
    BY <1>1 DEF Newest
  <2>2. ASSUME NEW w \in S, w <= e PROVE w <= v
    <3>1. CASE v \in X
      <4>1. CASE w \in A
        BY <2>1, <2>2, <4>1
      <4>2. CASE w \notin A
        BY <3>1, <2>2, <4>2
      <4> QED BY <4>1, <4>2
    <3>2. CASE v \in A
      <4>1. v \in Newest(A, D, e)
        BY <2>1, <3>2 DEF Newest
      <4>2. v \in Newest(S, D, e)
        BY <4>1
      <4> QED BY <2>2, <4>2 DEF Newest
    <3> QED BY <2>1, <3>1, <3>2
  <2> QED BY <2>1, <2>2 DEF Newest
<1>2. ASSUME NEW v \in Newest(Sx, D, e) PROVE v \in Newest(Ax, D, e)
  <2>1. v \in S \cup X /\ v \notin D /\ v <= e /\ \A w \in S \cup X : w <= e => w <= v
    BY <1>2 DEF Newest
  <2>2. CASE v \in X
    BY <2>1, <2>2 DEF Newest
  <2>3. CASE v \in S
    <3>1. v \in Newest(S, D, e)
      BY <2>1, <2>3 DEF Newest
    <3>2. v \in A
      BY <3>1 DEF Newest
    <3> QED BY <2>1, <3>2 DEF Newest
  <2> QED BY <2>1, <2>2, <2>3
<1> QED BY <1>1, <1>2

\* What select_keep keeps of S, above a floor f: every read from f on of S and
\* of versions R outside the merge, whose rows are later than S, is the same.
LEMMA KeepAboveFloor ==
  ASSUME NEW S, NEW R, NEW f \in Int, NEW e \in Int, f <= e,
         S \subseteq Int, R \subseteq Int,
         \A v \in R \ dead : \A w \in S : w < v,
         NEW F, F = {f}, NEW K, K = SelectKeep(S, F),
         NEW Kr, Kr = K \cup R, NEW Sr, Sr = S \cup R
  PROVE  K \subseteq S /\ Alike(Kr, Sr, dead, e)
<1> USE DEF Alike
<1>1. PICK recent : recent = {v \in S : v >= f}
  OBVIOUS
<1>2. PICK boundary : boundary = {v \in S \ recent : \A w \in S \ recent : w <= v}
  OBVIOUS
<1>4. K = recent \cup IF f \in recent THEN {}
                      ELSE IF recent = {} THEN boundary \ dead ELSE boundary
  <2>1. recent = {v \in S : \A g \in F : v >= g}
    BY <1>1
  <2>2. F # {} /\ ((recent \cap F # {}) <=> f \in recent)
    OBVIOUS
  <2> QED BY <1>2, <2>1, <2>2 DEF SelectKeep
<1>5. K \subseteq S
  BY <1>1, <1>2, <1>4
<1>6. ASSUME NEW v \in Newest(Sr, dead, e) PROVE v \in Newest(Kr, dead, e)
  <2>1. v \in S \cup R /\ v \notin dead /\ v <= e /\ \A w \in S \cup R : w <= e => w <= v
    BY <1>6 DEF Newest
  <2>2. v \in K \cup R
    <3> SUFFICES ASSUME v \in S, v < f PROVE v \in K
      BY <1>1, <1>4, <2>1
    <3>1. f \notin recent
      BY <1>1, <2>1
    <3>2. v \in boundary
      BY <1>1, <1>2, <2>1
    <3> QED BY <1>4, <2>1, <3>1, <3>2
  <2> QED BY <1>5, <2>1, <2>2 DEF Newest
<1>7. ASSUME NEW v \in Newest(Kr, dead, e) PROVE v \in Newest(Sr, dead, e)
  <2>1. v \in K \cup R /\ v \notin dead /\ v <= e /\ \A w \in K \cup R : w <= e => w <= v
    BY <1>7 DEF Newest
  <2>2. ASSUME NEW w \in S, w <= e PROVE w <= v
    <3>1. CASE v \in R
      BY <2>1, <2>2, <3>1
    <3>2. CASE w \in recent
      BY <1>4, <2>1, <2>2, <3>2
    <3>3. CASE v \in K /\ w \notin recent
      <4>1. v \in recent \/ v \in boundary
        BY <1>4, <3>3
      <4>2. v \in recent => w <= v
        BY <1>1, <2>2, <3>3
      <4>3. v \in boundary => w <= v
        BY <1>2, <2>2, <3>3
      <4> QED BY <4>1, <4>2, <4>3
    <3> QED BY <2>1, <3>1, <3>2, <3>3
  <2> QED BY <1>5, <2>1, <2>2 DEF Newest
<1> QED BY <1>5, <1>6, <1>7

\* Without a floor only the newest row is kept, which serves reads from the
\* newest version on.
LEMMA KeepNewestOnly ==
  ASSUME NEW S, NEW R, NEW e \in Int,
         S \subseteq Int, R \subseteq Int, \A w \in S : w <= e,
         \A v \in R \ dead : \A w \in S : w < v,
         NEW K, K = SelectKeep(S, {}), NEW Kr, Kr = K \cup R, NEW Sr, Sr = S \cup R
  PROVE  K \subseteq S /\ Alike(Kr, Sr, dead, e)
<1> USE DEF Alike
<1>2. K = {v \in S \ dead : \A w \in S : w <= v}
  BY DEF SelectKeep
<1>3. ASSUME NEW v \in Newest(Sr, dead, e) PROVE v \in Newest(Kr, dead, e)
  <2>1. v \in S \cup R /\ v \notin dead /\ v <= e /\ \A w \in S \cup R : w <= e => w <= v
    BY <1>3 DEF Newest
  <2>2. v \in K \cup R
    BY <1>2, <2>1
  <2> QED BY <1>2, <2>1, <2>2 DEF Newest
<1>4. ASSUME NEW v \in Newest(Kr, dead, e) PROVE v \in Newest(Sr, dead, e)
  <2>1. v \in K \cup R /\ v \notin dead /\ v <= e /\ \A w \in K \cup R : w <= e => w <= v
    BY <1>4 DEF Newest
  <2>2. ASSUME NEW w \in S, w <= e PROVE w <= v
    <3>1. CASE v \in R
      BY <2>1, <2>2, <3>1
    <3>2. CASE v \in K
      BY <1>2, <2>2, <3>2
    <3> QED BY <2>1, <3>1, <3>2
  <2> QED BY <1>2, <2>1, <2>2 DEF Newest
<1> QED BY <1>2, <1>3, <1>4

-----------------------------------------------------------------------------
(* Facts about a state *)

\* A set of naturals has a smallest element.
LEMMA HasMin ==
  ASSUME NEW S, S \subseteq Nat, S # {}
  PROVE  \E m \in S : \A n \in S : m <= n
<1>1. PICK L : L = OpToRel(<, Nat)
  OBVIOUS
<1>2. IsWellFoundedOn(L, Nat)
  BY <1>1, NatLessThanWellFounded
<1>3. PICK m \in S : \A n \in S : <<n, m>> \notin L
  BY <1>2, WFMin
<1>4. ASSUME NEW n \in S PROVE ~(n < m)
  BY <1>1, <1>3 DEF OpToRel
<1> QED BY <1>3, <1>4

\* The oldest of some epochs is one of them.
LEMMA OldestFacts ==
  ASSUME NEW S, S \subseteq Nat, S # {}
  PROVE  \E m \in S : Oldest(S) = {m} /\ \A n \in S : m <= n
<1>1. PICK m \in S : \A n \in S : m <= n
  BY HasMin
<1>2. ASSUME NEW n \in Oldest(S) PROVE n = m
  <2>1. n \in S /\ n <= m
    BY <1>2 DEF Oldest
  <2>2. n \in Nat /\ m \in Nat /\ m <= n
    BY <1>1, <2>1
  <2> QED BY <2>1, <2>2
<1>3. m \in Oldest(S)
  BY <1>1 DEF Oldest
<1> QED BY <1>1, <1>2, <1>3

\* The clock, and which versions there are.
LEMMA Basics ==
  ASSUME IInv
  PROVE  /\ assigned \in Nat /\ visible \in Nat /\ visible <= assigned
         /\ MaxEpoch \in Nat /\ assigned <= MaxEpoch /\ visible <= MaxEpoch
         /\ Stored \subseteq versions /\ dead \cup dropped \subseteq versions
         /\ \A v \in versions : v \in Nat /\ 1 <= v /\ v <= assigned
         /\ lastRun \in Nat /\ lastRun <= MaxRun /\ MaxRun \in Nat
<1>1. /\ assigned \in 0..MaxEpoch /\ visible \in 0..assigned /\ lastRun \in 0..MaxRun
      /\ Stored \subseteq versions /\ dead \cup dropped \subseteq versions
      /\ versions \subseteq 1..assigned
  BY DEF IInv, Types, TypeOK
<1>2. MaxEpoch \in Nat /\ MaxRun \in Nat
  BY RetentionAssumption
<1> QED BY <1>1, <1>2

\* A version that is not applied is past the visible epoch, and is a tombstone.
LEMMA UnappliedFacts ==
  ASSUME IInv, NEW u \in Unapplied
  PROVE  u \in Nat /\ visible < u /\ u <= assigned /\ u \in versions
<1>1. PICK c \in Committers : u = committing[c] /\ committing[c] # 0
  BY DEF Unapplied
<1>2. u \in dead /\ u \notin resolved
  BY <1>1 DEF IInv, Clock
<1>3. u \in versions /\ u \in Nat /\ 1 <= u /\ u <= assigned
  BY <1>2, Basics
<1>4. visible < u
  BY <1>2, <1>3, Basics DEF IInv, Clock
<1> QED BY <1>3, <1>4

\* The window's fields.
LEMMA WindowTypes ==
  ASSUME IInv
  PROVE  /\ history.epochs \in Nat /\ history.start \in Nat /\ history.start <= visible
         /\ visible \in Nat
<1>1. history \in [epochs : Windows \cup {0}, start : 0..visible]
  BY DEF IInv, Types, TypeOK
<1>2. history.epochs \in Windows \cup {0} /\ history.start \in 0..visible
  BY <1>1
<1>3. visible \in Nat /\ Windows \cup {0} \subseteq Nat
  BY Basics, RetentionAssumption
<1> QED BY <1>2, <1>3

\* The epoch the window guarantees.
LEMMA FloorFacts ==
  ASSUME IInv
  PROVE  \A h \in HistoryFloor :
           h \in Nat /\ h <= visible /\ history.start <= h /\ visible - history.epochs <= h
<1>1. /\ history.epochs \in Nat /\ history.start \in Nat /\ history.start <= visible
      /\ visible \in Nat
  BY WindowTypes
<1>2. SUFFICES ASSUME NEW h \in HistoryFloor
               PROVE  h \in Nat /\ h <= visible /\ history.start <= h
                      /\ visible - history.epochs <= h
  OBVIOUS
<1>3. h = IF history.start > visible - history.epochs
          THEN history.start ELSE visible - history.epochs
  BY <1>2 DEF HistoryFloor
<1> QED BY <1>1, <1>3

\* The window moves along with the visible epoch.
LEMMA FloorMoves ==
  ASSUME IInv, visible' \in Nat, visible <= visible', history' = history,
         NEW h \in HistoryFloor'
  PROVE  \E g \in HistoryFloor : g <= h /\ h \in Nat
<1>1. /\ history.epochs \in Nat /\ history.start \in Nat /\ history.start <= visible
      /\ visible \in Nat
  BY WindowTypes
<1>2. /\ history.epochs # 0
      /\ h = IF history.start > visible' - history.epochs
             THEN history.start ELSE visible' - history.epochs
  BY DEF HistoryFloor
<1>3. PICK g : g = IF history.start > visible - history.epochs
                   THEN history.start ELSE visible - history.epochs
  OBVIOUS
<1>4. g \in HistoryFloor
  BY <1>2, <1>3 DEF HistoryFloor
<1>5. g <= h /\ h \in Nat
  BY <1>1, <1>2, <1>3
<1> QED BY <1>4, <1>5

\* The visible epoch reads the truth.
LEMMA VisibleTruthful ==
  ASSUME IInv, "ahead" \notin raced
  PROVE  Truthful(visible)
<1> SUFFICES ASSUME Intact(visible) PROVE Alike(Stored, versions, dead, visible)
  BY DEF Truthful
<1>1. visible \in visible..MaxEpoch
  BY Basics
<1>2. Alike(Written, versions, dead, visible)
  BY <1>1 DEF IInv, Answers, Faithful
<1>3. \A u \in Unapplied : ~(u <= visible)
  BY Basics, UnappliedFacts
<1>4. \A v : v <= visible => (v \in Written <=> v \in Stored)
  BY <1>3 DEF Written
<1> QED BY <1>2, <1>4, AlikeLocal

\* The calls in progress.
LEMMA CallTypes ==
  ASSUME IInv
  PROVE  /\ setting.on =>
              setting.epochs \in Windows /\ setting.start \in Nat /\ setting.start <= visible
         /\ compaction.on =>
              /\ compaction.pending \in BOOLEAN /\ compaction.epoch \in Nat
              /\ compaction.epoch <= visible /\ lastRun < MaxRun
              /\ compaction.keep \subseteq Stored
         /\ collector.on => /\ collector.pinned \in BOOLEAN
                            /\ \A f \in collector.floor : f \in Nat /\ f <= visible
                            /\ collector.floor # {}
<1>1. visible \in Nat
  BY Basics
<1>2. Off.on = FALSE
  BY DEF Off
<1>3. setting.on => setting.epochs \in Windows /\ setting.start \in 0..visible
  BY <1>2 DEF IInv, Types
<1>4. compaction.on => /\ compaction.pending \in BOOLEAN /\ compaction.epoch \in 0..visible
                       /\ lastRun < MaxRun /\ compaction.keep \subseteq Stored
  BY <1>2 DEF IInv, Types
<1>5. collector.on => /\ collector.pinned \in BOOLEAN
                      /\ collector.floor \subseteq 0..visible /\ collector.floor # {}
  BY <1>2 DEF IInv, Types
<1> QED BY <1>1, <1>3, <1>4, <1>5

\* No compaction is in progress, or one is.
LEMMA LockFacts ==
  ASSUME IInv
  PROVE  /\ Unlocked => ~compaction.on
         /\ compaction.on \/ compaction = Off
         /\ Off.on = FALSE
         /\ setting = Off <=> ~setting.on
         /\ collector = Off <=> ~collector.on
BY DEF IInv, Types, Unlocked, Off

-----------------------------------------------------------------------------
(* Commits *)

\* Types, when epochs are assigned and published and versions are added.
LEMMA TypesGrow ==
  ASSUME IInv,
         assigned' \in Nat, assigned <= assigned', assigned' <= MaxEpoch,
         visible' \in Nat, visible <= visible', visible' <= assigned',
         resolved' \subseteq 1..assigned', ledger' \subseteq 1..assigned',
         versions' \subseteq 1..assigned', dead' \cup dropped' \subseteq versions',
         Stored' \subseteq versions',
         runs' \subseteq Runs, lastRun' \in 0..MaxRun, lastRun <= lastRun',
         \A x \in runs', y \in retiring \cup reaped : x.id # y.id,
         committing' \in [Committers -> 0..assigned'], applied' \subseteq Committers,
         UNCHANGED <<retiring, reaped, history, setting, collector, compaction, pc, snap,
                     upto, gen>>,
         compaction = Off \/ (lastRun' = lastRun /\ Stored \subseteq Stored')
  PROVE  Types'
<1>1. /\ \A x \in retiring \cup reaped : x \in [id : 1..lastRun', epoch : 0..visible']
      /\ retiring \cap reaped = {}
  <2>1. \A x \in retiring \cup reaped : x \in [id : 1..lastRun, epoch : 0..visible]
    BY DEF IInv, Types, TypeOK
  <2>2. 1..lastRun \subseteq 1..lastRun' /\ 0..visible \subseteq 0..visible'
    BY Basics
  <2>3. retiring \cap reaped = {}
    BY DEF IInv, Types, TypeOK
  <2> QED BY <2>1, <2>2, <2>3
<1>2. 0..visible \subseteq 0..visible' /\ 0..assigned \subseteq 0..assigned'
      /\ 1..lastRun \subseteq 1..lastRun'
  BY Basics
<1>3. history' \in [epochs : Windows \cup {0}, start : 0..visible']
  <2>1. history \in [epochs : Windows \cup {0}, start : 0..visible]
    BY DEF IInv, Types, TypeOK
  <2> QED BY <1>2, <2>1
<1>4. /\ pc' \in [Readers -> Reader] /\ snap' \in [Readers -> 0..visible']
      /\ upto' \in [Readers -> 0..assigned'] /\ gen' \in [Readers -> SUBSET (1..lastRun')]
  <2>1. /\ pc \in [Readers -> Reader] /\ snap \in [Readers -> 0..visible]
        /\ upto \in [Readers -> 0..assigned] /\ gen \in [Readers -> SUBSET (1..lastRun)]
    BY DEF IInv, Types, TypeOK
  <2>2. snap \in [Readers -> 0..visible']
    BY <1>2, <2>1
  <2>3. upto \in [Readers -> 0..assigned']
    BY <1>2, <2>1
  <2>4. gen \in [Readers -> SUBSET (1..lastRun')]
    <3>1. SUBSET (1..lastRun) \subseteq SUBSET (1..lastRun')
      BY <1>2
    <3> QED BY <2>1, <3>1
  <2> QED BY <2>1, <2>2, <2>3, <2>4
<1>5. TypeOK'
  <2>1. assigned' \in 0..MaxEpoch /\ visible' \in 0..assigned'
    OBVIOUS
  <2> QED BY <1>1, <1>3, <1>4, <2>1 DEF TypeOK
<1>6. setting = Off \/ (setting.on /\ setting.epochs \in Windows /\ setting.start \in 0..visible')
  BY <1>2 DEF IInv, Types
<1>7. compaction = Off \/ (/\ compaction.on /\ compaction.pending \in BOOLEAN
                           /\ compaction.epoch \in 0..visible' /\ lastRun' < MaxRun
                           /\ compaction.keep \subseteq Stored')
  BY <1>2 DEF IInv, Types
<1>8. collector = Off \/ (/\ collector.on /\ collector.pinned \in BOOLEAN
                          /\ collector.floor \subseteq 0..visible' /\ collector.floor # {})
  BY <1>2 DEF IInv, Types
<1> QED BY <1>5, <1>6, <1>7, <1>8 DEF Types

\* The answers, when the visible epoch moves: what is stored is right from the
\* old visible epoch on, and nothing that is not applied is visible.
LEMMA AnswersMove ==
  ASSUME IInv, visible' \in Nat, visible <= visible', visible' <= MaxEpoch,
         "ahead" \notin raced => \A e \in visible..MaxEpoch : Faithful(e)',
         \A u \in Unapplied' : u \in Nat /\ visible' < u,
         \A e \in Nat : e <= visible /\ Truthful(e) => Truthful(e)',
         UNCHANGED <<raced, history, setting, pc, snap>>
  PROVE  Answers'
<1>1. visible \in Nat /\ MaxEpoch \in Nat
  BY Basics
<1>2. "ahead" \notin raced' => \A e \in visible'..MaxEpoch : Faithful(e)'
  <2>1. visible'..MaxEpoch \subseteq visible..MaxEpoch
    BY <1>1
  <2> QED BY <2>1
<1>3. ASSUME "ahead" \notin raced, NEW e \in Nat, visible <= e, e <= visible'
      PROVE  Truthful(e)'
  <2>1. \A u \in Unapplied' : ~(u <= e)
    BY <1>3
  <2>2. e \in visible..MaxEpoch
    BY <1>1, <1>3
  <2> SUFFICES ASSUME Intact(e)' PROVE Alike(Stored', versions', dead', e)
    BY DEF Truthful
  <2>3. Alike(Written', versions', dead', e)
    BY <1>3, <2>2 DEF Faithful
  <2>4. Alike(Stored', versions', dead', e)
    <3>1. PICK S, W, V, D : S = Stored' /\ W = Written' /\ V = versions' /\ D = dead'
      OBVIOUS
    <3>2. \A v : v <= e => (v \in W <=> v \in S)
      BY <2>1, <3>1 DEF Written
    <3>3. Alike(W, V, D, e)
      BY <2>3, <3>1
    <3>4. Alike(S, V, D, e)
      BY ONLY <3>2, <3>3, AlikeLocal
    <3> QED BY <3>1, <3>4
  <2> QED BY <2>4
<1>4. ASSUME raced \cap {"ahead", "history"} = {}
      PROVE  /\ \A h \in HistoryFloor' : \A e \in h..visible' : Truthful(e)'
             /\ setting.on => \A e \in setting.start..visible' : Truthful(e)'
  <2>1. ASSUME NEW h \in HistoryFloor', NEW e \in h..visible'
        PROVE  Truthful(e)'
    <3>1. PICK g \in HistoryFloor : g <= h /\ h \in Nat
      BY FloorMoves
    <3>2. g \in Nat /\ e \in Nat /\ g <= e
      BY <2>1, <3>1, FloorFacts
    <3>3. CASE e <= visible
      <4>1. e \in g..visible
        BY <1>1, <3>2, <3>3
      <4>2. Truthful(e)
        BY <1>4, <3>1, <4>1 DEF IInv, Answers
      <4> QED BY <3>2, <3>3, <4>2
    <3>4. CASE visible <= e
      BY <1>3, <1>4, <2>1, <3>2, <3>4
    <3> QED BY <1>1, <3>2, <3>3, <3>4
  <2>2. ASSUME setting.on, NEW e \in setting.start..visible'
        PROVE  Truthful(e)'
    <3>1. setting.start \in Nat
      BY <2>2, CallTypes
    <3>2. e \in Nat /\ setting.start <= e /\ e <= visible'
      BY <2>2, <3>1
    <3>3. CASE e <= visible
      <4>1. e \in setting.start..visible
        BY <1>1, <3>1, <3>2, <3>3
      <4>2. Truthful(e)
        BY <1>4, <2>2, <4>1 DEF IInv, Answers
      <4> QED BY <3>2, <3>3, <4>2
    <3>4. CASE visible <= e
      BY <1>3, <1>4, <3>2, <3>4
    <3> QED BY <1>1, <3>2, <3>3, <3>4
  <2> QED BY <2>1, <2>2
<1>5. ASSUME NEW r \in Holding', raced \cap {r, "ahead", "history"} = {}
      PROVE  Truthful(snap[r])'
  <2>1. PICK s : s = snap[r]
    OBVIOUS
  <2>2. r \in Holding /\ r \in Readers
    BY <1>5 DEF Holding
  <2>3. s \in Nat /\ s <= visible
    BY <1>1, <2>1, <2>2 DEF IInv, Types, TypeOK
  <2>4. Truthful(s)
    BY <1>5, <2>1, <2>2 DEF IInv, Answers
  <2>5. Truthful(s)'
    BY <2>3, <2>4
  <2> QED BY <2>1, <2>5 DEF Truthful, Intact
<1> QED BY <1>2, <1>4, <1>5 DEF Answers

\* A compaction in progress, when neither it nor what is stored changes and
\* nobody begins to read below its floor.
LEMMA MergingStays ==
  ASSUME IInv, UNCHANGED <<memtable, tier, runs, compaction>>,
         \A v \in Stored : v \in dead' <=> v \in dead,
         "ahead" \notin raced' => "ahead" \notin raced,
         \A f \in Nat : compaction.on /\ f <= compaction.epoch /\ NoneBelow(f) => NoneBelow(f)'
  PROVE  Merging'
<1>1. SUFFICES ASSUME compaction.on PROVE Merging'
  BY DEF Merging
<1>2. Stored' = Stored /\ Rest' = Rest /\ Outcome' = Outcome
  BY DEF Stored, RowsOf, Rest, Outcome
<1>3. Rest \subseteq Stored /\ Outcome \subseteq Stored
  BY <1>1, CallTypes DEF Stored, Rest, Outcome
<1>4. \A v \in Rest' \ dead' : \A w \in compaction.keep : w < v
  BY <1>1, <1>2, <1>3 DEF IInv, Merging
<1>5. ASSUME "ahead" \notin raced'
      PROVE  /\ \A w \in Stored \ Outcome : w <= compaction.epoch
             /\ \E f \in 0..compaction.epoch : KeepsFrom(f)'
  <2>1. \A w \in Stored \ Outcome : w <= compaction.epoch
    BY <1>1, <1>5 DEF IInv, Merging
  <2>2. PICK f \in 0..compaction.epoch : KeepsFrom(f)
    BY <1>1, <1>5 DEF IInv, Merging
  <2>3. f \in Nat /\ f <= compaction.epoch
    BY <1>1, <2>2, CallTypes
  <2>4. NoneBelow(f)'
    BY <1>1, <2>2, <2>3 DEF KeepsFrom
  <2>5. ASSUME NEW e \in f..MaxEpoch
        PROVE  Alike(Outcome', Stored', dead', e)
    <3>1. PICK S, O, D, E : S = Stored /\ O = Outcome /\ D = dead /\ E = dead'
      OBVIOUS
    <3>2. O \subseteq S /\ \A v \in S : v \in E <=> v \in D
      BY <1>3, <3>1
    <3>3. Alike(O, S, D, e)
      BY <2>2, <2>5, <3>1 DEF KeepsFrom
    <3>4. Alike(O, S, E, e)
      BY ONLY <3>2, <3>3, AlikeLocal
    <3> QED BY <1>2, <3>1, <3>4
  <2>6. KeepsFrom(f)'
    BY <2>4, <2>5 DEF KeepsFrom
  <2> QED BY <2>1, <2>2, <2>6
<1> QED BY <1>1, <1>2, <1>4, <1>5 DEF Merging

\* No compaction is in progress.
LEMMA NoMerging ==
  ASSUME compaction' = Off
  PROVE  Merging'
BY DEF Merging, Off

\* When the visible epoch moves and nothing else, a floor stays low enough.
LEMMA NoneBelowMoves ==
  ASSUME IInv, visible' \in Nat, visible <= visible',
         UNCHANGED <<raced, history, setting, pc, snap>>,
         NEW f \in Nat, NoneBelow(f)
  PROVE  NoneBelow(f)'
<1>1. ASSUME NEW h \in HistoryFloor', "history" \notin raced PROVE f <= h
  <2>1. PICK g \in HistoryFloor : g <= h /\ h \in Nat
    BY <1>1, FloorMoves
  <2>2. f <= g /\ g \in Nat
    BY <1>1, FloorFacts DEF NoneBelow
  <2> QED BY <2>1, <2>2
<1> QED BY <1>1 DEF NoneBelow, Holding

\* A transaction takes its epoch and appends.
LEMMA TxnAppendKeeps ==
  ASSUME IInv, NEW c \in Committers, TxnAppend(c)
  PROVE  IInv'
<1>1. /\ committing[c] = 0 /\ assigned < MaxEpoch /\ assigned' = assigned + 1
      /\ UNCHANGED <<visible, resolved>>
      /\ versions' = versions \cup {assigned + 1} /\ dead' = dead \cup {assigned + 1}
      /\ ledger' = ledger \cup {assigned + 1}
      /\ committing' = [committing EXCEPT ![c] = assigned + 1]
      /\ UNCHANGED <<dropped, memtable, tier, runs, lastRun, retiring, reaped, applied,
                     history, setting, compaction, collector, pc, snap, upto, gen, raced>>
  BY DEF TxnAppend, Watermark!Assign, Record, table, readers
<1>2. PICK n : n = assigned + 1
  OBVIOUS
<1>3. n \in Nat /\ n > assigned /\ n > visible /\ n <= MaxEpoch /\ assigned \in Nat
  BY <1>1, <1>2, Basics
<1>4. /\ committing \in [Committers -> 0..assigned] /\ applied \subseteq Committers
      /\ resolved \subseteq 1..assigned /\ ledger \subseteq 1..assigned
      /\ versions \subseteq 1..assigned /\ dead \cup dropped \subseteq versions
  BY DEF IInv, Types, TypeOK
<1>5. c \notin applied
  BY <1>1 DEF IInv, Clock
<1>6. Stored' = Stored
  BY <1>1 DEF Stored, RowsOf
<1>7. Unapplied' = Unapplied \cup {n}
  BY <1>1, <1>2, <1>3, <1>4, <1>5 DEF Unapplied
<1>8. n \notin Stored /\ n \notin versions
  BY <1>3, Basics
<1>9. Types'
  <2>1. committing' \in [Committers -> 0..assigned']
    BY <1>1, <1>3, <1>4
  <2>2. /\ resolved' \subseteq 1..assigned' /\ ledger' \subseteq 1..assigned'
        /\ versions' \subseteq 1..assigned' /\ dead' \cup dropped' \subseteq versions'
    BY <1>1, <1>3, <1>4
  <2>3. /\ runs' \subseteq Runs /\ lastRun' \in 0..MaxRun /\ lastRun <= lastRun'
        /\ \A x \in runs', y \in retiring \cup reaped : x.id # y.id
    BY <1>1, Basics DEF IInv, Types, TypeOK
  <2>4. /\ assigned' \in Nat /\ assigned <= assigned' /\ assigned' <= MaxEpoch
        /\ visible' \in Nat /\ visible <= visible' /\ visible' <= assigned'
    BY <1>1, Basics
  <2>5. Stored' \subseteq versions' /\ applied' \subseteq Committers
    BY <1>1, <1>4, <1>6, Basics
  <2> QED BY <1>1, <1>6, <2>1, <2>2, <2>3, <2>4, <2>5, TypesGrow
<1>10. Clock'
  BY <1>1, <1>2, <1>3, <1>4, <1>5 DEF IInv, Clock
<1>11. Fresh'
  BY <1>1, <1>2, <1>8 DEF IInv, Fresh, Stored, RowsOf
<1>12. Answers'
  <2>1. ASSUME "ahead" \notin raced, NEW e \in visible..MaxEpoch, Intact(e)'
        PROVE  Alike(Written', versions', dead', e)
    <3>1. PICK A, V, D : A = Written /\ V = versions /\ D = dead
      OBVIOUS
    <3>2. PICK An, Vn, E : With(An, A, n) /\ With(Vn, V, n) /\ With(E, D, n)
      BY DEF With
    <3>3. Alike(A, V, D, e)
      BY <1>1, <2>1, <3>1 DEF IInv, Answers, Faithful, Intact
    <3>4. /\ A \subseteq V /\ V \subseteq Int /\ (\A v \in V : v < n)
          /\ e \in Int /\ n \in Int
      BY <1>3, <2>1, <3>1, Basics, UnappliedFacts DEF Written
    <3>5. \A v \in V : v \in E <=> v \in D
      BY ONLY <3>2, <3>4 DEF With
    <3>6. Alike(An, Vn, E, e)
      BY ONLY <3>2, <3>3, <3>4, <3>5, NewestAppend
    <3>7. An = Written' /\ Vn = versions' /\ E = dead'
      BY <1>1, <1>2, <1>6, <1>7, <3>1, <3>2 DEF With, Written
    <3> QED BY <3>6, <3>7
  <2>2. ASSUME NEW e \in Nat, e <= visible, Truthful(e), Intact(e)'
        PROVE  Alike(Stored', versions', dead', e)
    <3>1. PICK S, V, D : S = Stored /\ V = versions /\ D = dead
      OBVIOUS
    <3>2. PICK Vn, E : Vn = V \cup {n} /\ E = D \cup {n}
      OBVIOUS
    <3>3. ~(n <= e)
      BY <1>3, <2>2, Basics
    <3>4. Alike(S, V, D, e)
      BY <1>1, <2>2, <3>1 DEF Truthful, Intact
    <3>5. /\ \A v : v <= e => (v \in V <=> v \in Vn)
          /\ \A v : v <= e => (v \in D <=> v \in E)
      BY ONLY <3>2, <3>3
    <3>6. Alike(S, Vn, E, e)
      BY ONLY <3>4, <3>5, AlikeLocal
    <3> QED BY <1>1, <1>2, <1>6, <3>1, <3>2, <3>6
  <2>3. \A u \in Unapplied' : u \in Nat /\ visible' < u
    BY <1>1, <1>3, <1>7, UnappliedFacts
  <2>4. visible' \in Nat /\ visible <= visible' /\ visible' <= MaxEpoch
    BY <1>1, Basics
  <2>5. "ahead" \notin raced => \A e \in visible..MaxEpoch : Faithful(e)'
    BY <2>1 DEF Faithful
  <2>6. \A e \in Nat : e <= visible /\ Truthful(e) => Truthful(e)'
    BY <2>2 DEF Truthful
  <2> QED BY <1>1, <2>3, <2>4, <2>5, <2>6, AnswersMove
<1>13. Merging'
  <2>1. \A v \in Stored : v \in dead' <=> v \in dead
    BY <1>1, <1>2, <1>8
  <2>2. visible' \in Nat /\ visible <= visible'
    BY <1>1, Basics
  <2>3. \A f \in Nat : NoneBelow(f) => NoneBelow(f)'
    BY <1>1, <2>2, NoneBelowMoves
  <2> QED BY <1>1, <2>1, <2>3, MergingStays
<1>14. Files'
  BY <1>1 DEF IInv, Files, Scored, Scoring
<1> QED BY <1>9, <1>10, <1>11, <1>12, <1>13, <1>14 DEF IInv

\* A transaction's delete is applied to the table.
LEMMA TxnApplyKeeps ==
  ASSUME IInv, NEW c \in Committers, TxnApply(c)
  PROVE  IInv'
<1>1. /\ committing[c] # 0 /\ c \notin applied /\ Unlocked
      /\ memtable' = memtable \cup {committing[c]} /\ applied' = applied \cup {c}
      /\ UNCHANGED <<assigned, visible, resolved, ledger, versions, dead, dropped, tier, runs,
                     lastRun, retiring, reaped, committing, history, setting, compaction,
                     collector, pc, snap, upto, gen, raced>>
  BY DEF TxnApply, authority, data, readers
<1>2. PICK n : n = committing[c]
  OBVIOUS
<1>3. n \in Unapplied
  BY <1>1, <1>2 DEF Unapplied
<1>4. n \in Nat /\ visible < n /\ n \in versions
  BY <1>3, UnappliedFacts
<1>5. n \in dead
  BY <1>1, <1>2 DEF IInv, Clock
<1>6. Stored' = Stored \cup {n}
  BY <1>1, <1>2 DEF Stored, RowsOf
<1>7. Unapplied' \subseteq Unapplied /\ Unapplied \subseteq Unapplied' \cup {n}
  BY <1>1, <1>2 DEF Unapplied
<1>8. Written' = Written
  BY <1>3, <1>6, <1>7 DEF Written
<1>9. Types'
  <2>1. /\ runs' \subseteq Runs /\ lastRun' \in 0..MaxRun /\ lastRun <= lastRun'
        /\ \A x \in runs', y \in retiring \cup reaped : x.id # y.id
    BY <1>1, Basics DEF IInv, Types, TypeOK
  <2>2. /\ assigned' \in Nat /\ assigned <= assigned' /\ assigned' <= MaxEpoch
        /\ visible' \in Nat /\ visible <= visible' /\ visible' <= assigned'
    BY <1>1, Basics
  <2>3. Stored' \subseteq versions'
    BY <1>1, <1>4, <1>6, Basics
  <2>4. /\ resolved' \subseteq 1..assigned' /\ ledger' \subseteq 1..assigned'
        /\ versions' \subseteq 1..assigned' /\ dead' \cup dropped' \subseteq versions'
        /\ committing' \in [Committers -> 0..assigned'] /\ applied' \subseteq Committers
    BY <1>1 DEF IInv, Types, TypeOK
  <2> QED BY <1>1, <2>1, <2>2, <2>3, <2>4, TypesGrow DEF Unlocked
<1>10. Clock'
  BY <1>1 DEF IInv, Clock
<1>11. Fresh'
  BY <1>1, <1>2, <1>5 DEF IInv, Fresh, RowsOf
<1>12. Answers'
  <2>1. ASSUME "ahead" \notin raced, NEW e \in visible..MaxEpoch
        PROVE  Faithful(e)'
    BY <1>1, <1>8, <2>1 DEF IInv, Answers, Faithful, Intact
  <2>2. ASSUME NEW e \in Nat, e <= visible, Truthful(e), Intact(e)'
        PROVE  Alike(Stored', versions', dead', e)
    <3>1. PICK S, T, V, D : S = Stored /\ T = Stored' /\ V = versions /\ D = dead
      OBVIOUS
    <3>2. Alike(S, V, D, e)
      BY <1>1, <2>2, <3>1 DEF Truthful, Intact
    <3>3. ~(n <= e)
      BY <1>4, <2>2, Basics
    <3>4. \A v : v <= e => (v \in S <=> v \in T)
      BY <1>6, <3>1, <3>3
    <3>5. Alike(T, V, D, e)
      BY ONLY <3>2, <3>4, AlikeLocal
    <3> QED BY <1>1, <3>1, <3>5
  <2>3. \A u \in Unapplied' : u \in Nat /\ visible' < u
    BY <1>1, <1>7, UnappliedFacts
  <2>4. visible' \in Nat /\ visible <= visible' /\ visible' <= MaxEpoch
    BY <1>1, Basics
  <2>5. \A e \in Nat : e <= visible /\ Truthful(e) => Truthful(e)'
    BY <2>2 DEF Truthful
  <2> QED BY <1>1, <2>1, <2>3, <2>4, <2>5, AnswersMove
<1>13. Merging'
  BY <1>1, NoMerging DEF Unlocked
<1>14. Files'
  BY <1>1 DEF IInv, Files, Scored, Scoring
<1> QED BY <1>9, <1>10, <1>11, <1>12, <1>13, <1>14 DEF IInv

\* Publication moves the visible epoch over resolved epochs only.
LEMMA PublishFacts ==
  ASSUME IInv, assigned' \in Nat, assigned <= assigned', NEW e, e \in 1..assigned',
         PublishInOrder(e)
  PROVE  /\ resolved' = resolved \cup {e} /\ resolved' \subseteq 1..assigned'
         /\ visible' \in Nat /\ visible <= visible' /\ visible' <= assigned'
         /\ \A x \in 1..visible' : x \in resolved'
<1>1. resolved' = resolved \cup {e}
  BY DEF PublishInOrder
<1>2. PICK n \in visible..assigned' :
        ((visible + 1)..n) \subseteq resolved' /\ visible' = n
  BY DEF PublishInOrder
<1>3. visible \in Nat /\ visible' \in Nat /\ visible <= visible' /\ visible' <= assigned'
  BY <1>2, Basics
<1>4. resolved' \subseteq 1..assigned'
  <2>1. resolved \subseteq 1..assigned
    BY DEF IInv, Types, TypeOK
  <2>2. 1..assigned \subseteq 1..assigned'
    BY Basics
  <2> QED BY <1>1, <2>1, <2>2
<1>5. ASSUME NEW x \in 1..visible' PROVE x \in resolved'
  <2>1. CASE x <= visible
    <3>1. x \in 1..visible
      BY <1>3, <2>1
    <3> QED BY <1>1, <3>1 DEF IInv, Clock
  <2>2. CASE visible < x
    <3>1. x \in (visible + 1)..n
      BY <1>2, <1>3, <2>2
    <3> QED BY <1>2, <3>1
  <2> QED BY <1>3, <2>1, <2>2
<1> QED BY <1>1, <1>3, <1>4, <1>5

\* A transaction publishes its epoch.
LEMMA TxnPublishKeeps ==
  ASSUME IInv, NEW c \in Committers, TxnPublish(c)
  PROVE  IInv'
<1>1. /\ c \in applied /\ assigned' = assigned /\ PublishInOrder(committing[c])
      /\ committing' = [committing EXCEPT ![c] = 0] /\ applied' = applied \ {c}
      /\ UNCHANGED <<ledger, versions, dead, dropped, memtable, tier, runs, lastRun, retiring,
                     reaped, history, setting, compaction, collector, pc, snap, upto, gen, raced>>
  BY DEF TxnPublish, data, table, readers
<1>2. PICK n : n = committing[c]
  OBVIOUS
<1>3. committing \in [Committers -> 0..assigned] /\ applied \subseteq Committers
  BY DEF IInv, Types, TypeOK
<1>4. n # 0 /\ n \in 1..assigned'
  BY <1>1, <1>2, <1>3, Basics DEF IInv, Clock
<1>5. /\ resolved' = resolved \cup {n} /\ resolved' \subseteq 1..assigned'
      /\ visible' \in Nat /\ visible <= visible' /\ visible' <= assigned'
      /\ \A x \in 1..visible' : x \in resolved'
  BY <1>1, <1>2, <1>4, Basics, PublishFacts
<1>6. \A d \in Committers : d # c => committing'[d] = committing[d]
  BY <1>1, <1>3
<1>7. committing'[c] = 0
  BY <1>1, <1>3
<1>8. Stored' = Stored
  BY <1>1 DEF Stored, RowsOf
<1>9. Unapplied' = Unapplied
  BY <1>1, <1>6, <1>7 DEF Unapplied
<1>10. Types'
  <2>1. committing' \in [Committers -> 0..assigned']
    BY <1>1, <1>3, Basics
  <2>2. /\ ledger' \subseteq 1..assigned' /\ versions' \subseteq 1..assigned'
        /\ dead' \cup dropped' \subseteq versions' /\ Stored' \subseteq versions'
        /\ applied' \subseteq Committers
    BY <1>1, <1>8 DEF IInv, Types, TypeOK
  <2>3. /\ runs' \subseteq Runs /\ lastRun' \in 0..MaxRun /\ lastRun <= lastRun'
        /\ \A x \in runs', y \in retiring \cup reaped : x.id # y.id
    BY <1>1, Basics DEF IInv, Types, TypeOK
  <2>4. assigned' \in Nat /\ assigned <= assigned' /\ assigned' <= MaxEpoch
    BY <1>1, Basics
  <2> QED BY <1>1, <1>5, <1>8, <2>1, <2>2, <2>3, <2>4, TypesGrow
<1>11. Clock'
  BY <1>1, <1>2, <1>4, <1>5, <1>6, <1>7 DEF IInv, Clock
<1>12. Fresh'
  BY <1>1 DEF IInv, Fresh, RowsOf
<1>13. Answers'
  <2>1. Written' = Written
    BY <1>8, <1>9 DEF Written
  <2>2. ASSUME "ahead" \notin raced, NEW e \in visible..MaxEpoch
        PROVE  Faithful(e)'
    BY <1>1, <2>1, <2>2 DEF IInv, Answers, Faithful, Intact
  <2>3. \A e \in Nat : e <= visible /\ Truthful(e) => Truthful(e)'
    BY <1>1, <1>8 DEF Truthful, Intact
  <2>4. ASSUME NEW u \in Unapplied' PROVE u \in Nat /\ visible' < u
    <3>1. u \in Nat /\ visible < u
      BY <1>9, <2>4, UnappliedFacts
    <3>2. PICK d \in Committers : d \notin applied /\ committing[d] # 0 /\ u = committing[d]
      BY <1>9, <2>4 DEF Unapplied
    <3>3. u \notin resolved'
      BY <1>1, <1>2, <1>5, <3>2 DEF IInv, Clock
    <3>4. u >= 1 /\ ~(u <= visible')
      BY <1>5, <3>1, <3>3, Basics
    <3> QED BY <1>5, <3>1, <3>4
  <2>5. visible' \in Nat /\ visible <= visible' /\ visible' <= MaxEpoch
    BY <1>1, <1>5, Basics
  <2> QED BY <1>1, <2>2, <2>3, <2>4, <2>5, AnswersMove
<1>14. Merging'
  <2>1. \A f \in Nat : NoneBelow(f) => NoneBelow(f)'
    BY <1>1, <1>5, NoneBelowMoves
  <2> QED BY <1>1, <2>1, MergingStays
<1>15. Files'
  BY <1>1 DEF IInv, Files, Scored, Scoring
<1> QED BY <1>10, <1>11, <1>12, <1>13, <1>14, <1>15 DEF IInv

\* A transaction ends without being applied, and its epoch is resolved.
LEMMA TxnFailsKeeps ==
  ASSUME IInv, NEW c \in Committers, TxnFails(c)
  PROVE  IInv'
<1>1. /\ committing[c] # 0 /\ c \notin applied /\ assigned' = assigned
      /\ PublishInOrder(committing[c]) /\ dropped' = dropped \cup {committing[c]}
      /\ committing' = [committing EXCEPT ![c] = 0]
      /\ UNCHANGED <<ledger, versions, dead, memtable, tier, runs, lastRun, retiring, reaped,
                     applied, history, setting, compaction, collector, pc, snap, upto, gen,
                     raced>>
  BY DEF TxnFails, table, readers
<1>2. PICK n : n = committing[c]
  OBVIOUS
<1>3. committing \in [Committers -> 0..assigned] /\ applied \subseteq Committers
  BY DEF IInv, Types, TypeOK
<1>4. n \in Unapplied /\ n \in Nat /\ visible < n /\ n \in versions /\ n \in 1..assigned'
  <2>1. n \in Unapplied
    BY <1>1, <1>2 DEF Unapplied
  <2> QED BY <1>1, <2>1, Basics, UnappliedFacts
<1>5. /\ resolved' = resolved \cup {n} /\ resolved' \subseteq 1..assigned'
      /\ visible' \in Nat /\ visible <= visible' /\ visible' <= assigned'
      /\ \A x \in 1..visible' : x \in resolved'
  BY <1>1, <1>2, <1>4, Basics, PublishFacts
<1>6. \A d \in Committers : d # c => committing'[d] = committing[d]
  BY <1>1, <1>3
<1>7. committing'[c] = 0
  BY <1>1, <1>3
<1>8. Stored' = Stored
  BY <1>1 DEF Stored, RowsOf
<1>9. Unapplied' \subseteq Unapplied /\ Unapplied \subseteq Unapplied' \cup {n}
  BY <1>1, <1>2, <1>6, <1>7 DEF Unapplied
<1>10. Types'
  <2>1. committing' \in [Committers -> 0..assigned']
    BY <1>1, <1>3, Basics
  <2>2. /\ ledger' \subseteq 1..assigned' /\ versions' \subseteq 1..assigned'
        /\ Stored' \subseteq versions' /\ applied' \subseteq Committers
    BY <1>1, <1>8 DEF IInv, Types, TypeOK
  <2>3. /\ runs' \subseteq Runs /\ lastRun' \in 0..MaxRun /\ lastRun <= lastRun'
        /\ \A x \in runs', y \in retiring \cup reaped : x.id # y.id
    BY <1>1, Basics DEF IInv, Types, TypeOK
  <2>4. assigned' \in Nat /\ assigned <= assigned' /\ assigned' <= MaxEpoch
    BY <1>1, Basics
  <2>5. dead' \cup dropped' \subseteq versions'
    BY <1>1, <1>2, <1>4, Basics
  <2> QED BY <1>1, <1>5, <1>8, <2>1, <2>2, <2>3, <2>4, <2>5, TypesGrow
<1>11. Clock'
  BY <1>1, <1>2, <1>4, <1>5, <1>6, <1>7 DEF IInv, Clock
<1>12. Fresh'
  BY <1>1 DEF IInv, Fresh, RowsOf
<1>13. Answers'
  <2>1. ASSUME NEW e \in Nat, Intact(e)'
        PROVE  Intact(e) /\ ~(n <= e)
    BY <1>1, <1>2, <1>4, <2>1 DEF Intact
  <2>2. ASSUME "ahead" \notin raced, NEW e \in visible..MaxEpoch, Intact(e)'
        PROVE  Alike(Written', versions', dead', e)
    <3>1. PICK W, W2, V, D : W = Written /\ W2 = Written' /\ V = versions /\ D = dead
      OBVIOUS
    <3>2. e \in Nat
      BY <2>2, Basics
    <3>3. \A v : v <= e => (v \in W <=> v \in W2)
      BY <1>8, <1>9, <2>1, <2>2, <3>1, <3>2 DEF Written
    <3>4. Alike(W, V, D, e)
      BY <2>1, <2>2, <3>1, <3>2 DEF IInv, Answers, Faithful
    <3>5. Alike(W2, V, D, e)
      BY ONLY <3>3, <3>4, AlikeLocal
    <3> QED BY <1>1, <3>1, <3>5
  <2>3. "ahead" \notin raced => \A e \in visible..MaxEpoch : Faithful(e)'
    BY <2>2 DEF Faithful
  <2>4. \A e \in Nat : e <= visible /\ Truthful(e) => Truthful(e)'
    BY <1>1, <1>8, <2>1 DEF Truthful
  <2>5. ASSUME NEW u \in Unapplied' PROVE u \in Nat /\ visible' < u
    <3>1. u \in Unapplied /\ u \in Nat /\ visible < u
      BY <1>9, <2>5, UnappliedFacts
    <3>2. PICK d \in Committers : d # c /\ committing[d] # 0 /\ u = committing[d]
      BY <1>6, <1>7, <2>5 DEF Unapplied
    <3>3. u \notin resolved'
      BY <1>1, <1>2, <1>5, <3>2 DEF IInv, Clock
    <3>4. u >= 1 /\ ~(u <= visible')
      BY <1>5, <3>1, <3>3, Basics
    <3> QED BY <1>5, <3>1, <3>4
  <2>6. visible' \in Nat /\ visible <= visible' /\ visible' <= MaxEpoch
    BY <1>1, <1>5, Basics
  <2> QED BY <1>1, <2>3, <2>4, <2>5, <2>6, AnswersMove
<1>14. Merging'
  <2>1. \A f \in Nat : NoneBelow(f) => NoneBelow(f)'
    BY <1>1, <1>5, NoneBelowMoves
  <2> QED BY <1>1, <2>1, MergingStays
<1>15. Files'
  BY <1>1 DEF IInv, Files, Scored, Scoring
<1> QED BY <1>10, <1>11, <1>12, <1>13, <1>14, <1>15 DEF IInv

\* What is not applied stays past the visible epoch that a new epoch moves.
LEMMA UnappliedStays ==
  ASSUME IInv, UNCHANGED <<committing, applied>>, visible' \in Nat,
         resolved' = resolved \cup {assigned + 1}, \A x \in 1..visible' : x \in resolved'
  PROVE  Unapplied' = Unapplied /\ \A u \in Unapplied' : u \in Nat /\ visible' < u
<1>1. Unapplied' = Unapplied
  BY DEF Unapplied
<1>2. ASSUME NEW u \in Unapplied PROVE u \in Nat /\ visible' < u
  <2>1. u \in Nat /\ visible < u /\ u <= assigned
    BY <1>2, UnappliedFacts
  <2>2. u \notin resolved
    BY <1>2 DEF Unapplied, IInv, Clock
  <2>3. u \notin resolved' /\ u >= 1
    BY <2>1, <2>2, Basics
  <2> QED BY <2>1, <2>3
<1> QED BY <1>1, <1>2

\* Table::commit.
LEMMA TableCommitKeeps ==
  ASSUME IInv, NEW del \in BOOLEAN, TableCommit(del)
  PROVE  IInv'
<1>1. /\ Unlocked /\ assigned < MaxEpoch /\ assigned' = assigned + 1
      /\ versions' = versions \cup {assigned + 1}
      /\ dead' = dead \/ dead' = dead \cup {assigned + 1}
      /\ memtable' = memtable \cup {assigned + 1} /\ PublishInOrder(assigned + 1)
      /\ UNCHANGED <<ledger, dropped, tier, runs, lastRun, retiring, reaped, committing, applied,
                     history, setting, compaction, collector, pc, snap, upto, gen, raced>>
  BY DEF TableCommit, Record, txns, readers
<1>2. PICK n : n = assigned + 1
  OBVIOUS
<1>3. n \in Nat /\ n > assigned /\ n > visible /\ n <= MaxEpoch /\ assigned \in Nat
  BY <1>1, <1>2, Basics
<1>4. /\ resolved' = resolved \cup {n} /\ resolved' \subseteq 1..assigned'
      /\ visible' \in Nat /\ visible <= visible' /\ visible' <= assigned'
      /\ \A x \in 1..visible' : x \in resolved'
  <2>1. assigned' \in Nat /\ assigned <= assigned' /\ n \in 1..assigned'
    BY <1>1, <1>2, <1>3
  <2> QED BY <1>1, <1>2, <2>1, PublishFacts
<1>5. /\ ledger \subseteq 1..assigned /\ versions \subseteq 1..assigned
      /\ dead \cup dropped \subseteq versions /\ committing \in [Committers -> 0..assigned]
      /\ applied \subseteq Committers
  BY DEF IInv, Types, TypeOK
<1>6. Stored' = Stored \cup {n}
  BY <1>1, <1>2 DEF Stored, RowsOf
<1>7. Unapplied' = Unapplied /\ \A u \in Unapplied' : u \in Nat /\ visible' < u
  BY <1>1, <1>2, <1>4, UnappliedStays
<1>8. Types'
  <2>1. committing' \in [Committers -> 0..assigned']
    BY <1>1, <1>3, <1>5
  <2>2. /\ ledger' \subseteq 1..assigned' /\ versions' \subseteq 1..assigned'
        /\ dead' \cup dropped' \subseteq versions'
    <3>1. 1..assigned \subseteq 1..assigned' /\ assigned + 1 \in 1..assigned'
      BY <1>1, <1>3
    <3>2. dead' \cup dropped' \subseteq versions'
      BY <1>1, <1>5
    <3> QED BY <1>1, <1>5, <3>1, <3>2
  <2>3. /\ runs' \subseteq Runs /\ lastRun' \in 0..MaxRun /\ lastRun <= lastRun'
        /\ \A x \in runs', y \in retiring \cup reaped : x.id # y.id
    BY <1>1, Basics DEF IInv, Types, TypeOK
  <2>4. assigned' \in Nat /\ assigned <= assigned' /\ assigned' <= MaxEpoch
    BY <1>1, Basics
  <2>5. Stored' \subseteq versions' /\ applied' \subseteq Committers
    BY <1>1, <1>2, <1>5, <1>6, Basics
  <2> QED BY <1>1, <1>4, <2>1, <2>2, <2>3, <2>4, <2>5, TypesGrow DEF Unlocked
<1>9. Clock'
  BY <1>1, <1>2, <1>3, <1>4, <1>5 DEF IInv, Clock
<1>10. Fresh'
  <2>1. \A w \in RowsOf(runs) : w < n
    BY <1>3, Basics DEF Stored
  <2>2. \A w \in tier : w < n
    BY <1>3, Basics DEF Stored
  <2> QED BY <1>1, <1>2, <2>1, <2>2 DEF IInv, Fresh, RowsOf
<1>11. Answers'
  <2>1. ASSUME "ahead" \notin raced, NEW e \in visible..MaxEpoch, Intact(e)'
        PROVE  Alike(Written', versions', dead', e)
    <3>1. PICK A, V, D, E : A = Written /\ V = versions /\ D = dead /\ E = dead'
      OBVIOUS
    <3>2. PICK An, Vn : With(An, A, n) /\ With(Vn, V, n)
      BY DEF With
    <3>3. Alike(A, V, D, e)
      BY <1>1, <2>1, <3>1 DEF IInv, Answers, Faithful, Intact
    <3>4. /\ A \subseteq V /\ V \subseteq Int /\ (\A v \in V : v < n)
          /\ e \in Int /\ n \in Int
      BY <1>3, <2>1, <3>1, Basics, UnappliedFacts DEF Written
    <3>5. \A v \in V : v \in E <=> v \in D
      BY <1>1, <1>2, <3>1, <3>4
    <3>6. Alike(An, Vn, E, e)
      BY ONLY <3>2, <3>3, <3>4, <3>5, NewestAppend
    <3>7. An = Written' /\ Vn = versions'
      BY <1>1, <1>2, <1>6, <1>7, <3>1, <3>2 DEF With, Written
    <3> QED BY <3>1, <3>6, <3>7
  <2>2. ASSUME NEW e \in Nat, e <= visible, Truthful(e), Intact(e)'
        PROVE  Alike(Stored', versions', dead', e)
    <3>1. PICK S, S2, V, V2, D, E : /\ S = Stored /\ V = versions /\ D = dead
                                    /\ S2 = Stored' /\ V2 = versions' /\ E = dead'
      OBVIOUS
    <3>2. ~(n <= e)
      BY <1>3, <2>2, Basics
    <3>3. Alike(S, V, D, e)
      BY <1>1, <2>2, <3>1 DEF Truthful, Intact
    <3>4. /\ \A v : v <= e => (v \in S <=> v \in S2)
          /\ \A v : v <= e => (v \in V <=> v \in V2)
          /\ \A v : v <= e => (v \in D <=> v \in E)
      BY <1>1, <1>2, <1>6, <3>1, <3>2
    <3>5. Alike(S2, V2, E, e)
      BY ONLY <3>3, <3>4, AlikeLocal
    <3> QED BY <3>1, <3>5
  <2>3. visible' <= MaxEpoch
    BY <1>1, <1>4, Basics
  <2>4. "ahead" \notin raced => \A e \in visible..MaxEpoch : Faithful(e)'
    BY <2>1 DEF Faithful
  <2>5. \A e \in Nat : e <= visible /\ Truthful(e) => Truthful(e)'
    BY <2>2 DEF Truthful
  <2> QED BY <1>1, <1>4, <1>7, <2>3, <2>4, <2>5, AnswersMove
<1>12. Merging'
  BY <1>1, NoMerging DEF Unlocked
<1>13. Files'
  BY <1>1 DEF IInv, Files, Scored, Scoring
<1> QED BY <1>8, <1>9, <1>10, <1>11, <1>12, <1>13 DEF IInv

\* What a flush stores it had stored before, and what it does not store any
\* more a failure left out.
LEMMA SealFlushKeeps ==
  ASSUME IInv, SealFlush,
         UNCHANGED <<ledger, versions, dead, retiring, reaped, committing, applied, history,
                     setting, compaction, collector, pc, snap, upto, gen, raced>>,
         dropped \subseteq dropped', dropped' \subseteq versions,
         Stored' \subseteq Stored, \A v \in Stored \ Stored' : v \in dropped',
         runs' \subseteq Runs, lastRun' \in 0..MaxRun, lastRun <= lastRun',
         \A x \in runs' : x.id <= lastRun',
         \A x \in runs', y \in retiring \cup reaped : x.id # y.id
  PROVE  Types' /\ Clock' /\ Answers' /\ Merging' /\ Files'
<1>1. /\ Unlocked /\ assigned < MaxEpoch /\ assigned' = assigned + 1
      /\ PublishInOrder(assigned + 1)
  BY DEF SealFlush
<1>2. PICK n : n = assigned + 1
  OBVIOUS
<1>3. n \in Nat /\ n > assigned /\ n <= MaxEpoch /\ assigned \in Nat
  BY <1>1, <1>2, Basics
<1>4. /\ resolved' = resolved \cup {n} /\ resolved' \subseteq 1..assigned'
      /\ visible' \in Nat /\ visible <= visible' /\ visible' <= assigned'
      /\ \A x \in 1..visible' : x \in resolved'
  <2>1. assigned' \in Nat /\ assigned <= assigned' /\ n \in 1..assigned'
    BY <1>1, <1>2, <1>3
  <2> QED BY <1>1, <1>2, <2>1, PublishFacts
<1>5. /\ ledger \subseteq 1..assigned /\ versions \subseteq 1..assigned
      /\ dead \subseteq versions /\ committing \in [Committers -> 0..assigned]
      /\ applied \subseteq Committers
  BY DEF IInv, Types, TypeOK
<1>6. Unapplied' = Unapplied /\ \A u \in Unapplied' : u \in Nat /\ visible' < u
  BY <1>1, <1>2, <1>4, UnappliedStays
<1>7. Types'
  <2>1. committing' \in [Committers -> 0..assigned']
    BY <1>1, <1>3, <1>5
  <2>2. /\ ledger' \subseteq 1..assigned' /\ versions' \subseteq 1..assigned'
        /\ dead' \cup dropped' \subseteq versions'
    BY <1>1, <1>3, <1>5
  <2>3. assigned' \in Nat /\ assigned <= assigned' /\ assigned' <= MaxEpoch
    BY <1>1, Basics
  <2>4. Stored' \subseteq versions' /\ applied' \subseteq Committers
    BY <1>5, Basics
  <2> QED BY <1>1, <1>4, <2>1, <2>2, <2>3, <2>4, TypesGrow DEF Unlocked
<1>8. Clock'
  BY <1>1, <1>2, <1>3, <1>4, <1>5 DEF IInv, Clock
<1>9. Answers'
  <2>1. ASSUME NEW e \in Nat, Intact(e)'
        PROVE  Intact(e) /\ \A v : v <= e => (v \in Stored <=> v \in Stored')
    <3>1. \A d \in dropped' : d \in Nat /\ e < d
      BY <2>1, Basics DEF Intact
    <3>2. \A d \in dropped' : ~(d <= e)
      BY <3>1
    <3> QED BY <3>1, <3>2 DEF Intact
  <2>2. ASSUME "ahead" \notin raced, NEW e \in visible..MaxEpoch, Intact(e)'
        PROVE  Alike(Written', versions', dead', e)
    <3>1. PICK W, W2, V, D : W = Written /\ W2 = Written' /\ V = versions /\ D = dead
      OBVIOUS
    <3>2. e \in Nat
      BY <2>2, Basics
    <3>3. Intact(e) /\ \A v : v <= e => (v \in W <=> v \in W2)
      BY <1>6, <2>1, <2>2, <3>1, <3>2 DEF Written
    <3>4. Alike(W, V, D, e)
      BY <2>2, <3>1, <3>3 DEF IInv, Answers, Faithful
    <3>5. Alike(W2, V, D, e)
      BY ONLY <3>3, <3>4, AlikeLocal
    <3> QED BY <3>1, <3>5
  <2>3. ASSUME NEW e \in Nat, e <= visible, Truthful(e), Intact(e)'
        PROVE  Alike(Stored', versions', dead', e)
    <3>1. PICK S, S2, V, D : S = Stored /\ S2 = Stored' /\ V = versions /\ D = dead
      OBVIOUS
    <3>2. Intact(e) /\ \A v : v <= e => (v \in S <=> v \in S2)
      BY <2>1, <2>3, <3>1
    <3>3. Alike(S, V, D, e)
      BY <2>3, <3>1, <3>2 DEF Truthful
    <3>4. Alike(S2, V, D, e)
      BY ONLY <3>2, <3>3, AlikeLocal
    <3> QED BY <3>1, <3>4
  <2>4. visible' <= MaxEpoch
    BY <1>1, <1>4, Basics
  <2>5. "ahead" \notin raced => \A e \in visible..MaxEpoch : Faithful(e)'
    BY <2>2 DEF Faithful
  <2>6. \A e \in Nat : e <= visible /\ Truthful(e) => Truthful(e)'
    BY <2>3 DEF Truthful
  <2> QED BY <1>4, <1>6, <2>4, <2>5, <2>6, AnswersMove
<1>10. Merging'
  BY <1>1, NoMerging DEF Unlocked
<1>11. Files'
  BY DEF IInv, Files, Scored, Scoring
<1> QED BY <1>7, <1>8, <1>9, <1>10, <1>11

\* The facts about runs and memory that a flush starts from.
LEMMA FlushFacts ==
  ASSUME IInv
  PROVE  /\ runs \subseteq Runs /\ lastRun \in 0..MaxRun
         /\ \A x \in runs : x.id <= lastRun
         /\ \A x \in runs, y \in retiring \cup reaped : x.id # y.id
         /\ \A y \in retiring \cup reaped : y.id \in 1..lastRun
         /\ dropped \subseteq versions /\ memtable \cup tier \subseteq versions
         /\ memtable \cup tier \subseteq Epochs
<1>1. /\ runs \subseteq Runs /\ lastRun \in 0..MaxRun
      /\ \A x \in runs, y \in retiring \cup reaped : x.id # y.id
      /\ dropped \subseteq versions
  BY DEF IInv, Types, TypeOK
<1>2. \A y \in retiring \cup reaped : y.id \in 1..lastRun
  <2>1. \A y \in retiring \cup reaped : y \in [id : 1..lastRun, epoch : 0..visible]
    BY DEF IInv, Types, TypeOK
  <2> QED BY <2>1
<1>3. memtable \cup tier \subseteq versions /\ memtable \cup tier \subseteq Epochs
  BY Basics DEF Stored, Epochs
<1> QED BY <1>1, <1>2, <1>3 DEF IInv, Files

\* Table::flush, when the rows stay in the tier.
LEMMA FlushDrainKeeps ==
  ASSUME IInv, FlushDrain
  PROVE  IInv'
<1>1. /\ SealFlush /\ memtable' = {} /\ tier' = tier \cup memtable
      /\ UNCHANGED <<ledger, versions, dead, dropped, runs, lastRun, retiring, reaped,
                     committing, applied, history, setting, compaction, collector, pc, snap,
                     upto, gen, raced>>
  BY DEF FlushDrain, SealFlush, data, txns, readers
<1>2. Stored' = Stored
  BY <1>1 DEF Stored, RowsOf
<1>3. Types' /\ Clock' /\ Answers' /\ Merging' /\ Files'
  <2>1. lastRun <= lastRun'
    BY <1>1, Basics
  <2> QED BY <1>1, <1>2, <2>1, FlushFacts, SealFlushKeeps
<1>4. Fresh'
  BY <1>1 DEF IInv, Fresh, RowsOf
<1> QED BY <1>3, <1>4 DEF IInv

\* Table::flush, when they become a run.
LEMMA FlushSpillKeeps ==
  ASSUME IInv, FlushSpill
  PROVE  IInv'
<1>1. /\ SealFlush /\ lastRun < MaxRun /\ lastRun' = lastRun + 1
      /\ runs' = runs \cup {[id |-> lastRun + 1, rows |-> memtable \cup tier]}
      /\ memtable' = {} /\ tier' = {}
      /\ UNCHANGED <<ledger, versions, dead, dropped, retiring, reaped, committing, applied,
                     history, setting, compaction, collector, pc, snap, upto, gen, raced>>
  BY DEF FlushSpill, SealFlush, data, txns, readers
<1>2. PICK new : new = [id |-> lastRun + 1, rows |-> memtable \cup tier]
  OBVIOUS
<1>3. new.id = lastRun + 1 /\ new.rows = memtable \cup tier
  BY <1>2
<1>4. Stored' = Stored
  <2>1. RowsOf(runs)' = RowsOf(runs) \cup memtable \cup tier
    BY <1>1, <1>2, <1>3 DEF RowsOf
  <2> QED BY <1>1, <2>1 DEF Stored
<1>5. lastRun' \in 0..MaxRun /\ lastRun <= lastRun' /\ lastRun + 1 \in 1..MaxRun
  BY <1>1, Basics
<1>6. runs' \subseteq Runs /\ \A x \in runs' : x.id <= lastRun'
  <2>1. new \in Runs
    BY <1>2, <1>5, FlushFacts DEF Runs
  <2>2. \A x \in runs : x.id <= lastRun'
    BY <1>1, FlushFacts, Basics DEF Runs
  <2>3. \A x \in runs' : x \in runs \/ x = new
    BY <1>1, <1>2
  <2>4. new.id <= lastRun'
    BY <1>1, <1>3, Basics
  <2> QED BY <2>1, <2>2, <2>3, <2>4, FlushFacts
<1>7. ASSUME NEW x \in runs', NEW y \in retiring \cup reaped PROVE x.id # y.id
  <2>1. y.id # lastRun + 1
    BY FlushFacts, Basics
  <2>2. x \in runs \/ x = new
    BY <1>1, <1>2
  <2> QED BY <1>3, <2>1, <2>2, FlushFacts
<1>8. Types' /\ Clock' /\ Answers' /\ Merging' /\ Files'
  BY <1>1, <1>4, <1>5, <1>6, <1>7, FlushFacts, SealFlushKeeps
<1>9. Fresh'
  BY <1>1 DEF Fresh
<1> QED BY <1>8, <1>9 DEF IInv

\* Table::flush, when the run cannot be written.
LEMMA FlushFailsKeeps ==
  ASSUME IInv, FlushFails
  PROVE  IInv'
<1>1. /\ SealFlush /\ lastRun < MaxRun /\ lastRun' = lastRun + 1
      /\ memtable' = {} /\ tier' = {} /\ dropped' = dropped \cup memtable \cup tier
      /\ UNCHANGED <<ledger, versions, dead, runs, retiring, reaped, committing, applied,
                     history, setting, compaction, collector, pc, snap, upto, gen, raced>>
  BY DEF FlushFails, SealFlush, txns, readers
<1>2. Stored' \subseteq Stored /\ \A v \in Stored \ Stored' : v \in dropped'
  BY <1>1 DEF Stored, RowsOf
<1>3. lastRun' \in 0..MaxRun /\ lastRun <= lastRun'
  BY <1>1, Basics
<1>4. \A x \in runs' : x.id <= lastRun'
  BY <1>1, FlushFacts, Basics DEF Runs
<1>5. Types' /\ Clock' /\ Answers' /\ Merging' /\ Files'
  BY <1>1, <1>2, <1>3, <1>4, FlushFacts, SealFlushKeeps
<1>6. Fresh'
  BY <1>1 DEF Fresh
<1> QED BY <1>5, <1>6 DEF IInv

-----------------------------------------------------------------------------
(* Readers *)

\* Whoever holds a snapshot after a reader's step held it before, or reads at
\* the visible epoch, or in the history window.
LEMMA ReaderStep ==
  ASSUME IInv,
         UNCHANGED <<assigned, visible, resolved, ledger, versions, dead, dropped, memtable, tier,
                     runs, lastRun, retiring, reaped, committing, applied, history, setting,
                     compaction, collector>>,
         pc' \in [Readers -> Reader], snap' \in [Readers -> 0..visible],
         upto' \in [Readers -> 0..assigned], gen' \in [Readers -> SUBSET (1..lastRun)],
         \A r \in Holding' \cup {"ahead", "history"} : r \in raced => r \in raced',
         \A r \in Holding' : \/ r \in Holding /\ snap'[r] = snap[r]
                             \/ snap'[r] = visible
                             \/ \E h \in HistoryFloor : h <= snap'[r]
  PROVE  Types' /\ Clock' /\ Fresh' /\ Answers' /\ Merging'
<1>1. Stored' = Stored /\ Unapplied' = Unapplied /\ Written' = Written
  BY DEF Stored, RowsOf, Unapplied, Written
<1>2. HistoryFloor' = HistoryFloor
  BY DEF HistoryFloor
<1>3. \A r \in Holding' : r \in Readers /\ snap'[r] \in Nat /\ snap'[r] <= visible
  <2>1. \A r \in Readers : snap'[r] \in 0..visible
    OBVIOUS
  <2> QED BY <2>1, Basics DEF Holding
<1>4. Types'
  <2>1. TypeOK'
    BY <1>1 DEF IInv, Types, TypeOK
  <2> QED BY <1>1, <2>1 DEF IInv, Types
<1>5. Clock'
  BY DEF IInv, Clock
<1>6. Fresh'
  BY DEF IInv, Fresh, RowsOf
<1>7. \A e : Truthful(e)' <=> Truthful(e)
  BY <1>1 DEF Truthful, Intact
<1>8. Answers'
  <2>1. "ahead" \notin raced' => \A e \in visible..MaxEpoch : Faithful(e)'
    BY <1>1 DEF IInv, Answers, Faithful, Intact
  <2>2. ASSUME raced' \cap {"ahead", "history"} = {}
        PROVE  /\ \A h \in HistoryFloor : \A e \in h..visible : Truthful(e)
               /\ setting.on => \A e \in setting.start..visible : Truthful(e)
    BY <2>2 DEF IInv, Answers
  <2>3. ASSUME NEW r \in Holding', raced' \cap {r, "ahead", "history"} = {}
        PROVE  Truthful(snap[r])'
    <3>1. PICK s : s = snap'[r]
      OBVIOUS
    <3>2. s \in Nat /\ s <= visible /\ raced \cap {r, "ahead", "history"} = {}
      BY <1>3, <2>3, <3>1
    <3>3. CASE r \in Holding /\ snap'[r] = snap[r]
      <4>1. Truthful(s)
        BY <3>1, <3>2, <3>3 DEF IInv, Answers
      <4> QED BY <1>7, <3>1, <4>1 DEF Truthful, Intact
    <3>4. CASE snap'[r] = visible
      <4>1. Truthful(s)
        BY <3>1, <3>2, <3>4, VisibleTruthful
      <4> QED BY <1>7, <3>1, <4>1 DEF Truthful, Intact
    <3>5. ASSUME NEW h \in HistoryFloor, h <= snap'[r] PROVE Truthful(snap[r])'
      <4>1. s \in h..visible
        BY <3>1, <3>2, <3>5, FloorFacts, Basics
      <4>2. Truthful(s)
        BY <3>2, <4>1 DEF IInv, Answers
      <4> QED BY <1>7, <3>1, <4>2 DEF Truthful, Intact
    <3> QED BY <2>3, <3>3, <3>4, <3>5
  <2>4. raced' \cap {"ahead", "history"} = {} =>
          /\ \A h \in HistoryFloor' : \A e \in h..visible' : Truthful(e)'
          /\ setting.on => \A e \in setting.start..visible' : Truthful(e)'
    BY <1>2, <1>7, <2>2
  <2> QED BY <2>1, <2>3, <2>4 DEF Answers
<1>9. Merging'
  <2>1. ASSUME NEW f \in Nat, compaction.on, f <= compaction.epoch, NoneBelow(f)
        PROVE  NoneBelow(f)'
    <3>1. f <= visible
      BY <2>1, CallTypes, Basics
    <3>2. ASSUME NEW r \in Holding', raced' \cap {r, "history"} = {}
          PROVE  f <= snap'[r]
      <4>1. snap'[r] \in Nat /\ raced \cap {r, "history"} = {}
        BY <1>3, <3>2
      <4>2. CASE r \in Holding /\ snap'[r] = snap[r]
        BY <2>1, <4>1, <4>2 DEF NoneBelow
      <4>3. CASE snap'[r] = visible
        BY <3>1, <4>3
      <4>4. ASSUME NEW h \in HistoryFloor, h <= snap'[r] PROVE f <= snap'[r]
        <5>1. f <= h /\ h \in Nat
          BY <2>1, <4>1, FloorFacts DEF NoneBelow
        <5> QED BY <4>1, <4>4, <5>1
      <4> QED BY <3>2, <4>2, <4>3, <4>4
    <3>3. "history" \notin raced' =>
            (\A h \in HistoryFloor : f <= h) /\ (setting.on => f <= setting.start)
      BY <2>1 DEF NoneBelow
    <3> QED BY <1>2, <3>2, <3>3 DEF NoneBelow
  <2> QED BY <2>1, MergingStays
<1> QED BY <1>4, <1>5, <1>6, <1>8, <1>9

\* The run files, when no reader takes a generation.
LEMMA FilesStay ==
  ASSUME IInv,
         UNCHANGED <<runs, lastRun, retiring, reaped, compaction, collector>>,
         \A r \in Scored' : /\ r \in Scored /\ gen'[r] = gen[r] /\ snap'[r] = snap[r]
                            /\ pc'[r] = "scored" => pc[r] = "scored"
  PROVE  Files'
BY DEF IInv, Files

\* The types of the readers' state.
LEMMA ReaderTypes ==
  ASSUME IInv
  PROVE  /\ pc \in [Readers -> Reader] /\ snap \in [Readers -> 0..visible]
         /\ upto \in [Readers -> 0..assigned] /\ gen \in [Readers -> SUBSET (1..lastRun)]
         /\ visible \in 0..visible /\ visible \in 0..assigned /\ assigned \in 0..assigned
         /\ 0 \in 0..visible /\ 0 \in 0..assigned
<1>1. /\ pc \in [Readers -> Reader] /\ snap \in [Readers -> 0..visible]
      /\ upto \in [Readers -> 0..assigned] /\ gen \in [Readers -> SUBSET (1..lastRun)]
  BY DEF IInv, Types, TypeOK
<1> QED BY <1>1, Basics

\* A snapshot is taken at the visible epoch, by a reader or a transaction.
LEMMA SnapshotKeeps ==
  ASSUME IInv, NEW r \in Readers, TakeSnapshot(r) \/ BeginTxn(r)
  PROVE  IInv'
<1>1. /\ Snapshot(r) /\ pc[r] = "idle"
      /\ pc' = [pc EXCEPT ![r] = "taken"] \/ pc' = [pc EXCEPT ![r] = "txn"]
      /\ UNCHANGED <<assigned, visible, resolved, ledger, versions, dead, dropped, memtable, tier,
                     runs, lastRun, retiring, reaped, committing, applied, history, setting,
                     compaction, collector, gen, raced>>
  BY DEF TakeSnapshot, BeginTxn, authority, data, table, txns
<1>2. /\ snap' = [snap EXCEPT ![r] = visible]
      /\ upto' = [upto EXCEPT ![r] = visible] \/ upto' = [upto EXCEPT ![r] = assigned]
  BY <1>1 DEF Snapshot
<1>3. /\ pc' \in [Readers -> Reader] /\ snap' \in [Readers -> 0..visible]
      /\ upto' \in [Readers -> 0..assigned] /\ gen' \in [Readers -> SUBSET (1..lastRun)]
  <2>1. pc' \in [Readers -> Reader] /\ gen' \in [Readers -> SUBSET (1..lastRun)]
    BY <1>1, ReaderTypes DEF Reader
  <2>2. snap' \in [Readers -> 0..visible]
    BY <1>2, ReaderTypes
  <2>3. upto' \in [Readers -> 0..assigned]
    BY <1>2, ReaderTypes
  <2> QED BY <2>1, <2>2, <2>3
<1>4. snap'[r] = visible /\ \A s \in Readers : s # r => snap'[s] = snap[s] /\ pc'[s] = pc[s]
  BY <1>1, <1>2, ReaderTypes
<1>5. Types' /\ Clock' /\ Fresh' /\ Answers' /\ Merging'
  <2>1. \A s \in Holding' : (s \in Holding /\ snap'[s] = snap[s]) \/ snap'[s] = visible
    BY <1>4 DEF Holding
  <2> QED BY <1>1, <1>3, <2>1, ReaderStep
<1>6. Files'
  <2>1. pc'[r] \notin {"locked", "registered", "scored"}
    BY <1>1, ReaderTypes
  <2>2. \A s \in Scored' : /\ s \in Scored /\ gen'[s] = gen[s] /\ snap'[s] = snap[s]
                           /\ pc'[s] = pc[s]
    BY <1>1, <1>4, <2>1 DEF Scored, Scoring
  <2> QED BY <1>1, <2>2, FilesStay
<1> QED BY <1>5, <1>6 DEF IInv

\* A snapshot is taken of an epoch in the history window.
LEMMA CheckHistoryKeeps ==
  ASSUME IInv, NEW r \in Readers, NEW e \in 0..visible, CheckHistory(r, e)
  PROVE  IInv'
<1>1. /\ pc[r] = "idle"
      /\ Retained(e)
      /\ snap' = [snap EXCEPT ![r] = e] /\ upto' = [upto EXCEPT ![r] = e]
      /\ pc' = [pc EXCEPT ![r] = "taken"]
      /\ UNCHANGED <<assigned, visible, resolved, ledger, versions, dead, dropped, memtable, tier,
                     runs, lastRun, retiring, reaped, committing, applied, history, setting,
                     compaction, collector, gen, raced>>
  BY DEF CheckHistory, SnapshotAt, authority, data, table, txns
<1>2. e \in Nat /\ e <= visible /\ e \in 0..assigned
  BY Basics
<1>3. /\ pc' \in [Readers -> Reader] /\ snap' \in [Readers -> 0..visible]
      /\ upto' \in [Readers -> 0..assigned] /\ gen' \in [Readers -> SUBSET (1..lastRun)]
  <2>1. pc' \in [Readers -> Reader] /\ gen' \in [Readers -> SUBSET (1..lastRun)]
    BY <1>1, ReaderTypes DEF Reader
  <2>2. snap' \in [Readers -> 0..visible]
    BY <1>1, ReaderTypes
  <2>3. upto' \in [Readers -> 0..assigned]
    BY <1>1, <1>2, ReaderTypes
  <2> QED BY <2>1, <2>2, <2>3
<1>4. snap'[r] = e /\ \A s \in Readers : s # r => snap'[s] = snap[s] /\ pc'[s] = pc[s]
  BY <1>1, ReaderTypes
<1>5. e = visible \/ \E h \in HistoryFloor : h <= e
  <2>1. CASE HistoryFloor = {}
    BY <1>1, <1>2, <2>1, Basics DEF Retained
  <2>2. CASE HistoryFloor # {}
    BY <1>1, <2>2 DEF Retained
  <2> QED BY <2>1, <2>2
<1>6. Types' /\ Clock' /\ Fresh' /\ Answers' /\ Merging'
  <2>1. \A s \in Holding' : \/ s \in Holding /\ snap'[s] = snap[s]
                            \/ snap'[s] = visible
                            \/ \E h \in HistoryFloor : h <= snap'[s]
    BY <1>4, <1>5 DEF Holding
  <2> QED BY <1>1, <1>3, <2>1, ReaderStep
<1>7. Files'
  <2>1. pc'[r] \notin {"locked", "registered", "scored"}
    BY <1>1, ReaderTypes
  <2>2. \A s \in Scored' : /\ s \in Scored /\ gen'[s] = gen[s] /\ snap'[s] = snap[s]
                           /\ pc'[s] = pc[s]
    BY <1>1, <1>4, <2>1 DEF Scored, Scoring
  <2> QED BY <1>1, <2>2, FilesStay
<1> QED BY <1>6, <1>7 DEF IInv

\* A snapshot is registered.
LEMMA RegisterKeeps ==
  ASSUME IInv, NEW r \in Readers, Register(r)
  PROVE  IInv'
<1>1. /\ pc[r] = "taken" /\ pc' = [pc EXCEPT ![r] = "pinned"]
      /\ UNCHANGED <<assigned, visible, resolved, ledger, versions, dead, dropped, memtable, tier,
                     runs, lastRun, retiring, reaped, committing, applied, history, setting,
                     compaction, collector, snap, upto, gen, raced>>
  BY DEF Register, authority, data, table, txns
<1>2. pc' \in [Readers -> Reader]
  BY <1>1, ReaderTypes DEF Reader
<1>3. \A s \in Holding' : s \in Holding
  BY <1>1, ReaderTypes DEF Holding
<1>4. \A s \in Scored' : s \in Scored /\ pc'[s] = pc[s]
  BY <1>1, ReaderTypes DEF Scored, Scoring
<1>5. Types' /\ Clock' /\ Fresh' /\ Answers' /\ Merging'
  BY <1>1, <1>2, <1>3, ReaderTypes, ReaderStep
<1>6. Files'
  BY <1>1, <1>4, FilesStay
<1> QED BY <1>5, <1>6 DEF IInv

\* A guard is dropped.
LEMMA ReleaseKeeps ==
  ASSUME IInv, NEW r \in Readers, Release(r)
  PROVE  IInv'
<1>1. /\ pc' = [pc EXCEPT ![r] = "idle"]
      /\ snap' = [snap EXCEPT ![r] = 0] /\ upto' = [upto EXCEPT ![r] = 0]
      /\ gen' = [gen EXCEPT ![r] = {}] /\ raced' = raced \ {r}
      /\ UNCHANGED <<assigned, visible, resolved, ledger, versions, dead, dropped, memtable, tier,
                     runs, lastRun, retiring, reaped, committing, applied, history, setting,
                     compaction, collector>>
  BY DEF Release, authority, data, table, txns
<1>2. /\ pc' \in [Readers -> Reader] /\ snap' \in [Readers -> 0..visible]
      /\ upto' \in [Readers -> 0..assigned] /\ gen' \in [Readers -> SUBSET (1..lastRun)]
  <2>1. pc' \in [Readers -> Reader]
    BY <1>1, ReaderTypes DEF Reader
  <2>2. snap' \in [Readers -> 0..visible]
    BY <1>1, ReaderTypes
  <2>3. upto' \in [Readers -> 0..assigned]
    BY <1>1, ReaderTypes
  <2>4. gen' \in [Readers -> SUBSET (1..lastRun)]
    BY <1>1, ReaderTypes
  <2> QED BY <2>1, <2>2, <2>3, <2>4
<1>3. /\ pc'[r] = "idle"
      /\ \A s \in Readers : s # r =>
           snap'[s] = snap[s] /\ pc'[s] = pc[s] /\ gen'[s] = gen[s]
  BY <1>1, ReaderTypes
<1>4. \A s \in Holding' : s # r /\ s \in Holding /\ snap'[s] = snap[s]
  BY <1>3 DEF Holding
<1>5. \A s \in Scored' : /\ s \in Scored /\ gen'[s] = gen[s] /\ snap'[s] = snap[s]
                         /\ pc'[s] = pc[s]
  BY <1>1, <1>3 DEF Scored, Scoring
<1>6. r \notin {"ahead", "history"}
  BY RetentionAssumption
<1>7. \A s \in Holding' \cup {"ahead", "history"} : s \in raced => s \in raced'
  BY <1>1, <1>4, <1>6
<1>8. Types' /\ Clock' /\ Fresh' /\ Answers' /\ Merging'
  BY <1>1, <1>2, <1>4, <1>7, ReaderStep
<1>9. Files'
  BY <1>1, <1>5, FilesStay
<1> QED BY <1>8, <1>9 DEF IInv

\* A read generation is taken, under the table's lock, or a scored one locks the
\* table and takes its snapshot.
LEMMA TakeGenerationKeeps ==
  ASSUME IInv, NEW r \in Readers, TakeGeneration(r) \/ ScoreSnapshot(r)
  PROVE  IInv'
<1>1. PICK kind \in {"generation", "locked"}, e \in 0..visible, t \in 0..assigned :
        /\ pc[r] = "idle" /\ Unlocked /\ pc' = [pc EXCEPT ![r] = kind]
        /\ snap' = [snap EXCEPT ![r] = e] /\ upto' = [upto EXCEPT ![r] = t]
        /\ gen' = [gen EXCEPT ![r] = {x.id : x \in runs}]
        /\ UNCHANGED <<assigned, visible, resolved, ledger, versions, dead, dropped, memtable,
                       tier, runs, lastRun, retiring, reaped, committing, applied, history,
                       setting, compaction, collector, raced>>
  <2>1. 0..visible \subseteq 0..assigned
    BY Basics
  <2>2. CASE TakeGeneration(r)
    BY <2>2, ReaderTypes DEF TakeGeneration, authority, data, table, txns
  <2>3. CASE ScoreSnapshot(r)
    BY <2>1, <2>3, ReaderTypes DEF ScoreSnapshot, SnapshotAt, authority, data, table, txns
  <2> QED BY <2>2, <2>3
<1>2. \A x \in runs : x.id \in 1..lastRun
  <2>1. \A x \in runs : x.id \in 1..MaxRun
    BY DEF IInv, Types, TypeOK, Runs
  <2> QED BY <2>1, Basics DEF IInv, Files
<1>3. /\ pc' \in [Readers -> Reader] /\ snap' \in [Readers -> 0..visible]
      /\ upto' \in [Readers -> 0..assigned] /\ gen' \in [Readers -> SUBSET (1..lastRun)]
  <2>1. pc' \in [Readers -> Reader]
    BY <1>1, ReaderTypes DEF Reader
  <2>2. snap' \in [Readers -> 0..visible]
    BY <1>1, ReaderTypes
  <2>3. upto' \in [Readers -> 0..assigned]
    BY <1>1, ReaderTypes
  <2>4. {x.id : x \in runs} \in SUBSET (1..lastRun)
    BY <1>2
  <2>5. gen' \in [Readers -> SUBSET (1..lastRun)]
    BY <1>1, <2>4, ReaderTypes
  <2> QED BY <2>1, <2>2, <2>3, <2>5
<1>4. /\ pc'[r] = kind /\ gen'[r] = {x.id : x \in runs}
      /\ \A s \in Readers : s # r =>
           snap'[s] = snap[s] /\ pc'[s] = pc[s] /\ gen'[s] = gen[s]
  BY <1>1, ReaderTypes
<1>5. Types' /\ Clock' /\ Fresh' /\ Answers' /\ Merging'
  <2>1. \A s \in Holding' : s \in Holding /\ snap'[s] = snap[s]
    BY <1>4 DEF Holding
  <2> QED BY <1>1, <1>3, <2>1, ReaderStep
<1>6. Files'
  <2>1. ASSUME NEW s \in Scored', s # r
        PROVE  s \in Scored /\ gen'[s] = gen[s] /\ snap'[s] = snap[s] /\ pc'[s] = pc[s]
    BY <1>1, <1>4, <2>1 DEF Scored, Scoring
  <2>2. \A x \in retiring \cup reaped : x.id \notin gen'[r]
    BY <1>4 DEF IInv, Types, TypeOK
  <2>3. ~compaction.on /\ pc'[r] # "scored"
    BY <1>1, <1>4, LockFacts
  <2>4. \A x \in runs : x.id <= lastRun
    BY DEF IInv, Files
  <2>5. ASSUME NEW s \in Scored'
        PROVE  /\ \A x \in retiring \cup reaped : x.id \in gen'[s] => snap'[s] <= x.epoch
               /\ \A x \in reaped : x.id \in gen'[s] => x.epoch = snap'[s]
               /\ compaction.on => snap'[s] <= compaction.epoch
               /\ pc'[s] = "scored" /\ collector.on /\ collector.pinned =>
                    \/ gen'[s] \subseteq collector.pins
                    \/ \E f \in collector.floor : f <= snap'[s]
    <3>1. CASE s = r
      BY <2>2, <2>3, <3>1
    <3>2. CASE s # r
      BY <2>1, <2>5, <3>2 DEF IInv, Files
    <3> QED BY <3>1, <3>2
  <2> QED BY <1>1, <2>4, <2>5 DEF Files
<1> QED BY <1>5, <1>6 DEF IInv

\* scored_read_generation registers its snapshot.
LEMMA ScoreRegisterKeeps ==
  ASSUME IInv, NEW r \in Readers, ScoreRegister(r)
  PROVE  IInv'
<1>1. /\ pc[r] = "locked" /\ pc' = [pc EXCEPT ![r] = "registered"]
      /\ UNCHANGED <<assigned, visible, resolved, ledger, versions, dead, dropped, memtable,
                     tier, runs, lastRun, retiring, reaped, committing, applied, history,
                     setting, compaction, collector, snap, upto, gen, raced>>
  BY DEF ScoreRegister, authority, data, table, txns
<1>2. pc' \in [Readers -> Reader]
  BY <1>1, ReaderTypes DEF Reader
<1>3. \A s \in Holding' : s \in Holding
  BY <1>1, ReaderTypes DEF Holding
<1>4. \A s \in Scored' : s \in Scored /\ (pc'[s] = "scored" => pc[s] = "scored")
  BY <1>1, ReaderTypes DEF Scored, Scoring
<1>5. Types' /\ Clock' /\ Fresh' /\ Answers' /\ Merging'
  BY <1>1, <1>2, <1>3, ReaderTypes, ReaderStep
<1>6. Files'
  BY <1>1, <1>4, FilesStay
<1> QED BY <1>5, <1>6 DEF IInv

\* It pins its runs, in time for a collector in progress or not.
LEMMA PinRunsKeeps ==
  ASSUME IInv, NEW r \in Readers, PinRuns(r)
  PROVE  IInv'
<1>1. /\ pc[r] = "registered" /\ pc' = [pc EXCEPT ![r] = "scored"]
      /\ raced' = IF PinsTooLate(r) THEN raced \cup {r} ELSE raced
      /\ UNCHANGED <<assigned, visible, resolved, ledger, versions, dead, dropped, memtable,
                     tier, runs, lastRun, retiring, reaped, committing, applied, history,
                     setting, compaction, collector, snap, upto, gen>>
  BY DEF PinRuns, authority, data, table, txns
<1>2. pc' \in [Readers -> Reader]
  BY <1>1, ReaderTypes DEF Reader
<1>3. /\ pc'[r] = "scored" /\ \A s \in Readers : s # r => pc'[s] = pc[s]
      /\ raced \subseteq raced' /\ raced' \subseteq raced \cup {r}
  BY <1>1, ReaderTypes
<1>4. \A s \in Holding' : s \in Holding
  BY <1>3 DEF Holding
<1>5. Types' /\ Clock' /\ Fresh' /\ Answers' /\ Merging'
  BY <1>1, <1>2, <1>3, <1>4, ReaderTypes, ReaderStep
<1>6. Files'
  <2>1. ASSUME NEW s \in Scored' PROVE s \in Scored /\ (s # r => pc'[s] = pc[s])
    BY <1>1, <1>3, <2>1 DEF Scored, Scoring
  <2>2. r \in Scored' /\ collector.on /\ collector.pinned =>
          \E f \in collector.floor : f <= snap[r]
    <3>1. SUFFICES ASSUME r \in Scored', collector.on, collector.pinned
                   PROVE  \E f \in collector.floor : f <= snap[r]
      OBVIOUS
    <3>2. ~PinsTooLate(r)
      BY <1>1, <3>1 DEF Scored
    <3>3. PICK f \in collector.floor : ~(snap[r] < f)
      BY <3>1, <3>2 DEF PinsTooLate
    <3>4. snap[r] \in Nat /\ f \in Nat
      BY <3>1, CallTypes, ReaderTypes, Basics
    <3> QED BY <3>3, <3>4
  <2>3. ASSUME NEW s \in Scored'
        PROVE  /\ \A x \in retiring \cup reaped : x.id \in gen[s] => snap[s] <= x.epoch
               /\ \A x \in reaped : x.id \in gen[s] => x.epoch = snap[s]
               /\ compaction.on => snap[s] <= compaction.epoch
               /\ pc'[s] = "scored" /\ collector.on /\ collector.pinned =>
                    \/ gen[s] \subseteq collector.pins
                    \/ \E f \in collector.floor : f <= snap[s]
    <3>1. CASE s = r
      BY <2>1, <2>2, <2>3, <3>1 DEF IInv, Files
    <3>2. CASE s # r
      BY <2>1, <2>3, <3>2 DEF IInv, Files
    <3> QED BY <3>1, <3>2
  <2> QED BY <1>1, <2>3 DEF IInv, Files
<1> QED BY <1>5, <1>6 DEF IInv

-----------------------------------------------------------------------------
(* The history window *)

\* The epochs from which on answers are promised, or about to be.
Promised == HistoryFloor \cup {s \in {setting.start} : setting.on}

\* A change of the window promises what was promised already, or the visible
\* epoch.
LEMMA WindowStep ==
  ASSUME IInv,
         UNCHANGED <<assigned, visible, resolved, ledger, versions, dead, dropped, memtable, tier,
                     runs, lastRun, retiring, reaped, committing, applied, compaction,
                     collector, pc, snap, upto, gen, raced>>,
         history' \in [epochs : Windows \cup {0}, start : 0..visible],
         \/ setting' = Off
         \/ setting'.on /\ setting'.epochs \in Windows /\ setting'.start \in 0..visible,
         \A p \in Promised' : /\ p \in Nat /\ p <= visible
                              /\ p = visible \/ \E q \in Promised : q <= p
  PROVE  IInv'
<1>1. Stored' = Stored /\ Unapplied' = Unapplied /\ Written' = Written /\ Holding' = Holding
  BY DEF Stored, RowsOf, Unapplied, Written, Holding
<1>2. \A p \in Promised : p \in Nat /\ p <= visible
  BY FloorFacts, CallTypes DEF Promised
<1>3. \A e : Truthful(e)' <=> Truthful(e)
  BY <1>1 DEF Truthful, Intact
<1>4. Types'
  <2>1. TypeOK'
    BY <1>1 DEF IInv, Types, TypeOK
  <2> QED BY <1>1, <2>1 DEF IInv, Types
<1>5. Clock'
  BY DEF IInv, Clock
<1>6. Fresh'
  BY DEF IInv, Fresh, RowsOf
<1>7. Answers'
  <2>1. ASSUME raced \cap {"ahead", "history"} = {}, NEW p \in Promised', NEW e \in p..visible
        PROVE  Truthful(e)'
    <3>1. e \in Nat /\ p \in Nat /\ p <= e /\ e <= visible
      BY <2>1, Basics
    <3>2. CASE p = visible
      <4>1. e = visible
        BY <3>1, <3>2
      <4> QED BY <1>3, <2>1, <4>1, VisibleTruthful
    <3>3. ASSUME NEW q \in Promised, q <= p PROVE Truthful(e)'
      <4>1. e \in q..visible
        BY <1>2, <3>1, <3>3, Basics
      <4>2. Truthful(e)
        BY <2>1, <4>1 DEF IInv, Answers, Promised
      <4> QED BY <1>3, <4>2
    <3> QED BY <2>1, <3>2, <3>3
  <2>2. raced' \cap {"ahead", "history"} = {} =>
          /\ \A h \in HistoryFloor' : \A e \in h..visible' : Truthful(e)'
          /\ setting'.on => \A e \in setting'.start..visible' : Truthful(e)'
    BY <2>1 DEF Promised
  <2>3. "ahead" \notin raced' => \A e \in visible'..MaxEpoch : Faithful(e)'
    BY <1>1 DEF IInv, Answers, Faithful, Intact
  <2>4. ASSUME NEW r \in Holding, raced \cap {r, "ahead", "history"} = {}
        PROVE  Truthful(snap[r])'
    <3>1. Truthful(snap[r])
      BY <2>4 DEF IInv, Answers
    <3> QED BY <1>1, <3>1 DEF Truthful, Intact
  <2> QED BY <1>1, <2>2, <2>3, <2>4 DEF Answers
<1>8. Merging'
  <2>1. ASSUME NEW f \in Nat, compaction.on, f <= compaction.epoch, NoneBelow(f)
        PROVE  NoneBelow(f)'
    <3>1. f <= visible
      BY <2>1, CallTypes, Basics
    <3>2. ASSUME "history" \notin raced, NEW p \in Promised' PROVE f <= p
      <4>1. CASE p = visible
        BY <3>1, <4>1
      <4>2. ASSUME NEW q \in Promised, q <= p PROVE f <= p
        <5>1. f <= q
          BY <2>1, <3>2 DEF NoneBelow, Promised
        <5>2. p \in Nat /\ q \in Nat
          BY <1>2
        <5> QED BY <4>2, <5>1, <5>2
      <4> QED BY <3>2, <4>1, <4>2
    <3>3. "history" \notin raced' => /\ \A h \in HistoryFloor' : f <= h
                                     /\ setting'.on => f <= setting'.start
      BY <3>2 DEF Promised
    <3> QED BY <1>1, <2>1, <3>3 DEF NoneBelow
  <2> QED BY <2>1, MergingStays
<1>9. Files'
  BY DEF IInv, Files, Scored, Scoring
<1> QED BY <1>4, <1>5, <1>6, <1>7, <1>8, <1>9 DEF IInv

\* set_history_retention_epochs computes the start of the window.
LEMMA SetHistoryKeeps ==
  ASSUME IInv, NEW n \in Windows, SetHistory(n)
  PROVE  IInv'
<1>1. /\ setting = Off /\ setting' = [on |-> TRUE, epochs |-> n, start |-> Guaranteed(n)]
      /\ UNCHANGED <<assigned, visible, resolved, ledger, versions, dead, dropped, memtable, tier,
                     runs, lastRun, retiring, reaped, committing, applied, history,
                     compaction, collector, pc, snap, upto, gen, raced>>
  BY DEF SetHistory, authority, data, table, txns, readers
<1>2. PICK g : g = Guaranteed(n)
  OBVIOUS
<1>3. g = visible \/ g \in HistoryFloor
  BY <1>2 DEF Guaranteed
<1>4. g \in Nat /\ g <= visible /\ g \in 0..visible
  BY <1>3, FloorFacts, Basics
<1>5. setting'.on /\ setting'.epochs = n /\ setting'.start = g
  BY <1>1, <1>2
<1>6. HistoryFloor' = HistoryFloor
  BY <1>1 DEF HistoryFloor
<1>7. \A p \in Promised' : p = g \/ p \in HistoryFloor
  BY <1>5, <1>6 DEF Promised
<1>8. \A p \in Promised' : /\ p \in Nat /\ p <= visible
                           /\ p = visible \/ \E q \in Promised : q <= p
  <2>1. SUFFICES ASSUME NEW p \in Promised'
                 PROVE  /\ p \in Nat /\ p <= visible
                        /\ p = visible \/ \E q \in Promised : q <= p
    OBVIOUS
  <2>2. p = visible \/ p \in Promised
    BY <1>3, <1>7 DEF Promised
  <2>3. p \in Nat /\ p <= visible
    BY <1>4, <1>7, FloorFacts
  <2> QED BY <2>2, <2>3
<1>9. history' \in [epochs : Windows \cup {0}, start : 0..visible]
  BY <1>1 DEF IInv, Types, TypeOK
<1> QED BY <1>1, <1>4, <1>5, <1>8, <1>9, WindowStep

\* The registry is configured with the new window.
LEMMA ConfigureHistoryKeeps ==
  ASSUME IInv, ConfigureHistory
  PROVE  IInv'
<1>1. /\ setting.on /\ history' = [epochs |-> setting.epochs, start |-> setting.start]
      /\ setting' = Off
      /\ UNCHANGED <<assigned, visible, resolved, ledger, versions, dead, dropped, memtable, tier,
                     runs, lastRun, retiring, reaped, committing, applied, compaction,
                     collector, pc, snap, upto, gen, raced>>
  BY DEF ConfigureHistory, authority, data, table, txns, readers
<1>2. /\ setting.epochs \in Windows /\ setting.start \in Nat /\ setting.start <= visible
      /\ visible \in Nat
  BY <1>1, CallTypes, Basics
<1>3. setting.epochs \in Nat
  BY <1>2, RetentionAssumption
<1>4. history' \in [epochs : Windows \cup {0}, start : 0..visible]
  <2>1. setting.epochs \in Windows \cup {0} /\ setting.start \in 0..visible
    BY <1>2
  <2> QED BY <1>1, <2>1
<1>5. history'.epochs = setting.epochs /\ history'.start = setting.start
  BY <1>1
<1>6. ~setting'.on
  BY <1>1, LockFacts
<1>7. ASSUME NEW p \in Promised'
      PROVE  /\ p \in Nat /\ p <= visible
             /\ p = visible \/ \E q \in Promised : q <= p
  <2>1. p \in HistoryFloor'
    BY <1>6 DEF Promised
  <2>2. p = IF setting.start > visible - setting.epochs
            THEN setting.start ELSE visible - setting.epochs
    BY <1>1, <1>5, <2>1 DEF HistoryFloor
  <2>3. p \in Nat /\ p <= visible /\ setting.start <= p
    BY <1>2, <1>3, <2>2
  <2>4. setting.start \in Promised
    BY <1>1 DEF Promised
  <2> QED BY <2>3, <2>4
<1> QED BY <1>1, <1>4, <1>7, WindowStep

-----------------------------------------------------------------------------
(* Compaction and the collectors *)

\* Steps on the collector and the retired runs change no answer.
LEMMA CollectorStep ==
  ASSUME IInv,
         UNCHANGED <<assigned, visible, resolved, ledger, versions, dead, dropped, memtable, tier,
                     runs, lastRun, committing, applied, history, setting, compaction, pc,
                     snap, upto, gen, raced>>
  PROVE  Clock' /\ Fresh' /\ Answers' /\ Merging' /\ Stored' = Stored
<1>1. /\ Stored' = Stored /\ Unapplied' = Unapplied /\ Written' = Written
      /\ Holding' = Holding /\ HistoryFloor' = HistoryFloor
  BY DEF Stored, RowsOf, Unapplied, Written, Holding, HistoryFloor
<1>2. Clock'
  BY DEF IInv, Clock
<1>3. Fresh'
  BY DEF IInv, Fresh, RowsOf
<1>4. Answers'
  <2>1. \A e : (Truthful(e)' <=> Truthful(e)) /\ (Faithful(e)' <=> Faithful(e))
    BY <1>1 DEF Truthful, Faithful, Intact
  <2>2. \A r \in Holding : Truthful(snap[r])' <=> Truthful(snap[r])
    BY <1>1 DEF Truthful, Intact
  <2> QED BY <1>1, <2>1, <2>2 DEF IInv, Answers
<1>5. Merging'
  <2>1. \A f \in Nat : NoneBelow(f) => NoneBelow(f)'
    BY <1>1 DEF NoneBelow
  <2> QED BY <2>1, MergingStays
<1> QED BY <1>1, <1>2, <1>3, <1>4, <1>5

\* Retired runs and files that are deleted, when only they change.
LEMMA ReapTypes ==
  ASSUME IInv,
         UNCHANGED <<assigned, visible, resolved, ledger, versions, dead, dropped, memtable, tier,
                     runs, lastRun, committing, applied, history, setting, compaction, pc,
                     snap, upto, gen, raced>>,
         NEW floor, NEW pins, ReapRetiring(floor, pins), collector' = Off \/ collector' = collector
  PROVE  Types'
<1>1. retiring' \cup reaped' = retiring \cup reaped /\ retiring' \cap reaped' = {}
  BY DEF ReapRetiring, IInv, Types, TypeOK
<1>2. Stored' = Stored
  BY CollectorStep
<1>3. TypeOK'
  BY <1>1, <1>2 DEF IInv, Types, TypeOK
<1> QED BY <1>2, <1>3 DEF IInv, Types

\* Deleting at a floor that is not past the epoch of any scored generation, or
\* without the files it pins.
LEMMA ReapKeeps ==
  ASSUME IInv,
         UNCHANGED <<assigned, visible, resolved, ledger, versions, dead, dropped, memtable, tier,
                     runs, lastRun, committing, applied, history, setting, compaction, pc,
                     snap, upto, gen, raced>>,
         NEW floor, NEW pins, ReapRetiring(floor, pins),
         \A f \in floor : f \in Nat,
         \A r \in Scored : gen[r] \subseteq pins \/ \E f \in floor : f <= snap[r],
         collector' = Off \/ collector' = collector
  PROVE  IInv'
<1>1. Clock' /\ Fresh' /\ Answers' /\ Merging'
  BY CollectorStep
<1>2. Types'
  BY ReapTypes
<1>3. /\ retiring' \cup reaped' \subseteq retiring \cup reaped
      /\ \A x \in reaped' : x \in reaped \/ (/\ x \in retiring /\ x.id \notin pins
                                             /\ \A f \in floor : x.epoch <= f)
  BY DEF ReapRetiring
<1>4. Scored' = Scored
  BY DEF Scored, Scoring
<1>5. ASSUME NEW r \in Scored, NEW x \in reaped', x.id \in gen[r] PROVE x.epoch = snap[r]
  <2>1. CASE x \in reaped
    BY <1>5, <2>1 DEF IInv, Files
  <2>2. CASE x \notin reaped
    <3>1. x \in retiring /\ x.id \notin pins /\ \A f \in floor : x.epoch <= f
      BY <1>3, <2>2
    <3>2. snap[r] <= x.epoch
      BY <1>5, <3>1 DEF IInv, Files
    <3>3. PICK f \in floor : f <= snap[r]
      BY <1>5, <3>1
    <3>4. x.epoch \in Nat
      <4>1. x \in [id : 1..lastRun, epoch : 0..visible]
        BY <3>1 DEF IInv, Types, TypeOK
      <4>2. x.epoch \in 0..visible
        BY <4>1
      <4> QED BY <4>2, Basics
    <3>5. snap[r] \in Nat
      BY Basics, ReaderTypes DEF Scored
    <3> QED BY <3>1, <3>2, <3>3, <3>4, <3>5
  <2> QED BY <2>1, <2>2
<1>6. collector'.on => collector' = collector
  BY LockFacts
<1>7. Files'
  BY <1>3, <1>4, <1>5, <1>6 DEF IInv, Files
<1> QED BY <1>1, <1>2, <1>7 DEF IInv

\* Database::gc reads its floor.
LEMMA GcFloorKeeps ==
  ASSUME IInv, GcFloor
  PROVE  IInv'
<1>1. /\ collector' = [on |-> TRUE, pinned |-> FALSE, floor |-> MinRegistered, pins |-> {}]
      /\ UNCHANGED <<assigned, visible, resolved, ledger, versions, dead, dropped, memtable,
                     tier, runs, lastRun, retiring, reaped, committing, applied, history,
                     setting, compaction, pc, snap, upto, gen, raced>>
  BY DEF GcFloor, authority, data, table, txns, readers
<1>2. collector'.on /\ ~collector'.pinned /\ collector'.pinned \in BOOLEAN
      /\ collector'.floor = MinRegistered
  BY <1>1
<1>3. MinRegistered \subseteq 0..visible /\ MinRegistered # {}
  <2>1. Registered \subseteq 0..visible
    BY ReaderTypes DEF Registered
  <2>2. CASE Registered = {}
    BY <2>2, ReaderTypes DEF MinRegistered
  <2>3. CASE Registered # {}
    <3>1. Registered \subseteq Nat
      BY <2>1, Basics
    <3>2. PICK m \in Registered : Oldest(Registered) = {m}
      BY <2>3, <3>1, OldestFacts
    <3> QED BY <2>1, <2>3, <3>2 DEF MinRegistered
  <2> QED BY <2>2, <2>3
<1>4. Clock' /\ Fresh' /\ Answers' /\ Merging' /\ Stored' = Stored
  BY <1>1, CollectorStep
<1>5. Types'
  <2>1. TypeOK'
    BY <1>1, <1>4 DEF IInv, Types, TypeOK
  <2> QED BY <1>1, <1>2, <1>3, <1>4, <2>1 DEF IInv, Types
<1>6. Files'
  BY <1>1, <1>2 DEF IInv, Files, Scored, Scoring
<1> QED BY <1>4, <1>5, <1>6 DEF IInv

\* Then it reads its pins.
LEMMA GcPinsKeeps ==
  ASSUME IInv, GcPins
  PROVE  IInv'
<1>1. /\ collector.on
      /\ collector' = [on |-> TRUE, pinned |-> TRUE, floor |-> collector.floor, pins |-> RunPins]
      /\ UNCHANGED <<assigned, visible, resolved, ledger, versions, dead, dropped, memtable,
                     tier, runs, lastRun, retiring, reaped, committing, applied, history,
                     setting, compaction, pc, snap, upto, gen, raced>>
  BY DEF GcPins, authority, data, table, txns, readers
<1>2. collector'.on /\ collector'.floor = collector.floor
  BY <1>1
<1>3. /\ collector'.pinned \in BOOLEAN
      /\ \A r \in Readers : pc[r] = "scored" => gen[r] \subseteq collector'.pins
  <2>1. \A r \in Readers : pc[r] = "scored" => gen[r] \subseteq RunPins
    BY DEF RunPins
  <2> QED BY <1>1, <2>1
<1>4. Clock' /\ Fresh' /\ Answers' /\ Merging' /\ Stored' = Stored
  BY <1>1, CollectorStep
<1>5. Types'
  <2>1. TypeOK'
    BY <1>1, <1>4 DEF IInv, Types, TypeOK
  <2>2. collector.floor \subseteq 0..visible /\ collector.floor # {}
    BY <1>1, CallTypes, Basics
  <2> QED BY <1>1, <1>2, <1>3, <1>4, <2>1, <2>2 DEF IInv, Types
<1>6. Files'
  BY <1>1, <1>3 DEF IInv, Files, Scored, Scoring
<1> QED BY <1>4, <1>5, <1>6 DEF IInv

\* Database::gc deletes with what it read.
LEMMA GcReapKeeps ==
  ASSUME IInv, GcReap
  PROVE  IInv'
<1>1. /\ collector.on /\ collector.pinned /\ Unlocked
      /\ ReapRetiring(collector.floor, collector.pins) /\ collector' = Off
      /\ UNCHANGED <<assigned, visible, resolved, ledger, versions, dead, dropped, memtable, tier,
                     runs, lastRun, committing, applied, history, setting, compaction, pc,
                     snap, upto, gen, raced>>
  BY DEF GcReap, authority, data, txns, readers
<1>2. \A f \in collector.floor : f \in Nat
  BY <1>1, CallTypes
<1>3. \A r \in Scored : \/ gen[r] \subseteq collector.pins
                        \/ \E f \in collector.floor : f <= snap[r]
  BY <1>1 DEF IInv, Files, Scored, Unlocked
<1>4. PICK floor, pins : floor = collector.floor /\ pins = collector.pins
  OBVIOUS
<1>5. ReapRetiring(floor, pins)
  BY <1>1, <1>4
<1> QED BY <1>1, <1>2, <1>3, <1>4, <1>5, ReapKeeps

\* The floor of compaction: nothing if nobody reads, or else the oldest epoch
\* that is registered, pinned or in the window.
LEMMA ActiveFacts ==
  ASSUME IInv
  PROVE  \/ /\ MinActive = {}
            /\ HistoryFloor = {}
            /\ \A r \in Readers : pc[r] \notin {"pinned", "scored", "generation"}
         \/ \E m \in Nat :
              /\ MinActive = {m} /\ m <= visible
              /\ \A h \in HistoryFloor : m <= h
              /\ \A r \in Readers : pc[r] \in {"pinned", "scored", "generation"} => m <= snap[r]
<1>1. PICK P : P = Registered \cup Pinned \cup HistoryFloor
  OBVIOUS
<1>2. MinActive = Oldest(P)
  BY <1>1 DEF MinActive
<1>3. P \subseteq 0..visible
  <2>1. Registered \subseteq 0..visible /\ Pinned \subseteq 0..visible
    BY ReaderTypes DEF Registered, Pinned
  <2>2. HistoryFloor \subseteq 0..visible
    BY FloorFacts, Basics
  <2> QED BY <1>1, <2>1, <2>2
<1>4. \A r \in Readers : pc[r] \in {"pinned", "scored", "generation"} => snap[r] \in P
  BY <1>1 DEF Registered, Pinned
<1>5. HistoryFloor \subseteq P
  BY <1>1
<1>6. CASE P = {}
  <2>1. Oldest(P) = {}
    BY <1>6 DEF Oldest
  <2> QED BY <1>2, <1>4, <1>5, <1>6, <2>1
<1>7. CASE P # {}
  <2>1. P \subseteq Nat
    BY <1>3, Basics
  <2>2. PICK m \in P : Oldest(P) = {m} /\ \A n \in P : m <= n
    BY <1>7, <2>1, OldestFacts
  <2>3. m \in Nat /\ m <= visible
    BY <1>3, <2>2, Basics
  <2> QED BY <1>2, <1>4, <1>5, <2>2, <2>3
<1> QED BY <1>6, <1>7

\* Table::gc_versions.
LEMMA GcVersionsKeeps ==
  ASSUME IInv, GcVersions
  PROVE  IInv'
<1>1. PICK floor, pins : /\ floor = (IF MinActive = {} THEN {visible} ELSE MinActive)
                         /\ pins = {}
  OBVIOUS
<1>2. /\ Unlocked /\ ReapRetiring(floor, pins)
      /\ UNCHANGED <<assigned, visible, resolved, ledger, versions, dead, dropped, memtable, tier,
                     runs, lastRun, committing, applied, history, setting, compaction,
                     collector, pc, snap, upto, gen, raced>>
  BY <1>1 DEF GcVersions, authority, data, txns, readers
<1>3. \A f \in floor : f \in Nat
  BY <1>1, ActiveFacts, Basics
<1>4. \A r \in Scored : \E f \in floor : f <= snap[r]
  <2>1. \A r \in Scored : pc[r] = "scored" /\ r \in Readers
    BY <1>2 DEF Scored, Unlocked
  <2> QED BY <1>1, <2>1, ActiveFacts
<1> QED BY <1>2, <1>3, <1>4, ReapKeeps

\* The published part of the memtable, what a compaction reads, and what it
\* leaves alone.
Old == {v \in memtable : v <= visible}
Input(pending) == RowsOf(runs) \cup (IF pending THEN {} ELSE tier \cup Old)
LeftOut(pending) == IF pending THEN memtable \cup tier ELSE memtable \ Old

\* A compaction begins, or finds fewer than two runs.
LEMMA CompactFacts ==
  ASSUME NEW pending \in BOOLEAN, Compact(pending)
  PROVE  /\ Unlocked
         /\ IF pending THEN UNCHANGED <<memtable, tier>>
            ELSE memtable' = memtable \ Old /\ tier' = tier \cup Old
         /\ \/ /\ lastRun < MaxRun
               /\ compaction' = [on |-> TRUE, epoch |-> visible, pending |-> pending,
                                 keep |-> SelectKeep(Input(pending), MinActive)]
               /\ raced' = raced \cup Races(Input(pending))
            \/ UNCHANGED <<compaction, raced>>
         /\ UNCHANGED <<assigned, visible, resolved, ledger, versions, dead, dropped, runs, lastRun,
                        retiring, reaped, committing, applied, history, setting, collector,
                        pc, snap, upto, gen>>
BY DEF Compact, authority, data, txns, readers, Old, Input

\* It moves rows only between the tiers, and the rows it leaves alone are later
\* than all it reads.
LEMMA CompactRows ==
  ASSUME IInv, NEW pending \in BOOLEAN, Compact(pending)
  PROVE  /\ Stored' = Stored /\ Stored = Input(pending) \cup LeftOut(pending)
         /\ memtable' \cup (IF pending THEN tier' ELSE {}) = LeftOut(pending)
         /\ \A v \in LeftOut(pending) \ dead : \A w \in Input(pending) : w < v
         /\ Fresh'
<1>1. /\ UNCHANGED <<runs, visible, dead, dropped>>
      /\ IF pending THEN UNCHANGED <<memtable, tier>>
         ELSE memtable' = memtable \ Old /\ tier' = tier \cup Old
  BY CompactFacts
<1>2. RowsOf(runs)' = RowsOf(runs)
  BY <1>1 DEF RowsOf
<1>3. /\ Stored' = Stored /\ Stored = Input(pending) \cup LeftOut(pending)
      /\ memtable' \cup (IF pending THEN tier' ELSE {}) = LeftOut(pending)
  BY <1>1, <1>2 DEF Stored, Input, LeftOut, Old
<1>4. /\ \A v \in (memtable \cup tier) \ dead : \A w \in RowsOf(runs) : w < v
      /\ \A v \in memtable \ dead : \A w \in tier : w < v
  BY DEF IInv, Fresh
<1>5. visible \in Nat /\ \A v \in Stored : v \in Nat
  BY Basics
<1>6. \A v \in LeftOut(pending) \ dead : \A w \in Input(pending) : w < v
  <2>1. CASE pending
    BY <1>4, <2>1 DEF LeftOut, Input
  <2>2. CASE ~pending
    <3>1. SUFFICES ASSUME NEW v \in memtable \ Old, v \notin dead, NEW w \in Input(pending)
                   PROVE  w < v
      BY <2>2 DEF LeftOut
    <3>2. v \in Nat /\ visible < v
      BY <1>5, <3>1 DEF Stored, Old
    <3>3. w \in Nat
      BY <1>3, <1>5, <3>1
    <3>4. w \in RowsOf(runs) => w < v
      BY <1>4, <3>1
    <3>5. (w \in tier => w < v) /\ (w \in Old => w <= visible)
      BY <1>4, <3>1 DEF Old
    <3>6. w \in RowsOf(runs) \/ w \in tier \/ w \in Old
      BY <2>2, <3>1 DEF Input
    <3> QED BY <1>5, <3>2, <3>3, <3>4, <3>5, <3>6
  <2> QED BY <2>1, <2>2
<1>7. Fresh'
  <2>1. memtable' \cup tier' \subseteq memtable \cup tier
    BY <1>1 DEF Old
  <2>2. ASSUME NEW v \in memtable' \ dead, NEW w \in tier' PROVE w < v
    <3>1. CASE pending
      BY <1>1, <1>4, <2>2, <3>1
    <3>2. CASE ~pending
      <4>1. v \in LeftOut(pending) \ dead /\ w \in Input(pending)
        BY <1>1, <2>2, <3>2 DEF LeftOut, Input
      <4> QED BY <1>6, <4>1
    <3> QED BY <3>1, <3>2
  <2> QED BY <1>1, <1>2, <1>4, <2>1, <2>2 DEF Fresh
<1> QED BY <1>3, <1>6, <1>7

\* Table::compact up to its merge.
LEMMA CompactKeeps ==
  ASSUME IInv, NEW pending \in BOOLEAN, Compact(pending)
  PROVE  IInv'
<1>1. PICK input, rest : input = Input(pending) /\ rest = LeftOut(pending)
  OBVIOUS
<1>2. /\ Unlocked
      /\ \/ /\ lastRun < MaxRun
            /\ compaction' = [on |-> TRUE, epoch |-> visible, pending |-> pending,
                              keep |-> SelectKeep(input, MinActive)]
            /\ raced' = raced \cup Races(input)
         \/ UNCHANGED <<compaction, raced>>
      /\ UNCHANGED <<assigned, visible, resolved, ledger, versions, dead, dropped, runs, lastRun,
                     retiring, reaped, committing, applied, history, setting, collector, pc,
                     snap, upto, gen>>
  BY <1>1, CompactFacts
<1>3. /\ Stored' = Stored /\ Stored = input \cup rest
      /\ memtable' \cup (IF pending THEN tier' ELSE {}) = rest
      /\ \A v \in rest \ dead : \A w \in input : w < v
      /\ Fresh'
  BY <1>1, CompactRows
<1>4. /\ Unapplied' = Unapplied /\ Written' = Written /\ Holding' = Holding
      /\ HistoryFloor' = HistoryFloor
  BY <1>2, <1>3 DEF Unapplied, Written, Holding, HistoryFloor
<1>5. Clock'
  BY <1>2 DEF IInv, Clock
<1>6. raced \subseteq raced'
  BY <1>2
<1>7. Answers'
  <2>1. \A e : Truthful(e)' <=> Truthful(e)
    BY <1>2, <1>3 DEF Truthful, Intact
  <2>2. \A r \in Holding : Truthful(snap[r])' <=> Truthful(snap[r])
    BY <1>2, <1>3 DEF Truthful, Intact
  <2>3. "ahead" \notin raced' => \A e \in visible..MaxEpoch : Faithful(e)'
    BY <1>2, <1>4, <1>6 DEF IInv, Answers, Faithful, Intact
  <2>4. raced' \cap {"ahead", "history"} = {} =>
          /\ \A h \in HistoryFloor : \A e \in h..visible : Truthful(e)
          /\ setting.on => \A e \in setting.start..visible : Truthful(e)
    BY <1>6 DEF IInv, Answers
  <2>5. \A r \in Holding : raced' \cap {r, "ahead", "history"} = {} => Truthful(snap[r])
    BY <1>6 DEF IInv, Answers
  <2> QED BY <1>2, <1>4, <2>1, <2>2, <2>3, <2>4, <2>5 DEF Answers
<1>8. TypeOK'
  BY <1>2, <1>3 DEF IInv, Types, TypeOK
<1>9. CASE UNCHANGED <<compaction, raced>>
  <2>1. compaction' = Off
    BY <1>2, <1>9 DEF Unlocked
  <2>2. Types'
    BY <1>2, <1>8, <2>1 DEF IInv, Types
  <2>3. Merging'
    BY <2>1, NoMerging
  <2>4. Files'
    BY <1>2, <1>9 DEF IInv, Files, Scored, Scoring
  <2> QED BY <1>3, <1>5, <1>7, <2>2, <2>3, <2>4 DEF IInv
<1>10. CASE /\ lastRun < MaxRun
            /\ compaction' = [on |-> TRUE, epoch |-> visible, pending |-> pending,
                              keep |-> SelectKeep(input, MinActive)]
            /\ raced' = raced \cup Races(input)
  <2>1. PICK K : K = SelectKeep(input, MinActive)
    OBVIOUS
  <2>2. /\ compaction'.on /\ compaction'.epoch = visible /\ compaction'.pending = pending
        /\ compaction'.keep = K
    BY <1>10, <2>1
  <2>3. input \subseteq Int /\ rest \subseteq Int
    BY <1>3, Basics
  <2>4. K \subseteq input
    BY <2>1 DEF SelectKeep
  <2>5. Rest' = rest /\ Outcome' = K \cup rest
    BY <1>3, <2>2 DEF Rest, Outcome
  <2>6. Types'
    <3>1. visible \in 0..visible' /\ lastRun' < MaxRun /\ K \subseteq Stored'
      BY <1>2, <1>3, <1>10, <2>4, ReaderTypes
    <3> QED BY <1>2, <1>8, <2>2, <3>1 DEF IInv, Types
  <2>7. Files'
    <3>1. \A r \in Scored : snap[r] <= visible
      BY ReaderTypes, Basics DEF Scored

    <3>3. Scored' \subseteq Scored
      BY <1>2, <1>6 DEF Scored, Scoring
    <3> QED BY <1>2, <2>2, <3>1, <3>3 DEF IInv, Files
  <2>8. \A v \in Rest' \ dead' : \A w \in K : w < v
    BY <1>2, <1>3, <2>4, <2>5
  <2>9. ASSUME "ahead" \notin raced'
        PROVE  /\ \A w \in Stored' \ Outcome' : w <= visible
               /\ \E f \in 0..visible : KeepsFrom(f)'
    <3>1. \A w \in input : ~(w > visible)
      BY <1>10, <2>9 DEF Races
    <3>2. \A w \in input : w <= visible
      BY <2>3, <3>1, Basics
    <3>3. \A w \in Stored' \ Outcome' : w <= visible
      BY <1>3, <2>5, <3>2
    <3>4. /\ \A r \in Readers : pc[r] = "taken" => r \in raced'
          /\ setting.on => "history" \in raced'
      BY <1>10 DEF Races
    <3>5. PICK Kr, Sr : Kr = K \cup rest /\ Sr = input \cup rest
      OBVIOUS
    <3>6. Kr = Outcome' /\ Sr = Stored'
      BY <1>3, <2>5, <3>5
    <3>7. \A r \in Holding : pc[r] = "taken" \/ pc[r] = "pinned"
      BY DEF Holding
    <3>8. CASE /\ MinActive = {} /\ HistoryFloor = {}
               /\ \A r \in Readers : pc[r] \notin {"pinned", "scored", "generation"}
      <4>1. PICK f : f = visible
        OBVIOUS
      <4>2. NoneBelow(f)'
        BY <1>2, <1>4, <3>4, <3>7, <3>8 DEF NoneBelow, Holding
      <4>3. ASSUME NEW e \in f..MaxEpoch
            PROVE  Alike(Outcome', Stored', dead', e)
        <5>1. e \in Int /\ \A w \in input : w <= e
          BY <2>3, <3>2, <4>1, <4>3, Basics
        <5>2. K = SelectKeep(input, {})
          BY <2>1, <3>8
        <5>3. Alike(Kr, Sr, dead, e)
          BY <1>3, <2>3, <3>5, <5>1, <5>2, KeepNewestOnly
        <5> QED BY <1>2, <3>6, <5>3
      <4>4. KeepsFrom(f)'
        BY <4>2, <4>3 DEF KeepsFrom
      <4>5. f \in 0..visible
        BY <4>1, ReaderTypes
      <4> QED BY <3>3, <4>4, <4>5
    <3>9. ASSUME NEW m \in Nat, MinActive = {m}, m <= visible,
                 \A h \in HistoryFloor : m <= h,
                 \A r \in Readers : pc[r] \in {"pinned", "scored", "generation"} => m <= snap[r]
          PROVE  /\ \A w \in Stored' \ Outcome' : w <= visible
                 /\ \E f \in 0..visible : KeepsFrom(f)'
      <4>1. NoneBelow(m)'
        BY <1>2, <1>4, <3>4, <3>7, <3>9 DEF NoneBelow, Holding
      <4>2. ASSUME NEW e \in m..MaxEpoch
            PROVE  Alike(Outcome', Stored', dead', e)
        <5>1. e \in Int /\ m <= e /\ m \in Int
          BY <4>2, Basics
        <5>2. PICK F : F = {m}
          OBVIOUS
        <5>3. K = SelectKeep(input, F)
          BY <2>1, <3>9, <5>2
        <5>4. Alike(Kr, Sr, dead, e)
          BY <1>3, <2>3, <3>5, <5>1, <5>2, <5>3, KeepAboveFloor
        <5> QED BY <1>2, <3>6, <5>4
      <4>3. KeepsFrom(m)'
        BY <4>1, <4>2 DEF KeepsFrom
      <4>4. m \in 0..visible
        BY <3>9, Basics
      <4> QED BY <3>3, <4>3, <4>4
    <3> QED BY <3>8, <3>9, ActiveFacts
  <2>10. Merging'
    BY <2>2, <2>8, <2>9 DEF Merging
  <2> QED BY <1>3, <1>5, <1>7, <2>6, <2>7, <2>10 DEF IInv
<1> QED BY <1>2, <1>9, <1>10

\* The replacement run is published.
LEMMA CompactPublishKeeps ==
  ASSUME IInv, CompactPublish
  PROVE  IInv'
<1>1. PICK K, new : K = compaction.keep /\ new = [id |-> lastRun + 1, rows |-> K]
  OBVIOUS
<1>2. /\ compaction.on /\ compaction' = Off
      /\ tier' = IF compaction.pending THEN tier ELSE {}
      /\ \/ K = {} /\ runs' = {} /\ lastRun' = lastRun
         \/ runs' = {new} /\ lastRun' = lastRun + 1
      /\ retiring' = retiring \cup {[id |-> r.id, epoch |-> compaction.epoch] : r \in runs}
      /\ UNCHANGED <<assigned, visible, resolved, ledger, versions, dead, dropped, memtable, reaped,
                     committing, applied, history, setting, collector, pc, snap, upto, gen,
                     raced>>
  BY <1>1 DEF CompactPublish, authority, data, txns, readers
<1>3. new.id = lastRun + 1 /\ new.rows = K
  BY <1>1
<1>4. /\ K \subseteq Stored /\ compaction.epoch \in Nat /\ compaction.epoch <= visible
      /\ lastRun < MaxRun
  BY <1>1, <1>2, CallTypes
<1>5. RowsOf(runs)' = K
  <2>1. CASE K = {} /\ runs' = {}
    BY <2>1 DEF RowsOf
  <2>2. CASE runs' = {new}
    BY <1>3, <2>2 DEF RowsOf
  <2> QED BY <1>2, <2>1, <2>2
<1>6. Stored' = Outcome /\ Outcome \subseteq Stored
  BY <1>1, <1>2, <1>4, <1>5 DEF Stored, Outcome, Rest
<1>7. \A x \in runs : x.id \in Nat /\ x.id >= 1 /\ x.id <= lastRun
  <2>1. \A x \in runs : x.id \in 1..MaxRun
    BY DEF IInv, Types, TypeOK, Runs
  <2> QED BY <2>1, Basics DEF IInv, Files
<1>8. \A x \in retiring' :
        \/ x \in retiring
        \/ \E r \in runs : x = [id |-> r.id, epoch |-> compaction.epoch]
  BY <1>2
<1>9. \A y \in retiring \cup reaped : y.id \in Nat /\ y.id >= 1 /\ y.id <= lastRun
  <2>1. \A y \in retiring \cup reaped : y \in [id : 1..lastRun, epoch : 0..visible]
    BY DEF IInv, Types, TypeOK
  <2>2. \A y \in retiring \cup reaped : y.id \in 1..lastRun
    BY <2>1
  <2> QED BY <2>2, Basics
<1>10. Types'
  <2>1. runs' \subseteq Runs
    <3>1. K \in SUBSET Epochs
      BY <1>4, Basics DEF Epochs
    <3>2. lastRun + 1 \in 1..MaxRun
      BY <1>4, Basics
    <3>3. new \in Runs
      BY <1>1, <3>1, <3>2 DEF Runs
    <3> QED BY <1>2, <3>3
  <2>2. lastRun' \in 0..MaxRun /\ lastRun <= lastRun'
    BY <1>2, <1>4, Basics
  <2>3. 1..lastRun \subseteq 1..lastRun'
    BY <2>2, Basics
  <2>4. retiring' \cup reaped' \subseteq [id : 1..lastRun', epoch : 0..visible']
    <3>1. \A y \in retiring \cup reaped : y \in [id : 1..lastRun', epoch : 0..visible]
      <4>1. \A y \in retiring \cup reaped : y \in [id : 1..lastRun, epoch : 0..visible]
        BY DEF IInv, Types, TypeOK
      <4> QED BY <2>3, <4>1
    <3>2. ASSUME NEW r \in runs
          PROVE  [id |-> r.id, epoch |-> compaction.epoch]
                   \in [id : 1..lastRun', epoch : 0..visible]
      <4>1. r.id \in 1..lastRun'
        BY <1>7, <2>3, Basics
      <4>2. compaction.epoch \in 0..visible
        BY <1>4, Basics
      <4> QED BY <4>1, <4>2
    <3> QED BY <1>2, <1>8, <3>1, <3>2
  <2>5. retiring' \cap reaped' = {}
    <3>1. retiring \cap reaped = {} /\ \A x \in runs, y \in reaped : x.id # y.id
      BY DEF IInv, Types, TypeOK
    <3>2. ASSUME NEW x \in retiring', x \in reaped PROVE FALSE
      <4>1. PICK r \in runs : x = [id |-> r.id, epoch |-> compaction.epoch]
        BY <1>8, <3>1, <3>2
      <4>2. x.id = r.id
        BY <4>1
      <4> QED BY <3>1, <3>2, <4>2
    <3> QED BY <1>2, <3>2
  <2>6. ASSUME NEW x \in runs', NEW y \in retiring' \cup reaped' PROVE x.id # y.id
    <3>1. x.id = lastRun + 1
      BY <1>2, <1>3
    <3>2. ASSUME NEW r \in runs, y = [id |-> r.id, epoch |-> compaction.epoch]
          PROVE  y.id \in Nat /\ y.id <= lastRun
      BY <1>7, <3>2
    <3>3. y.id \in Nat /\ y.id <= lastRun
      BY <1>2, <1>8, <1>9, <3>2
    <3> QED BY <3>1, <3>3, Basics
  <2>7. gen' \in [Readers -> SUBSET (1..lastRun')]
    <3>1. SUBSET (1..lastRun) \subseteq SUBSET (1..lastRun')
      BY <2>3
    <3> QED BY <1>2, <3>1, ReaderTypes
  <2>8. Stored' \subseteq versions'
    BY <1>2, <1>6, Basics
  <2>9. TypeOK'
    BY <1>2, <2>1, <2>2, <2>4, <2>5, <2>6, <2>7, <2>8 DEF IInv, Types, TypeOK
  <2> QED BY <1>2, <2>9 DEF IInv, Types
<1>11. Clock'
  BY <1>2 DEF IInv, Clock
<1>12. Fresh'
  <2>1. memtable' \cup tier' = Rest /\ tier' \subseteq tier
    BY <1>2 DEF Rest
  <2>2. \A v \in Rest \ dead : \A w \in K : w < v
    BY <1>1, <1>2 DEF IInv, Merging
  <2>3. \A v \in memtable \ dead : \A w \in tier : w < v
    BY DEF IInv, Fresh
  <2> QED BY <1>2, <1>5, <2>1, <2>2, <2>3 DEF Fresh
<1>13. Answers'
  <2>1. /\ Unapplied' = Unapplied /\ Holding' = Holding /\ HistoryFloor' = HistoryFloor
    BY <1>2 DEF Unapplied, Holding, HistoryFloor
  <2>2. SUFFICES ASSUME "ahead" \notin raced PROVE Answers'
    BY <1>2 DEF Answers
  <2>3. \A w \in Stored \ Outcome : w <= compaction.epoch
    BY <1>2, <2>2 DEF IInv, Merging
  <2>4. PICK f \in 0..compaction.epoch : KeepsFrom(f)
    BY <1>2, <2>2 DEF IInv, Merging
  <2>5. f \in Nat /\ f <= visible /\ visible \in Nat /\ visible <= MaxEpoch
    BY <1>4, <2>4, Basics
  <2>6. ASSUME NEW e \in visible..MaxEpoch, Intact(e)'
        PROVE  Alike(Written', versions', dead', e)
    <3>1. PICK A, S, X, D, m : /\ A = Outcome /\ S = Stored /\ X = Unapplied
                               /\ D = dead /\ m = compaction.epoch
      OBVIOUS
    <3>2. PICK Ax, Sx : Ax = A \cup X /\ Sx = S \cup X
      OBVIOUS
    <3>3. e \in f..MaxEpoch
      BY <2>5, <2>6, Basics
    <3>4. Alike(A, S, D, e)
      BY <2>4, <3>1, <3>3 DEF KeepsFrom
    <3>5. /\ A \subseteq S /\ S \subseteq Int /\ X \subseteq Int /\ m \in Int
          /\ \A w \in S \ A : w <= m
      BY <1>4, <1>6, <2>3, <3>1, Basics, UnappliedFacts
    <3>6. \A x \in X : m < x
      BY <1>4, <3>1, Basics, UnappliedFacts
    <3>7. Alike(Ax, Sx, D, e)
      BY ONLY <3>2, <3>4, <3>5, <3>6, NewestMore
    <3>8. Ax = Written' /\ Sx = Written
      BY <1>6, <2>1, <3>1, <3>2 DEF Written
    <3>9. Alike(Written, versions, dead, e)
      BY <1>2, <2>2, <2>6 DEF IInv, Answers, Faithful, Intact
    <3>10. Alike(Sx, versions, D, e)
      BY <3>1, <3>8, <3>9
    <3>11. Alike(Ax, versions, D, e)
      BY <3>7, <3>10 DEF Alike
    <3> QED BY <1>2, <3>1, <3>8, <3>11
  <2>7. ASSUME NEW e \in Nat, f <= e, e <= visible, Truthful(e) PROVE Truthful(e)'
    <3> SUFFICES ASSUME Intact(e)' PROVE Alike(Stored', versions', dead', e)
      BY DEF Truthful
    <3>1. Alike(Outcome, Stored, dead, e)
      BY <2>4, <2>5, <2>7, Basics DEF KeepsFrom
    <3>2. Alike(Outcome, versions, dead, e)
      BY <1>2, <2>7, <3>1 DEF Truthful, Intact, Alike
    <3> QED BY <1>2, <1>6, <3>2
  <2>8. ASSUME raced \cap {"ahead", "history"} = {}, NEW h \in HistoryFloor, NEW e \in h..visible
        PROVE  Truthful(e)'
    <3>1. Truthful(e)
      BY <2>8 DEF IInv, Answers
    <3>2. f <= h /\ h \in Nat
      BY <2>4, <2>8, FloorFacts DEF KeepsFrom, NoneBelow
    <3>3. e \in Nat /\ f <= e /\ e <= visible
      BY <2>5, <2>8, <3>2
    <3> QED BY <2>7, <3>1, <3>3
  <2>9. ASSUME raced \cap {"ahead", "history"} = {}, setting.on,
               NEW e \in setting.start..visible
        PROVE  Truthful(e)'
    <3>1. Truthful(e)
      BY <2>9 DEF IInv, Answers
    <3>2. f <= setting.start /\ setting.start \in Nat
      BY <2>4, <2>9, CallTypes DEF KeepsFrom, NoneBelow
    <3>3. e \in Nat /\ f <= e /\ e <= visible
      BY <2>5, <2>9, <3>2
    <3> QED BY <2>7, <3>1, <3>3
  <2>10. ASSUME NEW r \in Holding, raced \cap {r, "ahead", "history"} = {}
         PROVE  Truthful(snap[r])'
    <3>1. PICK e : e = snap[r]
      OBVIOUS
    <3>2. Truthful(e)
      BY <2>10, <3>1 DEF IInv, Answers
    <3>3. f <= e
      BY <2>4, <2>10, <3>1 DEF KeepsFrom, NoneBelow
    <3>4. e \in Nat /\ e <= visible
      BY <2>5, <2>10, <3>1, ReaderTypes DEF Holding
    <3>5. Truthful(e)'
      BY <2>7, <3>2, <3>3, <3>4
    <3> QED BY <1>2, <3>1, <3>5 DEF Truthful, Intact
  <2>11. \A e \in visible..MaxEpoch : Faithful(e)'
    BY <2>6 DEF Faithful
  <2> QED BY <1>2, <2>1, <2>8, <2>9, <2>10, <2>11 DEF Answers
<1>14. Merging'
  BY <1>2, NoMerging
<1>15. Files'
  <2>1. \A x \in runs' : x.id <= lastRun'
    BY <1>2, <1>3, Basics
  <2>2. Scored' = Scored /\ ~compaction'.on
    BY <1>2, LockFacts DEF Scored, Scoring
  <2>3. ASSUME NEW r \in Scored, NEW x \in retiring' \cup reaped, x.id \in gen[r]
        PROVE  snap[r] <= x.epoch
    <3>1. CASE x \in retiring \cup reaped
      BY <2>3, <3>1 DEF IInv, Files
    <3>2. ASSUME NEW y \in runs, x = [id |-> y.id, epoch |-> compaction.epoch]
          PROVE  snap[r] <= x.epoch
      <4>1. x.epoch = compaction.epoch
        BY <3>2
      <4> QED BY <1>2, <4>1 DEF IInv, Files
    <3> QED BY <1>8, <2>3, <3>1, <3>2
  <2> QED BY <1>2, <2>1, <2>2, <2>3 DEF IInv, Files
<1> QED BY <1>10, <1>11, <1>12, <1>13, <1>14, <1>15 DEF IInv

\* A compaction fails.
LEMMA CompactFailsKeeps ==
  ASSUME IInv, CompactFails
  PROVE  IInv'
<1>1. /\ compaction' = Off
      /\ UNCHANGED <<assigned, visible, resolved, ledger, versions, dead, dropped, memtable, tier,
                     runs, lastRun, retiring, reaped, committing, applied, history, setting,
                     collector, pc, snap, upto, gen, raced>>
  BY DEF CompactFails, authority, data, table, txns, readers
<1>2. /\ Stored' = Stored /\ Unapplied' = Unapplied /\ Written' = Written
      /\ Holding' = Holding /\ HistoryFloor' = HistoryFloor
  BY <1>1 DEF Stored, RowsOf, Unapplied, Written, Holding, HistoryFloor
<1>3. Types'
  <2>1. TypeOK'
    BY <1>1, <1>2 DEF IInv, Types, TypeOK
  <2> QED BY <1>1, <2>1 DEF IInv, Types
<1>4. Clock'
  BY <1>1 DEF IInv, Clock
<1>5. Fresh'
  BY <1>1 DEF IInv, Fresh, RowsOf
<1>6. Answers'
  <2>1. \A e : (Truthful(e)' <=> Truthful(e)) /\ (Faithful(e)' <=> Faithful(e))
    BY <1>1, <1>2 DEF Truthful, Faithful, Intact
  <2>2. \A r \in Holding : Truthful(snap[r])' <=> Truthful(snap[r])
    BY <1>1, <1>2 DEF Truthful, Intact
  <2> QED BY <1>1, <1>2, <2>1, <2>2 DEF IInv, Answers
<1>7. Merging'
  BY <1>1, NoMerging
<1>8. Files'
  BY <1>1, LockFacts DEF IInv, Files, Scored, Scoring
<1> QED BY <1>3, <1>4, <1>5, <1>6, <1>7, <1>8 DEF IInv

-----------------------------------------------------------------------------
(* The invariant of the specification *)

\* The table of Init satisfies the invariant.
LEMMA InitIInv == Init => IInv
<1>1. SUFFICES ASSUME Init PROVE IInv
  OBVIOUS
<1>2. /\ assigned = 4 /\ visible = 4 /\ resolved = 1..4 /\ ledger = {} /\ versions = {1, 3}
      /\ dead = {} /\ dropped = {} /\ memtable = {} /\ tier = {}
      /\ runs = {[id |-> 1, rows |-> {1}], [id |-> 2, rows |-> {3}]}
      /\ lastRun = 2 /\ retiring = {} /\ reaped = {}
      /\ committing = [c \in Committers |-> 0] /\ applied = {}
      /\ history = [epochs |-> 0, start |-> 0] /\ setting = Off /\ compaction = Off
      /\ collector = Off /\ pc = [r \in Readers |-> "idle"]
      /\ snap = [r \in Readers |-> 0] /\ upto = [r \in Readers |-> 0]
      /\ gen = [r \in Readers |-> {}] /\ raced = {}
  BY <1>1 DEF Init
<1>3. PICK x, y : x = [id |-> 1, rows |-> {1}] /\ y = [id |-> 2, rows |-> {3}]
  OBVIOUS
<1>4. x.id = 1 /\ x.rows = {1} /\ y.id = 2 /\ y.rows = {3} /\ runs = {x, y}
  BY <1>2, <1>3
<1>5. Stored = {1, 3}
  <2>1. RowsOf(runs) = {1, 3}
    BY <1>4 DEF RowsOf
  <2> QED BY <1>2, <2>1 DEF Stored
<1>6. /\ Unapplied = {} /\ Written = {1, 3} /\ HistoryFloor = {} /\ Holding = {}
      /\ Scored = {}
  <2>1. Unapplied = {}
    BY <1>2 DEF Unapplied
  <2>2. HistoryFloor = {}
    BY <1>2 DEF HistoryFloor
  <2>3. Holding = {} /\ Scored = {}
    BY <1>2 DEF Holding, Scored, Scoring
  <2> QED BY <1>5, <2>1, <2>2, <2>3 DEF Written
<1>7. Types
  <2>1. assigned \in 0..MaxEpoch /\ visible \in 0..assigned /\ lastRun \in 0..MaxRun
    BY <1>2, RetentionAssumption
  <2>2. /\ resolved \subseteq 1..assigned /\ ledger \subseteq 1..assigned
        /\ versions \subseteq 1..assigned /\ dead \cup dropped \subseteq versions
        /\ Stored \subseteq versions
    BY <1>2, <1>5
  <2>3. runs \subseteq Runs
    <3>1. /\ 1 \in 1..MaxRun /\ {1} \in SUBSET (1..MaxEpoch)
          /\ 2 \in 1..MaxRun /\ {3} \in SUBSET (1..MaxEpoch)
      BY RetentionAssumption
    <3>2. x \in Runs /\ y \in Runs
      BY <1>3, <3>1 DEF Runs, Epochs
    <3> QED BY <1>4, <3>2
  <2>4. /\ committing \in [Committers -> 0..assigned] /\ applied \subseteq Committers
        /\ snap \in [Readers -> 0..visible] /\ upto \in [Readers -> 0..assigned]
    BY <1>2
  <2>5. pc \in [Readers -> Reader] /\ gen \in [Readers -> SUBSET (1..lastRun)]
    BY <1>2 DEF Reader
  <2>6. history \in [epochs : Windows \cup {0}, start : 0..visible]
    BY <1>2
  <2>7. TypeOK
    BY <1>2, <2>1, <2>2, <2>3, <2>4, <2>5, <2>6 DEF TypeOK
  <2> QED BY <1>2, <2>7 DEF Types
<1>8. Clock
  BY <1>2 DEF Clock
<1>9. Fresh
  BY <1>2 DEF Fresh
<1>10. Answers
  <2>1. ~setting.on
    BY <1>2 DEF Off
  <2>2. \A e : Faithful(e)
    BY <1>2, <1>6 DEF Faithful, Alike
  <2> QED BY <1>6, <2>1, <2>2 DEF Answers
<1>11. Merging
  BY <1>2 DEF Merging, Off
<1>12. Files
  BY <1>2, <1>4, <1>6 DEF Files
<1> QED BY <1>7, <1>8, <1>9, <1>10, <1>11, <1>12 DEF IInv

\* Nothing changes.
LEMMA StutterKeeps ==
  ASSUME IInv, UNCHANGED vars
  PROVE  IInv'
<1>1. UNCHANGED <<assigned, visible, resolved, ledger, versions, dead, dropped, memtable,
                  tier, runs, lastRun, retiring, reaped, committing, applied, history, setting,
                  compaction, collector, pc, snap, upto, gen, raced>>
  BY DEF vars
<1>2. Clock' /\ Fresh' /\ Answers' /\ Merging' /\ Stored' = Stored
  BY <1>1, CollectorStep
<1>3. TypeOK'
  BY <1>1, <1>2 DEF IInv, Types, TypeOK
<1>4. Types'
  BY <1>1, <1>2, <1>3 DEF IInv, Types
<1>5. Files'
  BY <1>1 DEF IInv, Files, Scored, Scoring
<1> QED BY <1>2, <1>4, <1>5 DEF IInv

\* Every step keeps the invariant.
LEMMA NextIInv == IInv /\ [Next]_vars => IInv'
<1>1. SUFFICES ASSUME IInv, [Next]_vars PROVE IInv'
  OBVIOUS
<1>2. CASE UNCHANGED vars
  BY <1>1, <1>2, StutterKeeps
<1>3. CASE Commits
  BY <1>1, <1>3, TxnAppendKeeps, TxnApplyKeeps, TxnPublishKeeps, TxnFailsKeeps,
     TableCommitKeeps, FlushDrainKeeps, FlushSpillKeeps, FlushFailsKeeps DEF Commits
<1>4. CASE Maintenance
  BY <1>1, <1>4, SetHistoryKeeps, ConfigureHistoryKeeps, CompactKeeps, CompactPublishKeeps,
     CompactFailsKeeps, GcFloorKeeps, GcPinsKeeps, GcReapKeeps, GcVersionsKeeps DEF Maintenance
<1>5. CASE \E r \in Readers : Reading(r)
  BY <1>1, <1>5, SnapshotKeeps, RegisterKeeps, ReleaseKeeps, CheckHistoryKeeps,
     TakeGenerationKeeps, ScoreRegisterKeeps, PinRunsKeeps DEF Reading
<1> QED BY <1>1, <1>2, <1>3, <1>4, <1>5 DEF Next

\* The invariant holds in every behaviour of the table, its readers, its
\* window, its compactions and its collectors.
THEOREM RetentionInvariant == Spec => []IInv
BY InitIInv, NextIInv, PTL DEF Spec

\* Types; no version is visible before it is committed, and the table refers to
\* run files that exist (TypeOK).
THEOREM RetentionTypes == Spec => []TypeOK
<1>1. IInv => TypeOK
  BY DEF IInv, Types
<1> QED BY <1>1, RetentionInvariant, PTL

\* A new reader finds the committed state (CurrentReadable), unless a failure
\* left some of it out of the table or a compaction merged versions that were
\* not published.
THEOREM NewReadersSeeTruth == Spec => []CurrentReadable
<1>1. ASSUME IInv PROVE CurrentReadable
  BY <1>1, VisibleTruthful DEF CurrentReadable, Truthful, Alike, Newest, Reads
<1> QED BY <1>1, RetentionInvariant, PTL

\* A registered snapshot reads what was committed at its epoch for as long as
\* it is held (PinnedSeesTruth), when no failure left out a version up to its
\* epoch and no compaction fell into one of the windows of Races.
THEOREM RegisteredSnapshotsKept == Spec => []PinnedSeesTruth
<1>1. ASSUME IInv PROVE PinnedSeesTruth
  <2>1. \A r \in Readers : /\ pc[r] = "pinned"
                           /\ raced \cap {r, "ahead", "history"} = {}
                           => Truthful(snap[r])
    BY <1>1 DEF IInv, Answers, Holding
  <2> QED BY <2>1 DEF PinnedSeesTruth, Truthful, Alike, Newest, Reads
<1> QED BY <1>1, RetentionInvariant, PTL

\* Every epoch of the history window that no failure touched can be queried, as
\* the window is changed and moves along (HistoryQueryable).
THEOREM WindowStaysQueryable == Spec => []HistoryQueryable
<1>1. ASSUME IInv PROVE HistoryQueryable
  <2>1. raced \cap {"ahead", "history"} = {} =>
          \A h \in HistoryFloor : \A e \in h..visible : Truthful(e)
    BY <1>1 DEF IInv, Answers
  <2> QED BY <2>1 DEF HistoryQueryable, Truthful, Alike, Newest, Reads
<1> QED BY <1>1, RetentionInvariant, PTL

\* Neither collector deletes a run file that a scored read generation needs,
\* whenever it read its floor and its pins (GenerationFilesKept), unless the
\* generation pinned its runs too late for a floor that had passed it.
THEOREM ScoredFilesKept == Spec => []GenerationFilesKept
<1>1. ASSUME IInv PROVE GenerationFilesKept
  BY <1>1 DEF IInv, Files, Scored, GenerationFilesKept
<1> QED BY <1>1, RetentionInvariant, PTL
=============================================================================
