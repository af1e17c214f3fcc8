------------------------ MODULE TableRecoveryProofs -------------------------
(***************************************************************************)
(* TableRecovery for any threads, any jobs of the owners and any number of *)
(* commits: where the rows of a commit are at every moment, and so what a  *)
(* reader finds and what a crash leaves.                                   *)
(***************************************************************************)
EXTENDS TableRecovery, WellFoundedInduction, TLAPS

-----------------------------------------------------------------------------
(* The inductive invariant *)

TxnStages == {"idle", "appended", "applied", "persisted"}
OwnerStages == {"idle", "locked", "sealed", "committed", "compacting",
                "resetting", "manifesting", "reaping"}
InFlight == {"appended", "applied", "persisted", "sealed"}
Unapplied == {"appended", "sealed"}
Holding == {"locked", "sealed", "committed", "compacting", "resetting",
            "manifesting"}
Manifests == [current : 0..MaxEpoch, flushed : 0..MaxEpoch, runs : SUBSET RunSet]

\* The types TypeOK leaves out.
Types ==
    /\ TypeOK
    /\ manifest \in Manifests
    /\ pc \in [Threads -> TxnStages \cup OwnerStages]
    /\ \A t \in Txns : pc[t] \in TxnStages
    /\ \A o \in Owners : pc[o] \in OwnerStages
    /\ job \in [Threads -> AllJobs] /\ epoch \in [Threads -> 0..MaxEpoch]

\* The watermark stands before the first epoch that is not resolved, and every
\* epoch that is not resolved is in flight, in one thread.
Clock ==
    /\ \A e \in 1..visible : e \in resolved
    /\ (visible + 1) \notin resolved
    /\ \A w \in wal : w.epoch <= assigned
    /\ rotated \subseteq resolved
    /\ \A t \in Threads : pc[t] \in InFlight =>
         epoch[t] \in 1..assigned /\ epoch[t] \notin resolved
    /\ \A t, u \in Threads :
         pc[t] \in InFlight /\ pc[u] \in InFlight /\ epoch[t] = epoch[u] => t = u
    /\ mode = "open" => \A e \in 1..assigned : e \notin resolved =>
         \E t \in Threads : pc[t] \in InFlight /\ epoch[t] = e

\* What the locks exclude.
Locked ==
    /\ \A o \in Owners : pc[o] \in Holding =>
         /\ tableLock = o /\ job[o] \in allowed
         /\ job[o] = "checkpoint" => barrier = o
    /\ barrier # NoThread => \A t \in Txns : pc[t] = "idle"
    /\ \A o \in Owners :
         /\ pc[o] = "compacting" => job[o] \in {"compact", "checkpoint"}
         /\ pc[o] \in {"resetting", "manifesting"} => job[o] = "checkpoint"
         /\ /\ pc[o] \in {"compacting", "resetting", "manifesting"}
            /\ job[o] = "checkpoint"
            => memtable = {} /\ tier = {}
         /\ pc[o] = "sealed" =>
              (epoch[o] \in Written <=> staged) /\ epoch[o] > flushed
         /\ pc[o] = "committed" => epoch[o] \in resolved /\ epoch[o] > flushed
         /\ pc[o] \in {"sealed", "committed"} /\ job[o] = "checkpoint"
              => epoch[o] = assigned
         /\ pc[o] = "reaping" => (memtable \cup tier) \cap rotated = {}

\* While the table is open: the manifest has the table's runs, but for the rows
\* that a failed call left out of it, and no later gate; a commit is in the table
\* or still to be applied, what is in memory is in the durable WAL past the gate,
\* and what is still to be applied will be.
Placed ==
    mode = "open" =>
        /\ RowsOf(manifest.runs) \subseteq RowsOf(runs)
        /\ RowsOf(runs) \ dropped \subseteq RowsOf(manifest.runs)
        /\ manifest.flushed <= flushed /\ flushed <= assigned
        /\ acked \ Missed \subseteq Live
        /\ \A e \in Written \ Missed :
             e \in Live \/ \E t \in Threads : pc[t] \in Unapplied /\ epoch[t] = e
        /\ \A e \in (memtable \cup tier) \ Missed :
             e \in RowsOf(runs) \/ (e \in Written /\ e <= durable /\ e > flushed)
        /\ \A t \in Txns :
             /\ pc[t] # "idle" => epoch[t] \in Written
             /\ pc[t] = "appended" /\ epoch[t] \notin Missed =>
                  epoch[t] > flushed \/ epoch[t] \in RowsOf(runs)

\* While it is down: what the crash left brings everything back.
Down ==
    mode # "open" =>
        /\ \A t \in Threads : pc[t] = "idle"
        /\ memtable = {} /\ tier = {} /\ runs = {}
        /\ \A w \in wal : w.epoch <= durable
        /\ Written \ Missed \subseteq Recoverable
        /\ acked \ Missed \subseteq Recoverable

\* Without a flush outside a checkpoint, nothing is overtaken, and runs and gate
\* stay below the watermark.
Quiet ==
    "flush" \notin allowed =>
        /\ overtaken = {}
        /\ Accepted(manifest)
        /\ \A r \in manifest.runs : \A e \in r.rows : e <= r.created
        /\ mode = "open" =>
             /\ flushed <= visible
             /\ \A r \in runs : r.created <= visible /\ \A e \in r.rows : e <= r.created
             /\ \A e \in tier : e <= visible
             /\ \A e \in memtable : e <= assigned

\* The durable state covers the epoch e, so that a recovery counts past it: its
\* marker is there to stay, or the manifest is past it, and so is every later one.
Reached(e) ==
    \/ e \in Written /\ e <= durable /\ e \in memtable \cup tier
    \/ e <= visible /\ e <= manifest.current

\* Without a flush outside a checkpoint, every acknowledged epoch is covered.
Known ==
    "flush" \notin allowed =>
        /\ mode # "open" => \A e \in acked : e \in Written \/ e <= manifest.current
        /\ mode = "open" =>
             /\ \A e \in acked : Reached(e)
             /\ \A t \in Txns : pc[t] \in {"applied", "persisted"} =>
                  epoch[t] \in memtable /\ epoch[t] <= durable
             /\ \A o \in Owners : pc[o] = "committed" =>
                  /\ epoch[o] \in Written => Reached(epoch[o])
                  /\ job[o] = "checkpoint" => manifest.current = assigned

IInv == Types /\ Clock /\ Locked /\ Placed /\ Down /\ Quiet /\ Known

-----------------------------------------------------------------------------
(* Maxima, rows and markers *)

\* A set of naturals has a smallest element ...
LEMMA HasMin ==
  ASSUME NEW S, S \subseteq Nat, S # {}
  PROVE  \E m \in S : \A n \in S : m <= n
<1>1. PICK R : R = OpToRel(<, Nat)
  OBVIOUS
<1>2. IsWellFoundedOn(R, Nat)
  BY <1>1, NatLessThanWellFounded
<1>3. PICK m \in S : \A n \in S : ~(<<n, m>> \in R)
  BY <1>2, WFMin
<1>4. \A x, y \in Nat : x < y => <<x, y>> \in R
  BY <1>1 DEF OpToRel
<1>5. \A n \in S : m <= n
  <2> SUFFICES ASSUME NEW n \in S PROVE ~(n < m)
    OBVIOUS
  <2> QED BY <1>3, <1>4
<1> QED BY <1>5

\* ... and a greatest one if it is bounded, which is what MaxOf chooses.
LEMMA MaxOfFacts ==
  ASSUME NEW S, S \subseteq Nat, S # {}, NEW b \in Nat, \A n \in S : n <= b
  PROVE  MaxOf(S) \in S /\ \A n \in S : n <= MaxOf(S)
<1>1. PICK T : T = {b - n : n \in S}
  OBVIOUS
<1>2. T # {} /\ T \subseteq Nat
  <2>1. PICK s \in S : TRUE
    OBVIOUS
  <2>2. b - s \in T
    BY <1>1
  <2>3. ASSUME NEW x \in T PROVE x \in Nat
    <3>1. PICK n \in S : x = b - n
      BY <1>1
    <3>2. n \in Nat /\ n <= b
      OBVIOUS
    <3> QED BY <3>1, <3>2
  <2> QED BY <2>2, <2>3
<1>3. PICK m \in T : \A n \in T : m <= n
  BY <1>2, HasMin
<1>4. PICK s \in S : m = b - s
  BY <1>1, <1>3
<1>5. \A n \in S : n <= s
  <2> SUFFICES ASSUME NEW n \in S PROVE n <= s
    OBVIOUS
  <2>1. b - n \in T
    BY <1>1
  <2>2. n \in Nat /\ s \in Nat /\ b - s <= b - n
    BY <1>3, <1>4, <2>1
  <2> QED BY <2>2
<1> QED BY <1>5 DEF MaxOf

\* The rows of a set of runs.
LEMMA RowsOfFacts ==
  ASSUME NEW rs, NEW e
  PROVE  e \in RowsOf(rs) <=> \E r \in rs : e \in r.rows
BY DEF RowsOf



\* The rows when a run is added ...
LEMMA RowsOfMore ==
  ASSUME NEW rs, NEW c, NEW s, NEW more, more = rs \cup {Run(c, s)}
  PROVE  RowsOf(more) = RowsOf(rs) \cup s
<1>1. Run(c, s).rows = s
  BY DEF Run
<1>2. \A r : r \in more <=> r \in rs \/ r = Run(c, s)
  OBVIOUS
<1>3. \A e : e \in RowsOf(more) <=> e \in RowsOf(rs) \/ e \in s
  BY <1>1, <1>2, RowsOfFacts
<1> QED BY <1>3

\* ... and when one run replaces all.
LEMMA RowsOfOne ==
  ASSUME NEW c, NEW s, NEW one, one = {Run(c, s)}
  PROVE  RowsOf(one) = s
<1>1. Run(c, s).rows = s
  BY DEF Run
<1>2. \A e : e \in RowsOf(one) <=> e \in s
  BY <1>1, RowsOfFacts
<1> QED BY <1>2

\* The commits with rows that the WAL has.
LEMMA WrittenFacts ==
  ASSUME NEW e
  PROVE  e \in Written <=> \E w \in wal : w.epoch = e /\ w.kind = "rows"
BY DEF Written

\* A marker is appended.
LEMMA WrittenAppend ==
  ASSUME NEW e, NEW k \in Kinds, wal' = wal \cup {Marker(e, k)}
  PROVE  Written' = IF k = "rows" THEN Written \cup {e} ELSE Written
<1>1. Marker(e, k).epoch = e /\ Marker(e, k).kind = k
  BY DEF Marker
<1>2. \A w : w \in wal' <=> w \in wal \/ w = Marker(e, k)
  OBVIOUS
<1>3. \A x : x \in Written <=> \E w \in wal : w.epoch = x /\ w.kind = "rows"
  BY DEF Written
<1>4. \A x : x \in Written' <=> \E w \in wal' : w.epoch = x /\ w.kind = "rows"
  BY DEF Written
<1>5. \A x : x \in Written' <=> x \in Written \/ (x = e /\ k = "rows")
  BY <1>1, <1>2, <1>3, <1>4
<1> QED BY <1>5

\* The invariant holds in a new database.
LEMMA InitIInv == Init => IInv
<1> SUFFICES ASSUME Init PROVE IInv
  OBVIOUS
<1>1. Types
  <2>1. manifest = [current |-> 0, flushed |-> 0, runs |-> {}]
    BY DEF Init, Manifest
  <2>2. manifest \in Manifests
    BY <2>1, RecoveryAssumptions DEF Manifests
  <2>3. TypeOK
    <3>1. /\ mode \in {"open", "down", "refused"}
          /\ assigned \in 0..MaxEpoch /\ visible \in 0..assigned
          /\ durable \in 0..MaxEpoch /\ flushed \in 0..MaxEpoch
          /\ manifest.current \in 0..MaxEpoch /\ manifest.flushed \in 0..MaxEpoch
          /\ manifest.runs \subseteq RunSet
      BY <2>1, RecoveryAssumptions DEF Init
    <3>2. staged \in BOOLEAN /\ {tableLock, commitLock, barrier} \subseteq Owners \cup {NoThread}
          /\ allowed \in JobSets
      BY DEF Init
    <3>3. /\ resolved = {} /\ wal = {} /\ rotated = {} /\ memtable = {} /\ tier = {}
          /\ runs = {} /\ acked = {} /\ Missed = {}
      BY DEF Init, Missed
    <3>4. faults \in 0..MaxFaults
      BY RecoveryAssumptions DEF Init
    <3> QED BY <3>1, <3>2, <3>3, <3>4 DEF TypeOK
  <2>4. /\ pc \in [Threads -> TxnStages \cup OwnerStages]
        /\ \A t \in Txns : pc[t] \in TxnStages
        /\ \A o \in Owners : pc[o] \in OwnerStages
    BY DEF Init, Threads, TxnStages, OwnerStages
  <2>5. job \in [Threads -> AllJobs] /\ epoch \in [Threads -> 0..MaxEpoch]
    BY RecoveryAssumptions DEF Init, AllJobs
  <2> QED BY <2>2, <2>3, <2>4, <2>5 DEF Types
<1>2. Written = {} /\ RowsOf(runs) = {} /\ RowsOf(manifest.runs) = {}
  BY DEF Init, Written, RowsOf, Manifest
<1>3. Clock /\ Locked
  BY <1>2 DEF Init, Clock, Locked, InFlight, Holding, Threads
<1>4. Placed /\ Down
  BY <1>2 DEF Init, Placed, Down, Manifest, Threads
<1>5. Quiet /\ Known
  BY <1>2 DEF Init, Quiet, Known, Manifest, Accepted, Threads
<1> QED BY <1>1, <1>3, <1>4, <1>5 DEF IInv

-----------------------------------------------------------------------------
(* Transactions *)

\* publish_in_order resolves the epoch and moves the watermark over what is
\* resolved, as far as it goes.
LEMMA PublishFacts ==
  ASSUME TypeOK, Clock, NEW e \in 1..assigned, PublishInOrder(e)
  PROVE  /\ assigned' = assigned /\ resolved' = resolved \cup {e}
         /\ visible' \in Nat /\ visible <= visible' /\ visible' <= assigned
         /\ resolved' \subseteq 1..assigned
         /\ \A x \in 1..visible' : x \in resolved'
         /\ (visible' + 1) \notin resolved'
<1>1. assigned' = assigned /\ resolved' = resolved \cup {e}
  BY DEF PublishInOrder
<1>2. PICK n \in visible..assigned :
        /\ ((visible + 1)..n) \subseteq resolved'
        /\ (n + 1) \notin resolved' /\ visible' = n
  BY DEF PublishInOrder
<1>3. assigned \in Nat /\ visible \in Nat /\ n \in Nat /\ visible <= n /\ n <= assigned
  BY <1>2 DEF TypeOK
<1>4. \A x \in 1..n : x \in 1..visible \/ x \in (visible + 1)..n
  BY <1>3
<1>5. \A x \in 1..visible' : x \in resolved'
  BY <1>1, <1>2, <1>4 DEF Clock
<1> QED BY <1>1, <1>2, <1>3, <1>5 DEF TypeOK

\* A thread that is not idle runs in an open database.
LEMMA BusyIsOpen ==
  ASSUME IInv, NEW t \in Threads, pc[t] # "idle"
  PROVE  mode = "open"
BY DEF IInv, Down

\* What the durable state covers stays covered as long as no marker goes of a row
\* in memory, and no manifest is written below the watermark.
LEMMA ReachedStays ==
  ASSUME IInv, NEW e \in Nat, Reached(e),
         e \in Written /\ e \in memtable \cup tier =>
           e \in Written' /\ e \in memtable' \cup tier',
         durable' \in Nat, durable <= durable', visible' \in Nat, visible <= visible',
         manifest'.current \in Nat,
         manifest'.current = manifest.current \/ visible <= manifest'.current
  PROVE  Reached(e)'
<1>1. durable \in Nat /\ visible \in Nat /\ manifest.current \in Nat
  BY DEF IInv, Types, TypeOK
<1>2. CASE e \in Written /\ e <= durable /\ e \in memtable \cup tier
  BY <1>1, <1>2 DEF Reached
<1>3. CASE e <= visible /\ e <= manifest.current
  BY <1>1, <1>3 DEF Reached
<1> QED BY <1>2, <1>3 DEF Reached

\* A step that acknowledges nothing, applies nothing and commits nothing.
LEMMA KnownStays ==
  ASSUME IInv, mode = "open", mode' = "open", allowed' = allowed, acked' = acked,
         \A e \in Nat : e \in Written /\ e \in memtable \cup tier =>
           e \in Written' /\ e \in memtable' \cup tier',
         durable' \in Nat, durable <= durable', visible' \in Nat, visible <= visible',
         manifest'.current \in Nat,
         manifest'.current = manifest.current \/ visible <= manifest'.current,
         \A t \in Txns : pc'[t] \in {"applied", "persisted"} =>
           /\ pc[t] \in {"applied", "persisted"} /\ epoch'[t] = epoch[t]
           /\ epoch[t] \in memtable => epoch[t] \in memtable',
         \A o \in Owners : pc'[o] = "committed" =>
           /\ pc[o] = "committed" /\ epoch'[o] = epoch[o] /\ job'[o] = job[o]
           /\ epoch[o] \in Written' => epoch[o] \in Written
           /\ job[o] = "checkpoint" =>
                manifest'.current = manifest.current /\ assigned' = assigned
  PROVE  Known'
<1> SUFFICES ASSUME "flush" \notin allowed PROVE Known'
  BY DEF Known
<1>1. acked \subseteq Nat /\ durable \in Nat
  BY DEF IInv, Types, TypeOK, Epochs
<1>2. \A e \in acked' : Reached(e)'
  BY <1>1, ReachedStays DEF IInv, Known
<1>3. \A t \in Txns : t \in Threads /\ epoch[t] \in Nat
  BY DEF IInv, Types, Threads
<1>4. \A t \in Txns : pc'[t] \in {"applied", "persisted"} =>
                  epoch'[t] \in memtable' /\ epoch'[t] <= durable'
  BY <1>1, <1>3 DEF IInv, Known
<1>5. \A o \in Owners : pc'[o] = "committed" /\ job'[o] = "checkpoint" =>
        manifest'.current = assigned'
  BY DEF IInv, Known
<1>6. ASSUME NEW o \in Owners, pc'[o] = "committed", epoch'[o] \in Written'
      PROVE  Reached(epoch[o])'
  <2>1. epoch[o] \in Nat /\ Reached(epoch[o])
    BY <1>6 DEF IInv, Types, Threads, Known
  <2>2. PICK e \in Nat : e = epoch[o]
    BY <2>1
  <2>3. Reached(e)'
    BY <2>1, <2>2, ReachedStays
  <2>4. epoch'[o] = e
    BY <1>6, <2>2
  <2> QED BY <2>3, <2>4 DEF Reached
<1>7. \A o \in Owners : pc'[o] = "committed" /\ epoch'[o] \in Written' => Reached(epoch[o])'
  BY <1>6
<1> QED BY <1>2, <1>4, <1>5, <1>7 DEF Known

\* The group commit makes markers durable.
LEMMA GroupSyncKeeps ==
  ASSUME IInv, GroupSync
  PROVE  IInv'
<1>1. /\ mode = "open" /\ durable' = assigned /\ durable < assigned
      /\ UNCHANGED <<allowed, rotated, mode, assigned, visible, resolved, wal, manifest,
                     memtable, tier, runs, flushed, staged, tableLock, commitLock,
                     barrier, pc, job, epoch, acked, overtaken, dropped, faults>>
  BY DEF GroupSync, authority, table, locks
<1>2. Written' = Written /\ Live' = Live /\ Missed' = Missed
  BY <1>1 DEF Written, Live, Missed
<1>3. Types'
  BY <1>1, <1>2 DEF IInv, Types, TypeOK
<1>4. Clock' /\ Locked'
  BY <1>1, <1>2 DEF IInv, Clock, Locked
<1>5. \A e \in Nat : e <= durable => e <= durable'
  BY <1>1 DEF IInv, Types, TypeOK
<1>6. Placed'
  <2>1. memtable \cup tier \subseteq Nat
    BY DEF IInv, Types, TypeOK, Epochs
  <2> QED BY <1>1, <1>2, <1>5, <2>1 DEF IInv, Placed
<1>7. Down' /\ Quiet'
  BY <1>1, <1>2 DEF IInv, Down, Quiet
<1>8. Known'
  <2>1. /\ durable \in Nat /\ visible \in Nat /\ manifest.current \in Nat /\ assigned \in Nat
        /\ durable <= assigned /\ visible <= visible
    BY <1>1 DEF IInv, Types, TypeOK
  <2> QED BY <1>1, <1>2, <2>1, KnownStays
<1> QED BY <1>3, <1>4, <1>6, <1>7, <1>8 DEF IInv

\* Rows are staged: nobody holds the table.
LEMMA StagePutKeeps ==
  ASSUME IInv, StagePut
  PROVE  IInv'
<1>1. /\ mode = "open" /\ staged' = TRUE /\ tableLock = NoThread
      /\ UNCHANGED <<allowed, rotated, mode, assigned, visible, resolved, wal, manifest,
                     memtable, tier, runs, flushed, durable, tableLock, commitLock,
                     barrier, pc, job, epoch, acked, overtaken, dropped, faults>>
  BY DEF StagePut, authority, disk, locks
<1>2. Written' = Written /\ Live' = Live /\ Missed' = Missed
  BY <1>1 DEF Written, Live, Missed
<1>3. Types'
  BY <1>1, <1>2 DEF IInv, Types, TypeOK
<1>4. Clock' /\ Placed' /\ Down' /\ Quiet'
  BY <1>1, <1>2 DEF IInv, Clock, Placed, Down, Quiet
<1>5. \A o \in Owners : pc[o] \notin Holding
  BY <1>1, RecoveryAssumptions DEF IInv, Locked
<1>6. Locked'
  BY <1>1, <1>2, <1>5 DEF IInv, Locked, Holding
<1>7. Known'
  <2>1. /\ durable \in Nat /\ visible \in Nat /\ manifest.current \in Nat
        /\ durable <= durable /\ visible <= visible
    BY <1>1 DEF IInv, Types, TypeOK
  <2> QED BY <1>1, <1>2, <2>1, KnownStays
<1> QED BY <1>3, <1>4, <1>6, <1>7 DEF IInv

\* The sequencer: the new epoch is past everything there is, gate included.
LEMMA TxnAppendKeeps ==
  ASSUME IInv, NEW t \in Txns, TxnAppend(t)
  PROVE  IInv'
<1>1. /\ mode = "open" /\ pc[t] = "idle" /\ barrier = NoThread
      /\ assigned < MaxEpoch /\ assigned' = assigned + 1
      /\ wal' = wal \cup {Marker(assigned + 1, "rows")}
      /\ epoch' = [epoch EXCEPT ![t] = assigned + 1]
      /\ pc' = [pc EXCEPT ![t] = "appended"]
      /\ UNCHANGED <<allowed, rotated, mode, visible, resolved, durable, manifest,
                     memtable, tier, runs, flushed, staged, tableLock, commitLock,
                     barrier, job, acked, overtaken, dropped, faults>>
  BY DEF TxnAppend, Goto, table, locks, Watermark!Assign
<1>2. Written' = Written \cup {assigned + 1} /\ Live' = Live /\ Missed' = Missed
  BY <1>1, WrittenAppend DEF Kinds, Live, Missed
<1>3. /\ t \in Threads /\ t \notin Owners /\ assigned \in Nat /\ visible \in Nat
      /\ visible <= assigned /\ resolved \subseteq 1..assigned /\ MaxEpoch \in Nat
      /\ durable \in Nat
  BY RecoveryAssumptions DEF IInv, Types, TypeOK, Threads
<1>4. /\ pc'[t] = "appended" /\ epoch'[t] = assigned + 1
      /\ \A u \in Threads \ {t} : pc'[u] = pc[u] /\ epoch'[u] = epoch[u]
  BY <1>1, <1>3 DEF IInv, Types
<1>5. \A o \in Owners : o \in Threads \ {t}
  BY <1>3 DEF Threads
<1>6. Types'
  <2>1. Marker(assigned + 1, "rows") \in [epoch : Epochs, kind : Kinds]
    BY <1>1, <1>3 DEF Marker, Epochs, Kinds
  <2>2. /\ assigned' \in 0..MaxEpoch /\ visible' \in 0..assigned'
        /\ resolved' \subseteq 1..assigned'
    BY <1>1, <1>3
  <2>3. TypeOK'
    BY <1>1, <1>2, <2>1, <2>2 DEF IInv, Types, TypeOK
  <2>4. pc' \in [Threads -> TxnStages \cup OwnerStages]
        /\ \A u \in Txns : pc'[u] \in TxnStages
    BY <1>1, <1>3 DEF IInv, Types, TxnStages, Threads
  <2>5. \A o \in Owners : pc'[o] \in OwnerStages
    BY <1>4, <1>5 DEF IInv, Types
  <2>6. job' \in [Threads -> AllJobs] /\ epoch' \in [Threads -> 0..MaxEpoch]
    BY <1>1, <1>3 DEF IInv, Types
  <2> QED BY <1>1, <2>3, <2>4, <2>5, <2>6 DEF IInv, Types
<1>7. Clock'
  <2>1. /\ \A e \in 1..visible : e \in resolved
        /\ (visible + 1) \notin resolved /\ rotated \subseteq resolved
    BY DEF IInv, Clock
  <2>2. \A w \in wal' : w.epoch <= assigned + 1
    <3>1. \A w \in wal : w.epoch \in Nat /\ w.epoch <= assigned
      BY DEF IInv, Types, TypeOK, Clock, Epochs
    <3>2. Marker(assigned + 1, "rows").epoch = assigned + 1
      BY DEF Marker
    <3> QED BY <1>1, <1>3, <3>1, <3>2
  <2>3. \A u \in Threads : pc'[u] \in InFlight =>
         epoch'[u] \in 1..(assigned + 1) /\ epoch'[u] \notin resolved
    BY <1>3, <1>4 DEF IInv, Clock
  <2>4. \A u \in Threads \ {t} : pc'[u] \in InFlight => epoch'[u] # assigned + 1
    BY <1>3, <1>4 DEF IInv, Clock
  <2>5. \A u, v \in Threads :
         pc'[u] \in InFlight /\ pc'[v] \in InFlight /\ epoch'[u] = epoch'[v] => u = v
    BY <1>4, <2>4 DEF IInv, Clock
  <2>6. \A e \in 1..(assigned + 1) : e \notin resolved =>
         \E u \in Threads : pc'[u] \in InFlight /\ epoch'[u] = e
    <3> SUFFICES ASSUME NEW e \in 1..(assigned + 1), e \notin resolved
                 PROVE  \E u \in Threads : pc'[u] \in InFlight /\ epoch'[u] = e
      OBVIOUS
    <3>1. CASE e = assigned + 1
      BY <3>1, <1>3, <1>4 DEF InFlight
    <3>2. CASE e # assigned + 1
      <4>1. e \in 1..assigned
        BY <3>2, <1>3
      <4>2. PICK u \in Threads : pc[u] \in InFlight /\ epoch[u] = e
        BY <4>1, <1>1 DEF IInv, Clock
      <4>3. u # t
        BY <4>2, <1>1 DEF InFlight
      <4> QED BY <4>2, <4>3, <1>4
    <3> QED BY <3>1, <3>2
  <2> QED BY <1>1, <2>1, <2>2, <2>3, <2>5, <2>6 DEF Clock
<1>8. Locked'
  <2>1. \A o \in Owners : pc'[o] = pc[o] /\ epoch'[o] = epoch[o]
    BY <1>4, <1>5
  <2>2. \A o \in Owners : pc[o] = "sealed" => epoch[o] # assigned + 1
    BY <1>3, <1>5 DEF IInv, Clock, InFlight
  <2>3. \A o \in Owners : pc[o] \in {"sealed", "committed"} => job[o] # "checkpoint"
    BY <1>1, RecoveryAssumptions DEF IInv, Locked, Holding
  <2> QED BY <1>1, <1>2, <2>1, <2>2, <2>3 DEF IInv, Locked
<1>9. Placed'
  <2>1. \A e \in Written \ Missed :
             e \in Live \/ \E u \in Threads : pc'[u] \in Unapplied /\ epoch'[u] = e
    <3> SUFFICES ASSUME NEW e \in Written \ Missed, e \notin Live
                 PROVE  \E u \in Threads : pc'[u] \in Unapplied /\ epoch'[u] = e
      OBVIOUS
    <3>1. PICK u \in Threads : pc[u] \in Unapplied /\ epoch[u] = e
      BY <1>1 DEF IInv, Placed
    <3>2. u # t
      BY <3>1, <1>1 DEF Unapplied
    <3> QED BY <3>1, <3>2, <1>4
  <2>2. \E u \in Threads : pc'[u] \in Unapplied /\ epoch'[u] = assigned + 1
    BY <1>3, <1>4 DEF Unapplied
  <2>3. \A u \in Txns \ {t} : pc'[u] = pc[u] /\ epoch'[u] = epoch[u]
    BY <1>4 DEF Threads
  <2>4. assigned + 1 > flushed /\ flushed <= assigned + 1
    BY <1>1, <1>3 DEF IInv, Placed, Types, TypeOK
  <2>5. \A u \in Txns :
             /\ pc'[u] # "idle" => epoch'[u] \in Written'
             /\ pc'[u] = "appended" /\ epoch'[u] \notin Missed =>
                  epoch'[u] > flushed \/ epoch'[u] \in RowsOf(runs)
    BY <1>1, <1>2, <1>4, <2>3, <2>4 DEF IInv, Placed
  <2> QED BY <1>1, <1>2, <2>1, <2>2, <2>4, <2>5 DEF IInv, Placed
<1>10. Down' /\ Quiet'
  <2>1. Quiet'
    BY <1>1, <1>3 DEF IInv, Quiet, Types, TypeOK, Epochs
  <2> QED BY <1>1, <2>1 DEF Down
<1>11. Known'
  <2>1. manifest.current \in Nat /\ durable <= durable /\ visible <= visible
    BY <1>3 DEF IInv, Types, TypeOK
  <2>2. \A u \in Txns : pc'[u] \in {"applied", "persisted"} =>
          pc[u] \in {"applied", "persisted"} /\ epoch'[u] = epoch[u]
    BY <1>4 DEF Threads
  <2>3. \A o \in Owners : pc'[o] = "committed" =>
          /\ pc[o] = "committed" /\ epoch'[o] = epoch[o] /\ job[o] # "checkpoint"
          /\ epoch[o] \in Written' => epoch[o] \in Written
    <3>1. \A o \in Owners : pc[o] = "committed" => job[o] # "checkpoint"
      BY <1>1, RecoveryAssumptions DEF IInv, Locked, Holding
    <3>2. \A o \in Owners : pc[o] = "committed" => epoch[o] # assigned + 1
      BY <1>3 DEF IInv, Locked
    <3> QED BY <1>2, <1>4, <1>5, <3>1, <3>2
  <2> QED BY <1>1, <1>2, <1>3, <2>1, <2>2, <2>3, KnownStays
<1> QED BY <1>6, <1>7, <1>8, <1>9, <1>10, <1>11 DEF IInv

\* Nobody holds the table when its lock is free.
LEMMA FreeTable ==
  ASSUME IInv, tableLock = NoThread
  PROVE  \A o \in Owners : pc[o] \notin Holding
BY RecoveryAssumptions DEF IInv, Locked

\* A transaction goes on to another stage of its flight, in the table or not.
LEMMA TxnStageKeeps ==
  ASSUME IInv, NEW t \in Txns, pc[t] \in InFlight,
         NEW l \in {"applied", "persisted"}, pc' = [pc EXCEPT ![t] = l],
         UNCHANGED <<mode, assigned, visible, resolved, wal, durable, rotated, epoch>>
  PROVE  /\ Clock' /\ Written' = Written
         /\ pc'[t] = l /\ \A u \in Threads \ {t} : pc'[u] = pc[u]
         /\ pc' \in [Threads -> TxnStages \cup OwnerStages]
         /\ \A u \in Txns : pc'[u] \in TxnStages
         /\ \A o \in Owners : pc'[o] = pc[o] /\ pc'[o] \in OwnerStages
<1>1. t \in Threads /\ t \notin Owners /\ \A o \in Owners : o \in Threads \ {t}
  BY RecoveryAssumptions DEF Threads
<1>2. pc'[t] = l /\ \A u \in Threads \ {t} : pc'[u] = pc[u]
  BY <1>1 DEF IInv, Types
<1>3. \A u \in Threads : pc'[u] \in InFlight <=> pc[u] \in InFlight
  BY <1>2 DEF InFlight
<1>4. Clock'
  BY <1>3 DEF IInv, Clock
<1>5. pc' \in [Threads -> TxnStages \cup OwnerStages]
  BY DEF IInv, Types, TxnStages
<1>6. \A u \in Txns : pc'[u] \in TxnStages
  BY <1>2 DEF IInv, Types, TxnStages, Threads
<1>7. \A o \in Owners : pc'[o] = pc[o] /\ pc'[o] \in OwnerStages
  BY <1>1, <1>2 DEF IInv, Types
<1> QED BY <1>2, <1>4, <1>5, <1>6, <1>7 DEF Written

\* The rows are applied: they are in the durable WAL and past the gate, or a
\* flush overtook them.
LEMMA TxnApplyKeeps ==
  ASSUME IInv, NEW t \in Txns, TxnApply(t)
  PROVE  IInv'
<1>1. /\ pc[t] = "appended" /\ durable >= epoch[t] /\ tableLock = NoThread
      /\ memtable' = memtable \cup {epoch[t]}
      /\ pc' = [pc EXCEPT ![t] = "applied"]
      /\ UNCHANGED <<allowed, mode, assigned, visible, resolved, wal, durable, rotated,
                     manifest, tier, runs, flushed, staged, tableLock, commitLock,
                     barrier, job, epoch, acked, overtaken, dropped, faults>>
  BY DEF TxnApply, Goto, authority, disk, locks
<1>2. mode = "open" /\ t \in Threads
  BY <1>1, BusyIsOpen DEF Threads
<1>3. /\ Clock' /\ Written' = Written
      /\ pc'[t] = "applied" /\ \A u \in Threads \ {t} : pc'[u] = pc[u]
      /\ pc' \in [Threads -> TxnStages \cup OwnerStages]
      /\ \A u \in Txns : pc'[u] \in TxnStages
      /\ \A o \in Owners : pc'[o] = pc[o] /\ pc'[o] \in OwnerStages
  BY <1>1, TxnStageKeeps DEF InFlight
<1>4. /\ epoch[t] \in 1..assigned /\ epoch[t] \notin resolved /\ epoch[t] \in Epochs
      /\ epoch[t] \in Nat /\ durable \in Nat /\ flushed \in Nat
  BY <1>1, <1>2 DEF IInv, Clock, InFlight, Types, TypeOK, Epochs
<1>5. Types'
  <2>1. TypeOK'
    BY <1>1, <1>4 DEF IInv, Types, TypeOK, Missed
  <2> QED BY <1>1, <1>3, <2>1 DEF IInv, Types
<1>6. Live' = Live \cup {epoch[t]} /\ Missed' = Missed
  BY <1>1 DEF Live, Missed
<1>7. Locked'
  <2>1. \A o \in Owners : pc[o] \notin Holding
    BY <1>1, FreeTable
  <2>2. epoch[t] \notin rotated
    BY <1>4 DEF IInv, Clock
  <2>3. barrier # NoThread => \A u \in Txns : pc'[u] = "idle"
    BY <1>1 DEF IInv, Locked
  <2> QED BY <1>1, <1>3, <2>1, <2>2, <2>3 DEF IInv, Locked, Holding
<1>8. Placed'
  <2>1. \A e \in Written \ Missed :
             e \in Live' \/ \E u \in Threads : pc'[u] \in Unapplied /\ epoch[u] = e
    <3> SUFFICES ASSUME NEW e \in Written \ Missed, e \notin Live, e # epoch[t]
                 PROVE  \E u \in Threads : pc'[u] \in Unapplied /\ epoch[u] = e
      BY <1>6
    <3>1. PICK u \in Threads : pc[u] \in Unapplied /\ epoch[u] = e
      BY <1>2 DEF IInv, Placed
    <3> QED BY <3>1, <1>3
  <2>2. \A e \in (memtable' \cup tier) \ Missed :
             e \in RowsOf(runs) \/ (e \in Written /\ e <= durable /\ e > flushed)
    BY <1>1, <1>2, <1>4 DEF IInv, Placed
  <2>3. \A u \in Txns : /\ pc'[u] = "appended" => pc[u] = "appended"
                        /\ pc'[u] # "idle" => pc[u] # "idle"
    BY <1>1, <1>3 DEF Threads
  <2> QED BY <1>1, <1>2, <1>3, <1>6, <2>1, <2>2, <2>3 DEF IInv, Placed
<1>9. Down' /\ Quiet'
  BY <1>1, <1>2, <1>4 DEF IInv, Down, Quiet
<1>10. Known'
  <2> SUFFICES ASSUME "flush" \notin allowed PROVE Known'
    BY <1>1 DEF Known
  <2>1. \A e \in Nat : Reached(e) => Reached(e)'
    BY <1>1, <1>3 DEF Reached
  <2>2. \A e \in acked' : Reached(e)'
    BY <1>1, <1>2, <2>1 DEF IInv, Known, Types, TypeOK, Epochs
  <2>3. \A u \in Txns : pc'[u] \in {"applied", "persisted"} =>
               epoch'[u] \in memtable' /\ epoch'[u] <= durable'
    BY <1>1, <1>2, <1>3, <1>4 DEF IInv, Known, Threads
  <2>4. \A o \in Owners : pc[o] # "committed"
    BY <1>1, FreeTable DEF Holding
  <2> QED BY <1>1, <1>2, <1>3, <2>2, <2>3, <2>4 DEF Known
<1> QED BY <1>3, <1>5, <1>7, <1>8, <1>9, <1>10 DEF IInv

\* The manifest is rewritten at the transaction's epoch, which is past the
\* watermark, and so past the gate and the runs of a quiet table.
LEMMA TxnPersistKeeps ==
  ASSUME IInv, NEW t \in Txns, TxnPersist(t)
  PROVE  IInv'
<1>1. /\ pc[t] = "applied" /\ tableLock = NoThread
      /\ manifest' = [current |-> epoch[t], flushed |-> flushed, runs |-> runs]
      /\ pc' = [pc EXCEPT ![t] = "persisted"]
      /\ UNCHANGED <<allowed, mode, assigned, visible, resolved, wal, durable, rotated,
                     memtable, tier, runs, flushed, staged, tableLock, commitLock,
                     barrier, job, epoch, acked, overtaken, faults>>
      /\ dropped' = dropped \ RowsOf(runs)
  BY DEF TxnPersist, Goto, authority, table, locks, Manifest
<1>2. mode = "open" /\ t \in Threads
  BY <1>1, BusyIsOpen DEF Threads
<1>3. /\ Clock' /\ Written' = Written
      /\ pc'[t] = "persisted" /\ \A u \in Threads \ {t} : pc'[u] = pc[u]
      /\ pc' \in [Threads -> TxnStages \cup OwnerStages]
      /\ \A u \in Txns : pc'[u] \in TxnStages
      /\ \A o \in Owners : pc'[o] = pc[o] /\ pc'[o] \in OwnerStages
  BY <1>1, TxnStageKeeps DEF InFlight
<1>4. /\ epoch[t] \in 1..assigned /\ epoch[t] \notin resolved /\ epoch[t] \in 0..MaxEpoch
      /\ flushed \in 0..MaxEpoch /\ runs \subseteq RunSet
      /\ visible \in Nat /\ assigned \in Nat
  BY <1>1, <1>2 DEF IInv, Clock, InFlight, Types, TypeOK
<1>5. manifest'.current = epoch[t] /\ manifest'.flushed = flushed /\ manifest'.runs = runs
      /\ manifest' \in Manifests
  BY <1>1, <1>4 DEF Manifests
<1>6. Types'
  <2>1. TypeOK'
    BY <1>1, <1>4, <1>5 DEF IInv, Types, TypeOK, Missed
  <2> QED BY <1>1, <1>3, <1>5, <2>1 DEF IInv, Types
<1>7. Live' = Live /\ Missed \subseteq Missed' \cup RowsOf(runs)
  BY <1>1 DEF Live, Missed
<1>8. Locked'
  <2>1. barrier # NoThread => \A u \in Txns : pc'[u] = "idle"
    BY <1>1 DEF IInv, Locked
  <2> QED BY <1>1, <1>3, <2>1 DEF IInv, Locked
<1>9. Placed'
  <2>1. \A u \in Threads : pc'[u] \in Unapplied <=> pc[u] \in Unapplied
    BY <1>1, <1>3 DEF Unapplied
  <2>2. \A u \in Txns : /\ pc'[u] = "appended" => pc[u] = "appended"
                        /\ pc'[u] # "idle" => pc[u] # "idle"
    BY <1>1, <1>3 DEF Threads
  <2>3. RowsOf(runs) \subseteq Live
    BY DEF Live
  <2>4. /\ acked \ Missed' \subseteq Live
        /\ \A e \in Written \ Missed' :
             e \in Live \/ \E u \in Threads : pc'[u] \in Unapplied /\ epoch[u] = e
    BY <1>2, <1>7, <2>1, <2>3 DEF IInv, Placed
  <2>5. \A e \in (memtable \cup tier) \ Missed' :
             e \in RowsOf(runs) \/ (e \in Written /\ e <= durable /\ e > flushed)
    BY <1>2, <1>7 DEF IInv, Placed
  <2>6. \A u \in Txns :
             /\ pc'[u] # "idle" => epoch[u] \in Written
             /\ pc'[u] = "appended" /\ epoch[u] \notin Missed' =>
                  epoch[u] > flushed \/ epoch[u] \in RowsOf(runs)
    BY <1>2, <1>7, <2>2 DEF IInv, Placed
  <2>7. flushed <= flushed /\ flushed <= assigned
    BY <1>2, <1>4 DEF IInv, Placed
  <2> QED BY <1>1, <1>3, <1>5, <1>7, <2>4, <2>5, <2>6, <2>7 DEF Placed
<1>10. epoch[t] > visible
  BY <1>4 DEF IInv, Clock
<1>11. Quiet'
  <2> SUFFICES ASSUME "flush" \notin allowed PROVE Quiet'
    BY <1>1 DEF Quiet
  <2>1. flushed <= visible /\ \A r \in runs : r.created <= visible
    BY <1>2 DEF IInv, Quiet
  <2>2. \A r \in runs : r.created \in Nat
    BY <1>4 DEF RunSet
  <2>3. flushed <= epoch[t] /\ \A r \in runs : r.created <= epoch[t]
    BY <1>4, <1>10, <2>1, <2>2
  <2>4. Accepted(manifest)'
    BY <1>5, <2>3 DEF Accepted
  <2>5. \A r \in manifest'.runs : \A e \in r.rows : e <= r.created
    BY <1>2, <1>5 DEF IInv, Quiet
  <2> QED BY <1>1, <2>4, <2>5 DEF IInv, Quiet
<1>12. Down'
  BY <1>1, <1>2 DEF Down
<1>13. Known'
  <2>1. manifest'.current \in Nat /\ visible <= manifest'.current /\ durable \in Nat
        /\ durable <= durable /\ visible <= visible
    BY <1>4, <1>5, <1>10 DEF IInv, Types, TypeOK
  <2>2. \A u \in Txns : pc'[u] \in {"applied", "persisted"} =>
          pc[u] \in {"applied", "persisted"}
    BY <1>1, <1>3 DEF Threads
  <2>3. \A o \in Owners : pc[o] # "committed"
    BY <1>1, FreeTable DEF Holding
  <2> QED BY <1>1, <1>2, <1>3, <1>4, <2>1, <2>2, <2>3, KnownStays
<1> QED BY <1>3, <1>6, <1>8, <1>9, <1>11, <1>12, <1>13 DEF IInv

\* A thread publishes its epoch and is no longer in flight.
LEMMA ClockPublish ==
  ASSUME IInv, NEW t \in Threads, pc[t] \in InFlight, mode = "open",
         PublishInOrder(epoch[t]),
         pc'[t] \notin InFlight, \A u \in Threads \ {t} : pc'[u] = pc[u],
         UNCHANGED <<mode, wal, rotated, epoch>>
  PROVE  Clock'
<1>1. epoch[t] \in 1..assigned /\ epoch[t] \notin resolved
  BY DEF IInv, Clock
<1>2. /\ assigned' = assigned /\ resolved' = resolved \cup {epoch[t]}
      /\ \A x \in 1..visible' : x \in resolved'
      /\ (visible' + 1) \notin resolved'
  BY <1>1, PublishFacts DEF IInv, Types
<1>3. \A u \in Threads : pc'[u] \in InFlight =>
         pc[u] \in InFlight /\ epoch[u] # epoch[t]
  BY DEF IInv, Clock
<1>4. \A u \in Threads : pc'[u] \in InFlight =>
         epoch[u] \in 1..assigned /\ epoch[u] \notin resolved'
  BY <1>2, <1>3 DEF IInv, Clock
<1>5. \A u, v \in Threads :
         pc'[u] \in InFlight /\ pc'[v] \in InFlight /\ epoch[u] = epoch[v] => u = v
  BY <1>3 DEF IInv, Clock
<1>6. \A e \in 1..assigned : e \notin resolved' =>
         \E u \in Threads : pc'[u] \in InFlight /\ epoch[u] = e
  <2> SUFFICES ASSUME NEW e \in 1..assigned, e \notin resolved, e # epoch[t]
               PROVE  \E u \in Threads : pc'[u] \in InFlight /\ epoch[u] = e
    BY <1>2
  <2>1. PICK u \in Threads : pc[u] \in InFlight /\ epoch[u] = e
    BY DEF IInv, Clock
  <2> QED BY <2>1
<1>7. (\A w \in wal' : w.epoch <= assigned') /\ rotated' \subseteq resolved'
  BY <1>2 DEF IInv, Clock
<1> QED BY <1>2, <1>4, <1>5, <1>6, <1>7 DEF Clock

\* The transaction is published and acknowledged: its rows are in the table,
\* or were overtaken.
LEMMA TxnPublishKeeps ==
  ASSUME IInv, NEW t \in Txns, TxnPublish(t)
  PROVE  IInv'
<1>1. /\ pc[t] = "persisted" /\ PublishInOrder(epoch[t])
      /\ acked' = acked \cup {epoch[t]}
      /\ pc' = [pc EXCEPT ![t] = "idle"]
      /\ UNCHANGED <<allowed, mode, wal, durable, rotated, manifest, memtable, tier,
                     runs, flushed, staged, tableLock, commitLock, barrier, job,
                     epoch, overtaken, dropped, faults>>
  BY DEF TxnPublish, Goto, disk, table, locks
<1>2. mode = "open" /\ t \in Threads /\ pc[t] \in InFlight
  BY <1>1, BusyIsOpen DEF Threads, InFlight
<1>3. /\ pc'[t] = "idle" /\ \A u \in Threads \ {t} : pc'[u] = pc[u]
      /\ \A o \in Owners : o \in Threads \ {t}
  BY <1>1, <1>2, RecoveryAssumptions DEF IInv, Types, Threads
<1>4. /\ epoch[t] \in 1..assigned /\ epoch[t] \notin resolved /\ epoch[t] \in Epochs
      /\ visible \in Nat /\ assigned \in Nat
  BY <1>2 DEF IInv, Clock, Types, TypeOK, Epochs
<1>5. /\ assigned' = assigned /\ resolved' = resolved \cup {epoch[t]}
      /\ visible' \in Nat /\ visible <= visible' /\ visible' <= assigned
      /\ resolved' \subseteq 1..assigned
  BY <1>1, <1>4, PublishFacts DEF IInv, Types
<1>6. Clock'
  BY <1>1, <1>2, <1>3, ClockPublish DEF InFlight
<1>7. Types'
  <2>1. TypeOK'
    BY <1>1, <1>4, <1>5 DEF IInv, Types, TypeOK, Missed
  <2>2. pc' \in [Threads -> TxnStages \cup OwnerStages]
    BY <1>1 DEF IInv, Types, TxnStages
  <2>3. \A u \in Txns : pc'[u] \in TxnStages
    BY <1>3 DEF IInv, Types, TxnStages, Threads
  <2>4. \A o \in Owners : pc'[o] \in OwnerStages
    BY <1>3 DEF IInv, Types
  <2> QED BY <1>1, <2>1, <2>2, <2>3, <2>4 DEF IInv, Types
<1>8. Written' = Written /\ Live' = Live /\ Missed' = Missed
  BY <1>1 DEF Written, Live, Missed
<1>9. Locked'
  <2>1. barrier # NoThread => \A u \in Txns : pc'[u] = "idle"
    BY <1>1 DEF IInv, Locked
  <2>2. \A o \in Owners : pc'[o] = pc[o]
    BY <1>3
  <2> QED BY <1>1, <1>5, <1>8, <2>1, <2>2 DEF IInv, Locked
<1>10. epoch[t] \in Live \cup Missed
  <2>1. epoch[t] \in Written
    BY <1>1, <1>2 DEF IInv, Placed
  <2>2. ~\E u \in Threads : pc[u] \in Unapplied /\ epoch[u] = epoch[t]
    BY <1>1, <1>2 DEF IInv, Clock, Unapplied, InFlight
  <2> QED BY <1>2, <2>1, <2>2 DEF IInv, Placed
<1>11. Placed'
  <2>1. \A u \in Threads : pc'[u] \in Unapplied <=> pc[u] \in Unapplied
    BY <1>1, <1>3 DEF Unapplied
  <2>2. \A u \in Txns : /\ pc'[u] = "appended" => pc[u] = "appended"
                        /\ pc'[u] # "idle" => pc[u] # "idle"
    BY <1>3 DEF Threads
  <2>3. acked' \ Missed \subseteq Live
    BY <1>1, <1>2, <1>10 DEF IInv, Placed
  <2> QED BY <1>1, <1>2, <1>5, <1>8, <2>1, <2>2, <2>3 DEF IInv, Placed
<1>12. Quiet'
  <2> SUFFICES ASSUME "flush" \notin allowed PROVE Quiet'
    BY <1>1 DEF Quiet
  <2>1. /\ flushed <= visible /\ \A r \in runs : r.created <= visible
        /\ \A e \in tier : e <= visible
    BY <1>2 DEF IInv, Quiet
  <2>2. /\ flushed \in Nat /\ (\A r \in runs : r.created \in Nat) /\ tier \subseteq Nat
    BY DEF IInv, Types, TypeOK, RunSet, Epochs
  <2>3. /\ flushed <= visible' /\ \A r \in runs : r.created <= visible'
        /\ \A e \in tier : e <= visible'
    BY <1>4, <1>5, <2>1, <2>2
  <2>4. Accepted(manifest)'
    BY <1>1 DEF IInv, Quiet, Accepted
  <2> QED BY <1>1, <1>5, <2>3, <2>4 DEF IInv, Quiet
<1>13. Down'
  BY <1>1, <1>2 DEF Down
<1>14. Known'
  <2> SUFFICES ASSUME "flush" \notin allowed PROVE Known'
    BY <1>1 DEF Known
  <2>1. visible \in Nat /\ acked \subseteq Nat
    BY <1>4 DEF IInv, Types, TypeOK, Epochs
  <2>2. \A e \in Nat : Reached(e) => Reached(e)'
    BY <1>1, <1>4, <1>5, <1>8 DEF Reached
  <2>3. epoch[t] \in Nat /\ Reached(epoch[t])
    BY <1>1, <1>2, <1>4 DEF IInv, Known, Placed, Reached
  <2>4. \A e \in acked' : Reached(e)'
    BY <1>1, <1>2, <2>1, <2>2, <2>3 DEF IInv, Known
  <2>5. \A u \in Txns : pc'[u] \in {"applied", "persisted"} =>
               epoch'[u] \in memtable' /\ epoch'[u] <= durable'
    BY <1>1, <1>2, <1>3 DEF IInv, Known, Threads
  <2>6. \A o \in Owners : pc'[o] = "committed" =>
                  /\ epoch[o] \in Written => Reached(epoch[o])
                  /\ job[o] = "checkpoint" => manifest.current = assigned
    BY <1>2, <1>3 DEF IInv, Known
  <2>7. \A o \in Owners : epoch[o] \in Nat
    BY DEF IInv, Types, Threads
  <2>8. \A o \in Owners : pc'[o] = "committed" =>
                  /\ epoch'[o] \in Written' => Reached(epoch[o])'
                  /\ job'[o] = "checkpoint" => manifest'.current = assigned'
    BY <1>1, <1>4, <1>5, <1>8, <2>6, <2>7 DEF Reached
  <2> QED BY <1>1, <1>2, <2>4, <2>5, <2>8 DEF Known
<1> QED BY <1>6, <1>7, <1>9, <1>11, <1>12, <1>13, <1>14 DEF IInv

\* The transaction is published without its rows, which `dropped` remembers.
LEMMA TxnFailsKeeps ==
  ASSUME IInv, NEW t \in Txns, TxnFails(t)
  PROVE  IInv'
<1>1. /\ pc[t] = "appended" /\ PublishInOrder(epoch[t])
      /\ dropped' = dropped \cup {epoch[t]}
      /\ pc' = [pc EXCEPT ![t] = "idle"] /\ faults > 0 /\ faults' = faults - 1
      /\ UNCHANGED <<allowed, mode, wal, durable, rotated, manifest, memtable, tier,
                     runs, flushed, staged, tableLock, commitLock, barrier, job,
                     epoch, acked, overtaken>>
  BY DEF TxnFails, Goto, Fault, disk, table, locks
<1>2. mode = "open" /\ t \in Threads /\ pc[t] \in InFlight
  BY <1>1, BusyIsOpen DEF Threads, InFlight
<1>3. /\ pc'[t] = "idle" /\ \A u \in Threads \ {t} : pc'[u] = pc[u]
      /\ \A o \in Owners : o \in Threads \ {t}
  BY <1>1, <1>2, RecoveryAssumptions DEF IInv, Types, Threads
<1>4. /\ epoch[t] \in 1..assigned /\ epoch[t] \notin resolved /\ epoch[t] \in Epochs
      /\ visible \in Nat /\ assigned \in Nat
  BY <1>2 DEF IInv, Clock, Types, TypeOK, Epochs
<1>5. /\ assigned' = assigned /\ resolved' = resolved \cup {epoch[t]}
      /\ visible' \in Nat /\ visible <= visible' /\ visible' <= assigned
      /\ resolved' \subseteq 1..assigned
  BY <1>1, <1>4, PublishFacts DEF IInv, Types
<1>6. Clock'
  BY <1>1, <1>2, <1>3, ClockPublish DEF InFlight
<1>7. Written' = Written /\ Live' = Live /\ Missed' = Missed \cup {epoch[t]}
  BY <1>1 DEF Written, Live, Missed
<1>8. Types'
  <2>1. faults' \in 0..MaxFaults
    BY <1>1, RecoveryAssumptions DEF IInv, Types, TypeOK
  <2>2. TypeOK'
    BY <1>1, <1>4, <1>5, <1>7, <2>1 DEF IInv, Types, TypeOK
  <2>3. pc' \in [Threads -> TxnStages \cup OwnerStages]
    BY <1>1 DEF IInv, Types, TxnStages
  <2>4. \A u \in Txns : pc'[u] \in TxnStages
    BY <1>3 DEF IInv, Types, TxnStages, Threads
  <2>5. \A o \in Owners : pc'[o] \in OwnerStages
    BY <1>3 DEF IInv, Types
  <2> QED BY <1>1, <2>2, <2>3, <2>4, <2>5 DEF IInv, Types
<1>9. Locked'
  <2>1. barrier # NoThread => \A u \in Txns : pc'[u] = "idle"
    BY <1>1 DEF IInv, Locked
  <2>2. \A o \in Owners : pc'[o] = pc[o]
    BY <1>3
  <2> QED BY <1>1, <1>5, <1>7, <2>1, <2>2 DEF IInv, Locked
<1>10. Placed'
  <2>1. \A e \in Written \ Missed' :
             e \in Live \/ \E u \in Threads : pc'[u] \in Unapplied /\ epoch[u] = e
    <3> SUFFICES ASSUME NEW e \in Written \ Missed', e \notin Live
                 PROVE  \E u \in Threads : pc'[u] \in Unapplied /\ epoch[u] = e
      OBVIOUS
    <3>1. PICK u \in Threads : pc[u] \in Unapplied /\ epoch[u] = e
      BY <1>2, <1>7 DEF IInv, Placed
    <3>2. u # t
      BY <1>7, <3>1
    <3> QED BY <1>3, <3>1, <3>2
  <2>2. \A u \in Txns : pc'[u] # "idle" => pc'[u] = pc[u]
    BY <1>3 DEF Threads
  <2>3. \A u \in Txns :
             /\ pc'[u] # "idle" => epoch[u] \in Written
             /\ pc'[u] = "appended" /\ epoch[u] \notin Missed' =>
                  epoch[u] > flushed \/ epoch[u] \in RowsOf(runs)
    BY <1>2, <1>7, <2>2 DEF IInv, Placed
  <2> QED BY <1>1, <1>2, <1>5, <1>7, <2>1, <2>3 DEF IInv, Placed
<1>11. Quiet'
  <2> SUFFICES ASSUME "flush" \notin allowed PROVE Quiet'
    BY <1>1 DEF Quiet
  <2>1. /\ flushed <= visible /\ \A r \in runs : r.created <= visible
        /\ \A e \in tier : e <= visible
    BY <1>2 DEF IInv, Quiet
  <2>2. /\ flushed \in Nat /\ (\A r \in runs : r.created \in Nat) /\ tier \subseteq Nat
    BY DEF IInv, Types, TypeOK, RunSet, Epochs
  <2>3. /\ flushed <= visible' /\ \A r \in runs : r.created <= visible'
        /\ \A e \in tier : e <= visible'
    BY <1>4, <1>5, <2>1, <2>2
  <2>4. Accepted(manifest)'
    BY <1>1 DEF IInv, Quiet, Accepted
  <2> QED BY <1>1, <1>5, <2>3, <2>4 DEF IInv, Quiet
<1>12. Down'
  BY <1>1, <1>2 DEF Down
<1>13. Known'
  <2>1. /\ durable \in Nat /\ manifest.current \in Nat /\ durable <= durable
    BY DEF IInv, Types, TypeOK
  <2>2. \A u \in Txns : pc'[u] # "idle" => pc'[u] = pc[u]
    BY <1>3 DEF Threads
  <2> QED BY <1>1, <1>2, <1>3, <1>5, <1>7, <2>1, <2>2, KnownStays
<1> QED BY <1>6, <1>8, <1>9, <1>10, <1>11, <1>12, <1>13 DEF IInv

-----------------------------------------------------------------------------
(* The owners of the table handle *)

\* A step of an owner to stage l: what it leaves of the others' stages.
LEMMA OwnerGoto ==
  ASSUME IInv, NEW o \in Owners, NEW l \in OwnerStages, pc' = [pc EXCEPT ![o] = l]
  PROVE  /\ o \in Threads /\ o \notin Txns /\ o # NoThread
         /\ pc'[o] = l /\ \A u \in Threads \ {o} : pc'[u] = pc[u]
         /\ \A u \in Owners \ {o} : pc'[u] = pc[u]
         /\ \A u \in Txns : pc'[u] = pc[u] /\ u # o /\ u \in Threads
         /\ pc' \in [Threads -> TxnStages \cup OwnerStages]
         /\ \A u \in Txns : pc'[u] \in TxnStages
         /\ \A u \in Owners : pc'[u] \in OwnerStages
<1>1. o \in Threads /\ o \notin Txns /\ o # NoThread
  BY RecoveryAssumptions DEF Threads
<1>2. pc'[o] = l /\ \A u \in Threads \ {o} : pc'[u] = pc[u]
  BY <1>1 DEF IInv, Types
<1>3. \A u \in Txns : pc'[u] = pc[u] /\ u # o /\ u \in Threads
  BY <1>1, <1>2 DEF Threads
<1>4. \A u \in Owners \ {o} : pc'[u] = pc[u]
  BY <1>2 DEF Threads
<1>5. pc' \in [Threads -> TxnStages \cup OwnerStages]
  BY DEF IInv, Types
<1> QED BY <1>1, <1>2, <1>3, <1>4, <1>5 DEF IInv, Types

\* A step of an owner to stage l that is not in flight before or after it.
LEMMA OwnerClock ==
  ASSUME IInv, NEW o \in Owners, NEW l \in OwnerStages, pc' = [pc EXCEPT ![o] = l],
         pc[o] \notin InFlight, l \notin InFlight,
         UNCHANGED <<mode, assigned, visible, resolved, wal, rotated, epoch>>
  PROVE  Clock' /\ \A u \in Threads : pc'[u] \in Unapplied <=> pc[u] \in Unapplied
<1>1. \A u \in Threads : pc'[u] \in InFlight <=> pc[u] \in InFlight
  BY OwnerGoto
<1>2. Unapplied \subseteq InFlight
  BY DEF Unapplied, InFlight
<1>3. \A u \in Threads : pc'[u] \in Unapplied <=> pc[u] \in Unapplied
  BY <1>2, OwnerGoto
<1> QED BY <1>1, <1>3 DEF IInv, Clock

\* The table is locked, and the barrier too for a checkpoint.
LEMMA LockKeeps ==
  ASSUME IInv, NEW o \in Owners, NEW j \in allowed \ {"gc"}, Lock(o, j)
  PROVE  IInv'
<1> DEFINE l == IF j = "compact" THEN "compacting" ELSE "locked"
<1>1. /\ mode = "open" /\ pc[o] = "idle" /\ tableLock = NoThread
      /\ j = "checkpoint" => barrier = NoThread /\ \A t \in Txns : pc[t] = "idle"
      /\ tableLock' = o
      /\ barrier' = IF j = "checkpoint" THEN o ELSE barrier
      /\ job' = [job EXCEPT ![o] = j]
      /\ pc' = [pc EXCEPT ![o] = l]
      /\ UNCHANGED <<allowed, mode, assigned, visible, resolved, wal, durable, rotated,
                     manifest, memtable, tier, runs, flushed, staged, commitLock,
                     epoch, acked, overtaken, dropped, faults>>
  BY DEF Lock, Goto, authority, disk, table
<1>2. l \in OwnerStages /\ l \notin InFlight /\ pc[o] \notin InFlight
  BY <1>1 DEF OwnerStages, InFlight
<1>3. /\ o \in Threads /\ o # NoThread
      /\ pc'[o] = l /\ \A u \in Owners \ {o} : pc'[u] = pc[u]
      /\ \A u \in Txns : pc'[u] = pc[u]
      /\ pc' \in [Threads -> TxnStages \cup OwnerStages]
      /\ \A u \in Txns : pc'[u] \in TxnStages
      /\ \A u \in Owners : pc'[u] \in OwnerStages
  BY <1>1, <1>2, OwnerGoto
<1>4. Clock' /\ \A u \in Threads : pc'[u] \in Unapplied <=> pc[u] \in Unapplied
  BY <1>1, <1>2, OwnerClock
<1>5. j \in AllJobs
  BY RecoveryAssumptions DEF IInv, Types, TypeOK
<1>6. Types'
  <2>1. TypeOK'
    BY <1>1 DEF IInv, Types, TypeOK, Missed
  <2>2. job' \in [Threads -> AllJobs]
    BY <1>1, <1>5 DEF IInv, Types
  <2> QED BY <1>1, <1>3, <2>1, <2>2 DEF IInv, Types
<1>7. Written' = Written /\ Live' = Live /\ Missed' = Missed
  BY <1>1 DEF Written, Live, Missed
<1>8. job'[o] = j /\ \A u \in Owners \ {o} : job'[u] = job[u]
  BY <1>1, <1>3 DEF IInv, Types, Threads
<1>9. Locked'
  <2>1. \A u \in Owners : pc[u] \notin Holding
    BY <1>1, FreeTable
  <2>2. \A u \in Owners \ {o} : pc'[u] \notin Holding
    BY <1>3, <2>1
  <2>3. \A u \in Owners : pc'[u] \in Holding => tableLock' = u /\ job'[u] \in allowed
            /\ (job'[u] = "checkpoint" => barrier' = u)
    BY <1>1, <1>8, <2>2
  <2>4. barrier' # NoThread => \A t \in Txns : pc'[t] = "idle"
    BY <1>1, <1>3 DEF IInv, Locked
  <2>5. ASSUME NEW u \in Owners
        PROVE /\ pc'[u] = "compacting" => job'[u] \in {"compact", "checkpoint"}
              /\ pc'[u] \notin {"resetting", "manifesting"}
              /\ pc'[u] = "compacting" => job'[u] # "checkpoint"
              /\ pc'[u] \notin {"sealed", "committed"}
              /\ pc'[u] = "reaping" => (memtable \cup tier) \cap rotated = {}
    <3>1. CASE u = o
      BY <3>1, <1>3, <1>8
    <3>2. CASE u # o
      BY <3>2, <1>3, <2>2 DEF IInv, Locked, Holding
    <3> QED BY <3>1, <3>2
  <2> QED BY <1>1, <2>3, <2>4, <2>5 DEF Locked
<1>10. Placed'
  BY <1>1, <1>3, <1>4, <1>7 DEF IInv, Placed
<1>11. Down' /\ Quiet'
  BY <1>1 DEF IInv, Down, Quiet
<1>12. Known'
  <2>1. /\ durable \in Nat /\ visible \in Nat /\ manifest.current \in Nat
        /\ durable <= durable /\ visible <= visible
    BY DEF IInv, Types, TypeOK
  <2>2. \A u \in Owners : pc'[u] # "committed"
    BY <1>1, <1>3, FreeTable DEF Holding
  <2> QED BY <1>1, <1>3, <1>7, <2>1, <2>2, KnownStays
<1> QED BY <1>4, <1>6, <1>9, <1>10, <1>11, <1>12 DEF IInv

\* One owner holds the table.
LEMMA OneHolder ==
  ASSUME IInv, NEW o \in Owners, pc[o] \in Holding
  PROVE  /\ mode = "open" /\ tableLock = o
         /\ \A u \in Owners \ {o} : pc[u] \notin Holding
<1>1. o \in Threads /\ pc[o] # "idle"
  BY DEF Threads, Holding
<1> QED BY <1>1, BusyIsOpen DEF IInv, Locked

\* commit_shared seals a commit at an epoch past everything there is.
LEMMA SealKeeps ==
  ASSUME IInv, NEW o \in Owners, Seal(o)
  PROVE  IInv'
<1> DEFINE k == IF staged THEN "rows" ELSE "empty"
<1>1. /\ pc[o] = "locked"
      /\ assigned < MaxEpoch /\ assigned' = assigned + 1
      /\ wal' = wal \cup {Marker(assigned + 1, k)}
      /\ epoch' = [epoch EXCEPT ![o] = assigned + 1]
      /\ commitLock' = o
      /\ pc' = [pc EXCEPT ![o] = "sealed"]
      /\ UNCHANGED <<allowed, rotated, mode, visible, resolved, durable, manifest,
                     memtable, tier, runs, flushed, staged, tableLock,
                     barrier, job, acked, overtaken, dropped, faults>>
  BY DEF Seal, Goto, table, Watermark!Assign
<1>2. mode = "open" /\ tableLock = o /\ \A u \in Owners \ {o} : pc[u] \notin Holding
  BY <1>1, OneHolder DEF Holding
<1>3. "sealed" \in OwnerStages /\ k \in Kinds
  BY DEF OwnerStages, Kinds
<1>4. /\ o \in Threads /\ o \notin Txns /\ o # NoThread
      /\ pc'[o] = "sealed" /\ \A u \in Threads \ {o} : pc'[u] = pc[u]
      /\ \A u \in Owners \ {o} : pc'[u] = pc[u]
      /\ \A u \in Txns : pc'[u] = pc[u] /\ u # o /\ u \in Threads
      /\ pc' \in [Threads -> TxnStages \cup OwnerStages]
      /\ \A u \in Txns : pc'[u] \in TxnStages
      /\ \A u \in Owners : pc'[u] \in OwnerStages
  BY <1>1, <1>3, OwnerGoto
<1>5. epoch'[o] = assigned + 1 /\ \A u \in Threads \ {o} : epoch'[u] = epoch[u]
  BY <1>1, <1>4 DEF IInv, Types
<1>6. Written' = (IF staged THEN Written \cup {assigned + 1} ELSE Written)
  BY <1>1, <1>3, WrittenAppend
<1>7. /\ assigned \in Nat /\ visible \in Nat /\ visible <= assigned
      /\ resolved \subseteq 1..assigned /\ MaxEpoch \in Nat /\ flushed \in Nat
      /\ flushed <= assigned
  BY <1>2, RecoveryAssumptions DEF IInv, Types, TypeOK, Placed
<1>8. \A w \in wal : w.epoch \in Nat /\ w.epoch <= assigned
  BY DEF IInv, Types, TypeOK, Clock, Epochs
<1>9. Types'
  <2>1. Marker(assigned + 1, k) \in [epoch : Epochs, kind : Kinds]
    BY <1>1, <1>3, <1>7 DEF Marker, Epochs
  <2>2. /\ assigned' \in 0..MaxEpoch /\ visible' \in 0..assigned'
        /\ resolved' \subseteq 1..assigned'
    BY <1>1, <1>7
  <2>3. TypeOK'
    BY <1>1, <2>1, <2>2 DEF IInv, Types, TypeOK, Missed
  <2>4. assigned + 1 \in 0..MaxEpoch
    BY <1>1, <1>7
  <2>5. epoch' \in [Threads -> 0..MaxEpoch]
    BY <1>1, <2>4 DEF IInv, Types
  <2> QED BY <1>1, <1>4, <2>3, <2>5 DEF IInv, Types
<1>10. Clock'
  <2>1. /\ \A e \in 1..visible : e \in resolved
        /\ (visible + 1) \notin resolved /\ rotated \subseteq resolved
    BY DEF IInv, Clock
  <2>2. \A w \in wal' : w.epoch <= assigned + 1
    <3>1. Marker(assigned + 1, k).epoch = assigned + 1
      BY DEF Marker
    <3> QED BY <1>1, <1>7, <1>8, <3>1
  <2>3. \A u \in Threads : pc'[u] \in InFlight =>
         epoch'[u] \in 1..(assigned + 1) /\ epoch'[u] \notin resolved
    BY <1>4, <1>5, <1>7 DEF IInv, Clock
  <2>4. \A u \in Threads \ {o} : pc'[u] \in InFlight => epoch'[u] # assigned + 1
    BY <1>4, <1>5, <1>7 DEF IInv, Clock
  <2>5. \A u, v \in Threads :
         pc'[u] \in InFlight /\ pc'[v] \in InFlight /\ epoch'[u] = epoch'[v] => u = v
    BY <1>4, <1>5, <2>4 DEF IInv, Clock
  <2>6. \A e \in 1..(assigned + 1) : e \notin resolved =>
         \E u \in Threads : pc'[u] \in InFlight /\ epoch'[u] = e
    <3> SUFFICES ASSUME NEW e \in 1..(assigned + 1), e \notin resolved
                 PROVE  \E u \in Threads : pc'[u] \in InFlight /\ epoch'[u] = e
      OBVIOUS
    <3>1. CASE e = assigned + 1
      BY <3>1, <1>4, <1>5 DEF InFlight
    <3>2. CASE e # assigned + 1
      <4>1. e \in 1..assigned
        BY <3>2, <1>7
      <4>2. PICK u \in Threads : pc[u] \in InFlight /\ epoch[u] = e
        BY <4>1, <1>2 DEF IInv, Clock
      <4>3. u # o
        BY <4>2, <1>1 DEF InFlight
      <4> QED BY <4>2, <4>3, <1>4, <1>5
    <3> QED BY <3>1, <3>2
  <2> QED BY <1>1, <2>1, <2>2, <2>3, <2>5, <2>6 DEF Clock
<1>11. assigned + 1 \notin Written
  BY <1>7, <1>8, WrittenFacts
<1>12. Locked'
  <2>1. \A u \in Owners \ {o} : pc'[u] \notin Holding
    BY <1>2, <1>4
  <2>2. "locked" \in Holding /\ "sealed" \in Holding /\ "reaping" \notin Holding
    BY DEF Holding
  <2>3. \A u \in Owners : pc'[u] \in Holding => tableLock' = u /\ job'[u] \in allowed
            /\ (job'[u] = "checkpoint" => barrier' = u)
    BY <1>1, <1>2, <2>1, <2>2 DEF IInv, Locked
  <2>4. barrier' # NoThread => \A t \in Txns : pc'[t] = "idle"
    BY <1>1, <1>4 DEF IInv, Locked
  <2>5. /\ (epoch'[o] \in Written' <=> staged) /\ epoch'[o] > flushed
        /\ epoch'[o] = assigned'
    BY <1>1, <1>5, <1>6, <1>7, <1>11
  <2>6. \A u \in Owners \ {o} : pc'[u] = "reaping" => (memtable \cup tier) \cap rotated = {}
    BY <1>4 DEF IInv, Locked
  <2> QED BY <1>1, <1>4, <2>1, <2>3, <2>4, <2>5, <2>6 DEF Locked, Holding
<1>13. Placed'
  <2>1. \A e \in Written' \ Missed :
             e \in Live \/ \E u \in Threads : pc'[u] \in Unapplied /\ epoch'[u] = e
    <3> SUFFICES ASSUME NEW e \in Written' \ Missed, e \notin Live
                 PROVE  \E u \in Threads : pc'[u] \in Unapplied /\ epoch'[u] = e
      OBVIOUS
    <3>1. CASE e = assigned + 1
      BY <3>1, <1>4, <1>5 DEF Unapplied
    <3>2. CASE e # assigned + 1
      <4>1. PICK u \in Threads : pc[u] \in Unapplied /\ epoch[u] = e
        BY <1>2, <1>6, <3>2 DEF IInv, Placed
      <4>2. u # o
        BY <4>1, <1>1 DEF Unapplied
      <4> QED BY <4>1, <4>2, <1>4, <1>5
    <3> QED BY <3>1, <3>2
  <2>2. Live' = Live /\ Missed' = Missed /\ flushed <= assigned'
    BY <1>1, <1>7 DEF Live, Missed
  <2>3. Written \subseteq Written'
    BY <1>6
  <2>4. \A u \in Txns : epoch'[u] = epoch[u] /\ pc'[u] = pc[u]
    BY <1>4, <1>5
  <2> QED BY <1>1, <1>2, <2>1, <2>2, <2>3, <2>4 DEF IInv, Placed
<1>14. Down' /\ Quiet'
  <2>1. Quiet'
    BY <1>1, <1>7 DEF IInv, Quiet, Types, TypeOK, Epochs
  <2> QED BY <1>1, <1>2, <2>1 DEF Down
<1>15. Known'
  <2>1. /\ durable \in Nat /\ visible \in Nat /\ manifest.current \in Nat
        /\ durable <= durable /\ visible <= visible
    BY DEF IInv, Types, TypeOK
  <2>2. \A u \in Owners : pc'[u] # "committed"
    BY <1>2, <1>4 DEF Holding
  <2>3. \A u \in Txns : pc'[u] = pc[u] /\ epoch'[u] = epoch[u]
    BY <1>4, <1>5
  <2>4. Written \subseteq Written'
    BY <1>6
  <2> QED BY <1>1, <1>2, <2>1, <2>2, <2>3, <2>4, KnownStays
<1> QED BY <1>9, <1>10, <1>12, <1>13, <1>14, <1>15 DEF IInv

\* The sealed commit is durable: it is applied, recorded and published.
LEMMA CommitSharedKeeps ==
  ASSUME IInv, NEW o \in Owners, CommitShared(o)
  PROVE  IInv'
<1>1. /\ pc[o] = "sealed" /\ durable >= epoch[o]
      /\ memtable' = IF staged THEN memtable \cup {epoch[o]} ELSE memtable
      /\ staged' = FALSE
      /\ manifest' = [current |-> epoch[o], flushed |-> flushed, runs |-> runs]
      /\ PublishInOrder(epoch[o])
      /\ commitLock' = NoThread
      /\ pc' = [pc EXCEPT ![o] = "committed"]
      /\ UNCHANGED <<allowed, rotated, mode, wal, durable, tier, runs, flushed,
                     tableLock, barrier, job, epoch, acked, overtaken, faults>>
      /\ dropped' = dropped \ RowsOf(runs)
  BY DEF CommitShared, Goto, Manifest
<1>2. mode = "open" /\ tableLock = o /\ \A u \in Owners \ {o} : pc[u] \notin Holding
  BY <1>1, OneHolder DEF Holding
<1>3. "committed" \in OwnerStages /\ "committed" \notin InFlight /\ "sealed" \in InFlight
  BY DEF OwnerStages, InFlight
<1>4. /\ o \in Threads /\ o \notin Txns /\ o # NoThread
      /\ pc'[o] = "committed" /\ \A u \in Threads \ {o} : pc'[u] = pc[u]
      /\ \A u \in Owners \ {o} : pc'[u] = pc[u]
      /\ \A u \in Txns : pc'[u] = pc[u] /\ u # o /\ u \in Threads
      /\ pc' \in [Threads -> TxnStages \cup OwnerStages]
      /\ \A u \in Txns : pc'[u] \in TxnStages
      /\ \A u \in Owners : pc'[u] \in OwnerStages
  BY <1>1, <1>3, OwnerGoto
<1>5. /\ epoch[o] \in 1..assigned /\ epoch[o] \notin resolved /\ epoch[o] \in Epochs
      /\ epoch[o] \in 0..MaxEpoch
      /\ visible \in Nat /\ assigned \in Nat /\ flushed \in 0..MaxEpoch
      /\ runs \subseteq RunSet
  BY <1>1, <1>3, <1>4 DEF IInv, Clock, Types, TypeOK, Epochs
<1>6. /\ assigned' = assigned /\ resolved' = resolved \cup {epoch[o]}
      /\ visible' \in Nat /\ visible <= visible' /\ visible' <= assigned
      /\ resolved' \subseteq 1..assigned
  BY <1>1, <1>5, PublishFacts DEF IInv, Types
<1>7. Clock'
  BY <1>1, <1>2, <1>3, <1>4, ClockPublish
<1>8. manifest'.current = epoch[o] /\ manifest'.flushed = flushed /\ manifest'.runs = runs
      /\ manifest' \in Manifests
  BY <1>1, <1>5 DEF Manifests
<1>9. Types'
  <2>1. memtable' \subseteq Epochs
    BY <1>1, <1>5 DEF IInv, Types, TypeOK
  <2>2. staged' \in BOOLEAN
    BY <1>1
  <2>3. visible' \in 0..assigned'
    BY <1>6
  <2>4. TypeOK'
    BY <1>1, <1>5, <1>6, <1>8, <2>1, <2>2, <2>3 DEF IInv, Types, TypeOK, Missed
  <2> QED BY <1>1, <1>4, <1>8, <2>4 DEF IInv, Types
<1>10. /\ Written' = Written /\ Live \subseteq Live'
       /\ staged => epoch[o] \in Live'
       /\ RowsOf(runs) \subseteq Live /\ Missed \subseteq Missed' \cup RowsOf(runs)
  BY <1>1 DEF Written, Live, Missed
<1>11. (epoch[o] \in Written <=> staged) /\ epoch[o] > flushed
  BY <1>1 DEF IInv, Locked
<1>12. Locked'
  <2>1. \A u \in Owners \ {o} : pc'[u] \notin Holding
    BY <1>2, <1>4
  <2>2. "committed" \in Holding /\ "sealed" \in Holding
    BY DEF Holding
  <2>3. \A u \in Owners : pc'[u] \in Holding => tableLock' = u /\ job'[u] \in allowed
            /\ (job'[u] = "checkpoint" => barrier' = u)
    BY <1>1, <1>2, <2>1, <2>2 DEF IInv, Locked
  <2>4. barrier' # NoThread => \A t \in Txns : pc'[t] = "idle"
    BY <1>1, <1>4 DEF IInv, Locked
  <2>5. epoch[o] \notin rotated
    BY <1>5 DEF IInv, Clock
  <2>6. \A u \in Owners \ {o} : pc'[u] = "reaping" => (memtable' \cup tier) \cap rotated = {}
    BY <1>1, <1>4, <2>5 DEF IInv, Locked
  <2>7. job[o] = "checkpoint" => epoch[o] = assigned
    BY <1>1 DEF IInv, Locked
  <2> QED BY <1>1, <1>4, <1>6, <1>11, <2>1, <2>3, <2>4, <2>6, <2>7 DEF Locked, Holding
<1>13. Placed'
  <2>1. \A e \in Written \ Missed' :
             e \in Live' \/ \E u \in Threads : pc'[u] \in Unapplied /\ epoch[u] = e
    <3> SUFFICES ASSUME NEW e \in Written \ Missed', e \notin Live'
                 PROVE  \E u \in Threads : pc'[u] \in Unapplied /\ epoch[u] = e
      OBVIOUS
    <3>1. PICK u \in Threads : pc[u] \in Unapplied /\ epoch[u] = e
      BY <1>2, <1>10 DEF IInv, Placed
    <3>2. u # o
      BY <1>10, <1>11, <3>1
    <3> QED BY <3>1, <3>2, <1>4
  <2>2. \A e \in (memtable' \cup tier) \ Missed' :
             e \in RowsOf(runs) \/ (e \in Written /\ e <= durable /\ e > flushed)
    <3>1. epoch[o] <= durable
      BY <1>1, <1>5 DEF IInv, Types, TypeOK
    <3> QED BY <1>1, <1>2, <1>10, <1>11, <3>1 DEF IInv, Placed
  <2>3. acked \ Missed' \subseteq Live'
    BY <1>2, <1>10 DEF IInv, Placed
  <2>4. \A t \in Txns :
             /\ pc[t] # "idle" => epoch[t] \in Written
             /\ pc[t] = "appended" /\ epoch[t] \notin Missed' =>
                  epoch[t] > flushed \/ epoch[t] \in RowsOf(runs)
    BY <1>2, <1>10 DEF IInv, Placed
  <2>5. flushed <= flushed /\ flushed <= assigned
    BY <1>2, <1>5 DEF IInv, Placed
  <2> QED BY <1>1, <1>4, <1>6, <1>8, <1>10, <2>1, <2>2, <2>3, <2>4, <2>5 DEF Placed
<1>14. epoch[o] > visible
  BY <1>5 DEF IInv, Clock
<1>15. Quiet'
  <2> SUFFICES ASSUME "flush" \notin allowed PROVE Quiet'
    BY <1>1 DEF Quiet
  <2>1. /\ flushed <= visible /\ \A r \in runs : r.created <= visible
        /\ \A e \in tier : e <= visible
        /\ \A e \in memtable' : e <= assigned
    BY <1>1, <1>2, <1>5 DEF IInv, Quiet
  <2>2. /\ flushed \in Nat /\ (\A r \in runs : r.created \in Nat) /\ tier \subseteq Nat
    BY DEF IInv, Types, TypeOK, RunSet, Epochs
  <2>3. /\ flushed <= visible' /\ \A r \in runs : r.created <= visible'
        /\ \A e \in tier : e <= visible'
    BY <1>5, <1>6, <2>1, <2>2
  <2>4. flushed <= epoch[o] /\ \A r \in runs : r.created <= epoch[o]
    BY <1>5, <1>14, <2>1, <2>2
  <2>5. Accepted(manifest)'
    BY <1>8, <2>4 DEF Accepted
  <2>6. \A r \in manifest'.runs : \A e \in r.rows : e <= r.created
    BY <1>2, <1>8 DEF IInv, Quiet
  <2> QED BY <1>1, <1>6, <2>1, <2>3, <2>5, <2>6 DEF IInv, Quiet
<1>16. Down'
  BY <1>1, <1>2 DEF Down
<1>17. Known'
  <2> SUFFICES ASSUME "flush" \notin allowed PROVE Known'
    BY <1>1 DEF Known
  <2>1. /\ visible \in Nat /\ acked \subseteq Nat /\ manifest.current \in Nat
        /\ manifest'.current \in Nat /\ visible <= manifest'.current
    BY <1>5, <1>8, <1>14 DEF IInv, Types, TypeOK, Epochs
  <2>2. \A e \in Nat : Reached(e) => Reached(e)'
    BY <1>1, <1>6, <1>10, <2>1 DEF Reached
  <2>3. \A e \in acked' : Reached(e)'
    BY <1>1, <1>2, <2>1, <2>2 DEF IInv, Known
  <2>4. \A u \in Txns : pc'[u] \in {"applied", "persisted"} =>
               epoch'[u] \in memtable' /\ epoch'[u] <= durable'
    BY <1>1, <1>2, <1>4 DEF IInv, Known
  <2>5. epoch[o] \in Nat /\ durable \in Nat /\ (epoch'[o] \in Written' => Reached(epoch[o])')
    BY <1>1, <1>5, <1>10, <1>11 DEF IInv, Types, TypeOK, Reached
  <2>6. job[o] = "checkpoint" => manifest'.current = assigned'
    BY <1>1, <1>6, <1>8 DEF IInv, Locked
  <2>7. \A u \in Owners : pc'[u] = "committed" =>
                  /\ epoch'[u] \in Written' => Reached(epoch[u])'
                  /\ job'[u] = "checkpoint" => manifest'.current = assigned'
    BY <1>1, <1>2, <1>4, <2>5, <2>6 DEF Holding
  <2> QED BY <1>1, <1>2, <2>3, <2>4, <2>7 DEF Known
<1> QED BY <1>7, <1>9, <1>12, <1>13, <1>15, <1>16, <1>17 DEF IInv

\* A call returns: nobody holds the table any more.
LEMMA FinishFrees ==
  ASSUME IInv, NEW o \in Owners, pc[o] \in Holding, Finish(o)
  PROVE  \A u \in Owners : pc'[u] \notin Holding
<1>1. pc' = [pc EXCEPT ![o] = "idle"] /\ "idle" \in OwnerStages /\ "idle" \notin Holding
  BY DEF Finish, Goto, OwnerStages, Holding
<1>2. pc'[o] = "idle" /\ \A u \in Owners \ {o} : pc'[u] = pc[u]
  BY <1>1, OwnerGoto
<1> QED BY <1>1, <1>2, OneHolder

\* A call returns: its owner leaves the table.
LEMMA FinishLocked ==
  ASSUME IInv, NEW o \in Owners, pc[o] \in Holding, Finish(o),
         UNCHANGED <<allowed, mode, job, epoch, rotated>>,
         memtable' \cup tier' \subseteq memtable \cup tier
  PROVE  Locked'
<1>1. /\ tableLock' = NoThread /\ pc' = [pc EXCEPT ![o] = "idle"]
      /\ barrier' = IF barrier = o THEN NoThread ELSE barrier
  BY DEF Finish, Goto
<1>2. \A u \in Owners \ {o} : pc[u] \notin Holding
  BY OneHolder
<1>3. "idle" \in OwnerStages
  BY DEF OwnerStages
<1>4. /\ pc'[o] = "idle"
      /\ \A u \in Owners \ {o} : pc'[u] = pc[u]
      /\ \A u \in Txns : pc'[u] = pc[u]
  BY <1>1, <1>3, OwnerGoto
<1>5. \A u \in Owners : pc'[u] \notin Holding
  BY <1>2, <1>4 DEF Holding
<1>6. barrier' # NoThread => \A t \in Txns : pc'[t] = "idle"
  BY <1>1, <1>4 DEF IInv, Locked
<1>7. \A u \in Owners : pc'[u] = "reaping" => (memtable' \cup tier') \cap rotated' = {}
  BY <1>4 DEF IInv, Locked
<1> QED BY <1>5, <1>6, <1>7 DEF Locked, Holding

\* The epoch of a commit that an owner made: it is published, and its rows, if
\* it had any, are in the table.
LEMMA CommittedFacts ==
  ASSUME IInv, NEW o \in Owners, pc[o] = "committed"
  PROVE  /\ epoch[o] \in resolved /\ epoch[o] \in 1..assigned
         /\ epoch[o] \in Epochs /\ epoch[o] \in 0..MaxEpoch
         /\ epoch[o] \in Written => epoch[o] \in Live \cup Missed
<1>1. mode = "open" /\ o \in Threads
  BY BusyIsOpen DEF Threads
<1>2. epoch[o] \in resolved
  BY DEF IInv, Locked
<1>3. epoch[o] \in 1..assigned /\ epoch[o] \in Epochs /\ epoch[o] \in 0..MaxEpoch
  <2>1. resolved \subseteq 1..assigned /\ assigned \in 0..MaxEpoch /\ MaxEpoch \in Nat
    BY RecoveryAssumptions DEF IInv, Types, TypeOK
  <2>2. PICK e : e = epoch[o] /\ e \in 1..assigned
    BY <1>2, <2>1
  <2>3. e \in 1..MaxEpoch /\ e \in 0..MaxEpoch
    BY <2>1, <2>2
  <2> QED BY <2>2, <2>3 DEF Epochs
<1>4. ~\E u \in Threads : pc[u] \in Unapplied /\ epoch[u] = epoch[o]
  BY <1>2 DEF IInv, Clock, Unapplied, InFlight
<1> QED BY <1>1, <1>2, <1>3, <1>4 DEF IInv, Placed

\* The clock and the stages of the others when a call returns.
LEMMA FinishClock ==
  ASSUME IInv, NEW o \in Owners, pc[o] \notin InFlight, Finish(o),
         UNCHANGED <<mode, assigned, visible, resolved, wal, rotated, epoch>>
  PROVE  /\ Clock' /\ \A u \in Threads : pc'[u] \in Unapplied <=> pc[u] \in Unapplied
         /\ \A u \in Txns : pc'[u] = pc[u]
         /\ pc' \in [Threads -> TxnStages \cup OwnerStages]
         /\ \A u \in Txns : pc'[u] \in TxnStages
         /\ \A u \in Owners : pc'[u] \in OwnerStages
         /\ {tableLock', barrier'} \subseteq Owners \cup {NoThread}
<1>1. "idle" \in OwnerStages /\ "idle" \notin InFlight /\ pc' = [pc EXCEPT ![o] = "idle"]
  BY DEF OwnerStages, InFlight, Finish, Goto
<1>2. Clock' /\ \A u \in Threads : pc'[u] \in Unapplied <=> pc[u] \in Unapplied
  BY <1>1, OwnerClock
<1>3. {tableLock', barrier'} \subseteq Owners \cup {NoThread}
  BY DEF Finish, IInv, Types, TypeOK
<1> QED BY <1>1, <1>2, <1>3, OwnerGoto

\* Table::commit returns.
LEMMA ReturnCommitKeeps ==
  ASSUME IInv, NEW o \in Owners, ReturnCommit(o)
  PROVE  IInv'
<1>1. /\ pc[o] = "committed" /\ Finish(o)
      /\ acked' = acked \cup ({epoch[o]} \cap Written)
      /\ UNCHANGED <<allowed, mode, assigned, visible, resolved, wal, durable, rotated,
                     manifest, memtable, tier, runs, flushed, staged, commitLock, job,
                     epoch, overtaken, dropped, faults>>
  BY DEF ReturnCommit, Acknowledge, authority, disk, table
<1>2. /\ mode = "open" /\ pc[o] \in Holding /\ pc[o] \notin InFlight
  BY <1>1, OneHolder DEF Holding, InFlight
<1>3. Locked'
  BY <1>1, <1>2, FinishLocked
<1>4. /\ Clock' /\ \A u \in Threads : pc'[u] \in Unapplied <=> pc[u] \in Unapplied
      /\ \A u \in Txns : pc'[u] = pc[u]
      /\ pc' \in [Threads -> TxnStages \cup OwnerStages]
      /\ \A u \in Txns : pc'[u] \in TxnStages
      /\ \A u \in Owners : pc'[u] \in OwnerStages
      /\ {tableLock', barrier'} \subseteq Owners \cup {NoThread}
  BY <1>1, <1>2, FinishClock
<1>5. /\ epoch[o] \in 1..assigned /\ epoch[o] \in Epochs
      /\ epoch[o] \in Written => epoch[o] \in Live \cup Missed
  BY <1>1, CommittedFacts
<1>6. Types'
  <2>1. TypeOK'
    BY <1>1, <1>4, <1>5 DEF IInv, Types, TypeOK, Missed
  <2> QED BY <1>1, <1>4, <2>1 DEF IInv, Types
<1>7. Written' = Written /\ Live' = Live /\ Missed' = Missed
  BY <1>1 DEF Written, Live, Missed
<1>8. Placed'
  BY <1>1, <1>2, <1>4, <1>5, <1>7 DEF IInv, Placed
<1>9. Down' /\ Quiet'
  BY <1>1, <1>2 DEF IInv, Down, Quiet
<1>10. Known'
  <2> SUFFICES ASSUME "flush" \notin allowed PROVE Known'
    BY <1>1 DEF Known
  <2>1. \A e : Reached(e) => Reached(e)'
    BY <1>1, <1>7 DEF Reached
  <2>2. \A e \in acked' : Reached(e)
    BY <1>1, <1>2 DEF IInv, Known
  <2>3. \A u \in Owners : pc'[u] # "committed"
    BY <1>1, <1>2, FinishFrees DEF Holding
  <2> QED BY <1>1, <1>2, <1>4, <2>1, <2>2, <2>3 DEF IInv, Known
<1> QED BY <1>3, <1>4, <1>6, <1>8, <1>9, <1>10 DEF IInv

\* A flush that does not spill moves the rows to the other tier.
LEMMA FlushDrainKeeps ==
  ASSUME IInv, NEW o \in Owners, FlushDrain(o)
  PROVE  IInv'
<1>1. /\ pc[o] = "committed" /\ job[o] = "flush" /\ Finish(o)
      /\ acked' = acked \cup ({epoch[o]} \cap Written)
      /\ tier' = tier \cup memtable /\ memtable' = {}
      /\ UNCHANGED <<allowed, mode, assigned, visible, resolved, wal, durable, rotated,
                     manifest, runs, flushed, staged, commitLock, job,
                     epoch, overtaken, dropped, faults>>
  BY DEF FlushDrain, Acknowledge, authority, disk
<1>2. /\ mode = "open" /\ pc[o] \in Holding /\ pc[o] \notin InFlight
  BY <1>1, OneHolder DEF Holding, InFlight
<1>3. Locked'
  BY <1>1, <1>2, FinishLocked
<1>4. /\ Clock' /\ \A u \in Threads : pc'[u] \in Unapplied <=> pc[u] \in Unapplied
      /\ \A u \in Txns : pc'[u] = pc[u]
      /\ pc' \in [Threads -> TxnStages \cup OwnerStages]
      /\ \A u \in Txns : pc'[u] \in TxnStages
      /\ \A u \in Owners : pc'[u] \in OwnerStages
      /\ {tableLock', barrier'} \subseteq Owners \cup {NoThread}
  BY <1>1, <1>2, FinishClock
<1>5. /\ epoch[o] \in 1..assigned /\ epoch[o] \in Epochs
      /\ epoch[o] \in Written => epoch[o] \in Live \cup Missed
  BY <1>1, CommittedFacts
<1>6. Types'
  <2>1. TypeOK'
    BY <1>1, <1>4, <1>5 DEF IInv, Types, TypeOK, Missed
  <2> QED BY <1>1, <1>4, <2>1 DEF IInv, Types
<1>7. Written' = Written /\ Live' = Live /\ Missed' = Missed
  BY <1>1 DEF Written, Live, Missed
<1>8. Placed'
  <2>1. memtable' \cup tier' = memtable \cup tier
    BY <1>1
  <2> QED BY <1>1, <1>2, <1>4, <1>5, <1>7, <2>1 DEF IInv, Placed
<1>9. "flush" \in allowed
  BY <1>1, <1>2 DEF IInv, Locked
<1>10. Down' /\ Quiet' /\ Known'
  BY <1>1, <1>2, <1>9 DEF Down, Quiet, Known
<1> QED BY <1>3, <1>4, <1>6, <1>8, <1>10 DEF IInv

\* Under a checkpoint's barrier nothing is in flight: every epoch is visible and
\* every commit is in the table.
LEMMA BehindBarrier ==
  ASSUME IInv, NEW o \in Owners, pc[o] \in Holding, pc[o] # "sealed",
         job[o] = "checkpoint"
  PROVE  /\ \A u \in Threads : pc[u] \notin InFlight
         /\ \A e \in 1..assigned : e \in resolved
         /\ visible = assigned
         /\ Written \ Missed \subseteq Live
<1>1. mode = "open" /\ \A u \in Owners \ {o} : pc[u] \notin Holding
  BY OneHolder
<1>2. barrier = o /\ o # NoThread
  BY RecoveryAssumptions DEF IInv, Locked
<1>3. \A t \in Txns : pc[t] = "idle"
  BY <1>2 DEF IInv, Locked
<1>4. \A u \in Owners : pc[u] \notin InFlight
  BY <1>1 DEF IInv, Types, Holding, OwnerStages, InFlight
<1>5. \A u \in Threads : pc[u] \notin InFlight
  BY <1>3, <1>4 DEF Threads, InFlight
<1>6. \A e \in 1..assigned : e \in resolved
  BY <1>1, <1>5 DEF IInv, Clock
<1>7. visible = assigned
  <2>1. visible \in Nat /\ assigned \in Nat /\ visible <= assigned
    BY DEF IInv, Types, TypeOK
  <2>2. ~(visible < assigned)
    BY <1>6, <2>1 DEF IInv, Clock
  <2> QED BY <2>1, <2>2
<1>8. Written \ Missed \subseteq Live
  BY <1>1, <1>5 DEF IInv, Placed, Unapplied, InFlight
<1> QED BY <1>5, <1>6, <1>7, <1>8

\* What a flush has before it spills.
LEMMA FlushFacts ==
  ASSUME IInv, NEW o \in Owners, pc[o] = "committed", job[o] \in {"flush", "checkpoint"}
  PROVE  /\ mode = "open" /\ tableLock = o /\ pc[o] \in Holding /\ pc[o] \notin InFlight
         /\ \A u \in Owners \ {o} : pc[u] \notin Holding
         /\ epoch[o] \in 1..assigned /\ epoch[o] \in Epochs /\ epoch[o] \in resolved
         /\ epoch[o] \in 0..MaxEpoch /\ epoch[o] > flushed /\ assigned \in Nat
         /\ visible \in Nat /\ visible <= assigned
         /\ epoch[o] \in Written => epoch[o] \in Live \cup Missed
         /\ "flush" \notin allowed =>
              /\ job[o] = "checkpoint" /\ visible = assigned /\ epoch[o] = assigned
              /\ manifest.current = assigned /\ \A t \in Txns : pc[t] = "idle"
              /\ Written \ Missed \subseteq Live
<1>1. /\ mode = "open" /\ tableLock = o /\ pc[o] \in Holding /\ pc[o] \notin InFlight
      /\ \A u \in Owners \ {o} : pc[u] \notin Holding
  BY OneHolder DEF Holding, InFlight
<1>2. /\ epoch[o] \in 1..assigned /\ epoch[o] \in Epochs /\ epoch[o] \in resolved
      /\ epoch[o] \in 0..MaxEpoch
      /\ epoch[o] \in Written => epoch[o] \in Live \cup Missed
  BY CommittedFacts
<1>3. epoch[o] > flushed /\ assigned \in Nat /\ visible \in Nat /\ visible <= assigned
  BY DEF IInv, Locked, Types, TypeOK
<1>4. ASSUME "flush" \notin allowed
      PROVE  /\ job[o] = "checkpoint" /\ visible = assigned /\ epoch[o] = assigned
             /\ manifest.current = assigned /\ \A t \in Txns : pc[t] = "idle"
             /\ Written \ Missed \subseteq Live
  <2>1. job[o] = "checkpoint"
    BY <1>1, <1>4 DEF IInv, Locked
  <2>2. visible = assigned /\ Written \ Missed \subseteq Live
    BY <1>1, <2>1, BehindBarrier
  <2>3. epoch[o] = assigned /\ manifest.current = assigned
    BY <1>1, <1>4, <2>1 DEF IInv, Locked, Known
  <2>4. barrier = o /\ o # NoThread
    BY <1>1, <2>1, RecoveryAssumptions DEF IInv, Locked
  <2>5. \A t \in Txns : pc[t] = "idle"
    BY <2>4 DEF IInv, Locked
  <2> QED BY <2>1, <2>2, <2>3, <2>5
<1> QED BY <1>1, <1>2, <1>3, <1>4

\* The run that a flush writes has everything the memory had.
LEMMA SpilledRun ==
  ASSUME IInv, NEW o \in Owners, pc[o] = "committed", job[o] \in {"flush", "checkpoint"},
         runs' = runs \cup {Run(epoch[o], tier \cup memtable)}
  PROVE  /\ RowsOf(runs') = Live /\ runs' \subseteq RunSet
         /\ "flush" \notin allowed =>
              \A r \in runs' : r.created <= visible /\ \A e \in r.rows : e <= r.created
<1>1. RowsOf(runs') = RowsOf(runs) \cup (tier \cup memtable)
  <2>1. PICK c, s, rs : c = epoch[o] /\ s = tier \cup memtable /\ rs = runs'
    OBVIOUS
  <2>2. rs = runs \cup {Run(c, s)}
    BY <2>1
  <2>3. RowsOf(rs) = RowsOf(runs) \cup s
    BY <2>2, RowsOfMore
  <2> QED BY <2>1, <2>3
<1>2. tier \cup memtable \subseteq Epochs /\ runs \subseteq RunSet
  BY DEF IInv, Types, TypeOK
<1>3. Run(epoch[o], tier \cup memtable) \in RunSet
  BY <1>2, FlushFacts DEF Run, RunSet
<1>4. ASSUME "flush" \notin allowed
      PROVE  \A r \in runs' : r.created <= visible /\ \A e \in r.rows : e <= r.created
  <2>1. mode = "open" /\ visible = assigned /\ epoch[o] = assigned /\ assigned \in Nat
    BY <1>4, FlushFacts
  <2>2. /\ \A r \in runs : r.created <= visible /\ \A e \in r.rows : e <= r.created
        /\ \A e \in tier \cup memtable : e <= assigned
    BY <1>4, <2>1 DEF IInv, Quiet
  <2>3. /\ Run(epoch[o], tier \cup memtable).created = epoch[o]
        /\ Run(epoch[o], tier \cup memtable).rows = tier \cup memtable
    BY DEF Run
  <2>4. assigned <= assigned
    BY <2>1
  <2> QED BY <2>1, <2>2, <2>3, <2>4
<1> QED BY <1>1, <1>2, <1>3, <1>4 DEF Live

\* Where the rows are after a flush, whether or not it came to its end: the gate
\* passes only commits that are in a run, that are remembered as missed, or that
\* are later than the flush.
LEMMA SpillPlaced ==
  ASSUME IInv, NEW o \in Owners, pc[o] = "committed", job[o] \in {"flush", "checkpoint"},
         UNCHANGED <<mode, assigned, resolved, wal, durable, epoch>>,
         \A u \in Threads : pc'[u] \in Unapplied <=> pc[u] \in Unapplied,
         \A u \in Txns : pc'[u] = pc[u],
         acked' \subseteq acked \cup ({epoch[o]} \cap Written),
         Live \subseteq Live' \cup Missed', RowsOf(runs) \subseteq RowsOf(runs'),
         Missed \subseteq Missed' \cup RowsOf(runs'),
         RowsOf(manifest'.runs) \subseteq RowsOf(runs'),
         RowsOf(runs') \ dropped' \subseteq RowsOf(manifest'.runs),
         \/ flushed' = flushed
         \/ /\ flushed' = epoch[o]
            /\ \A e \in Written : e < epoch[o] => e \in Missed' \cup RowsOf(runs'),
         manifest'.flushed <= flushed',
         memtable' = {},
         tier' = {} \/ (tier' = tier \cup memtable /\ flushed' = flushed)
  PROVE  Placed'
<1>1. /\ mode = "open" /\ epoch[o] \in 1..assigned /\ epoch[o] \in resolved
      /\ epoch[o] \in Written => epoch[o] \in Live \cup Missed
  BY FlushFacts
<1>2. Written' = Written /\ RowsOf(runs') \subseteq Live'
  BY DEF Written, Live
<1>3. flushed' <= assigned
  BY <1>1 DEF IInv, Placed
<1>4. acked' \ Missed' \subseteq Live'
  BY <1>1, <1>2 DEF IInv, Placed
<1>5. \A e \in Written \ Missed' :
          e \in Live' \/ \E t \in Threads : pc'[t] \in Unapplied /\ epoch[t] = e
  BY <1>1, <1>2 DEF IInv, Placed
<1>6. \A e \in (memtable' \cup tier') \ Missed' :
          e \in RowsOf(runs') \/ (e \in Written /\ e <= durable /\ e > flushed')
  BY <1>1 DEF IInv, Placed
<1>7. ASSUME NEW t \in Txns, pc[t] = "appended", epoch[t] \notin Missed',
             epoch[t] \notin RowsOf(runs')
      PROVE  epoch[t] > flushed'
  <2>1. t \in Threads /\ pc[t] \in InFlight
    BY <1>7 DEF Threads, InFlight
  <2>2. epoch[t] \in Written /\ epoch[t] \notin resolved /\ epoch[t] \in 1..assigned
    BY <1>1, <1>7, <2>1 DEF IInv, Clock, Placed
  <2>3. CASE flushed' = flushed
    BY <1>1, <1>7, <2>3 DEF IInv, Placed
  <2>4. CASE flushed' # flushed
    <3>1. flushed' = epoch[o] /\ ~(epoch[t] < epoch[o])
      BY <1>7, <2>2, <2>4
    <3>2. epoch[t] # epoch[o]
      BY <1>1, <2>2
    <3>3. epoch[t] \in Int /\ epoch[o] \in Int
      BY <1>1, <2>2
    <3> QED BY <3>1, <3>2, <3>3
  <2> QED BY <2>3, <2>4
<1>8. \A t \in Txns :
             /\ pc'[t] # "idle" => epoch'[t] \in Written'
             /\ pc'[t] = "appended" /\ epoch'[t] \notin Missed' =>
                  epoch'[t] > flushed' \/ epoch'[t] \in RowsOf(runs')
  BY <1>1, <1>2, <1>7 DEF IInv, Placed
<1> QED BY <1>1, <1>2, <1>3, <1>4, <1>5, <1>6, <1>8 DEF Placed

\* In a quiet table only a checkpoint flushes, and it has everything visible.
LEMMA SpillKnown ==
  ASSUME IInv, NEW o \in Owners, pc[o] = "committed", job[o] \in {"flush", "checkpoint"},
         UNCHANGED <<allowed, mode, assigned, visible>>,
         \A u \in Txns : pc'[u] = pc[u], \A u \in Owners : pc'[u] # "committed",
         acked' \subseteq acked \cup {epoch[o]},
         manifest'.current \in {manifest.current, epoch[o]}
  PROVE  Known'
<1> SUFFICES ASSUME "flush" \notin allowed PROVE Known'
  BY DEF Known
<1>1. /\ mode = "open" /\ visible = assigned /\ epoch[o] = assigned
      /\ manifest.current = assigned /\ \A t \in Txns : pc[t] = "idle"
      /\ assigned \in Nat
  BY FlushFacts
<1>2. \A e \in Written : e <= assigned
  BY WrittenFacts DEF IInv, Clock
<1>3. \A e \in acked' : e <= assigned
  BY <1>1, <1>2 DEF IInv, Known, Reached
<1>4. \A e \in acked' : Reached(e)'
  BY <1>1, <1>3 DEF Reached
<1> QED BY <1>1, <1>4 DEF Known

\* A flush that spills.
LEMMA FlushSpillKeeps ==
  ASSUME IInv, NEW o \in Owners, FlushSpill(o)
  PROVE  IInv'
<1>1. /\ pc[o] = "committed" /\ job[o] \in {"flush", "checkpoint"}
      /\ runs' = runs \cup {Run(epoch[o], tier \cup memtable)}
      /\ overtaken' = (overtaken \cup {e \in Written : e < epoch[o] /\ e \notin Live \cup dropped})
                       \ RowsOf(runs')
      /\ dropped' = dropped \ RowsOf(runs')
      /\ tier' = {} /\ memtable' = {}
      /\ flushed' = epoch[o]
      /\ manifest' = [current |-> epoch[o], flushed |-> flushed', runs |-> runs']
      /\ acked' = acked \cup ({epoch[o]} \cap Written)
      /\ UNCHANGED <<allowed, rotated, mode, assigned, visible, resolved, wal, durable,
                     staged, commitLock, job, epoch, faults>>
  BY DEF FlushSpill, Overtaken, Acknowledge, Manifest, authority
<1>2. /\ job[o] = "flush" => Finish(o)
      /\ job[o] = "checkpoint" =>
           pc' = [pc EXCEPT ![o] = "compacting"] /\ UNCHANGED <<tableLock, barrier>>
  BY DEF FlushSpill, Goto
<1>3. /\ mode = "open" /\ pc[o] \in Holding /\ pc[o] \notin InFlight /\ tableLock = o
      /\ \A u \in Owners \ {o} : pc[u] \notin Holding
      /\ epoch[o] \in 1..assigned /\ epoch[o] \in Epochs /\ epoch[o] \in 0..MaxEpoch
  BY <1>1, FlushFacts
<1>4. /\ Clock' /\ \A u \in Threads : pc'[u] \in Unapplied <=> pc[u] \in Unapplied
      /\ \A u \in Txns : pc'[u] = pc[u]
      /\ pc' \in [Threads -> TxnStages \cup OwnerStages]
      /\ \A u \in Txns : pc'[u] \in TxnStages
      /\ \A u \in Owners : pc'[u] \in OwnerStages /\ pc'[u] # "committed"
      /\ {tableLock', barrier'} \subseteq Owners \cup {NoThread}
  <2>1. CASE job[o] = "flush"
    BY <1>1, <1>2, <1>3, <2>1, FinishClock, FinishFrees DEF Holding
  <2>2. CASE job[o] = "checkpoint"
    <3>1. "compacting" \in OwnerStages /\ "compacting" \notin InFlight
      BY DEF OwnerStages, InFlight
    <3>2. Clock' /\ \A u \in Threads : pc'[u] \in Unapplied <=> pc[u] \in Unapplied
      BY <1>1, <1>2, <1>3, <2>2, <3>1, OwnerClock
    <3>3. /\ \A u \in Txns : pc'[u] = pc[u]
          /\ pc' \in [Threads -> TxnStages \cup OwnerStages]
          /\ \A u \in Txns : pc'[u] \in TxnStages
          /\ \A u \in Owners : pc'[u] \in OwnerStages
          /\ pc'[o] = "compacting" /\ \A u \in Owners \ {o} : pc'[u] = pc[u]
      BY <1>2, <2>2, <3>1, OwnerGoto
    <3>4. {tableLock', barrier'} \subseteq Owners \cup {NoThread}
      BY <1>2, <2>2 DEF IInv, Types, TypeOK
    <3>5. \A u \in Owners : pc'[u] # "committed"
      BY <1>3, <3>3 DEF Holding
    <3> QED BY <3>2, <3>3, <3>4, <3>5
  <2> QED BY <1>1, <2>1, <2>2
<1>5. /\ RowsOf(runs') = Live /\ runs' \subseteq RunSet
      /\ "flush" \notin allowed =>
           \A r \in runs' : r.created <= visible /\ \A e \in r.rows : e <= r.created
  BY <1>1, SpilledRun
<1>6. Live' = Live
  <2>1. Live' = memtable' \cup tier' \cup RowsOf(runs')
    BY DEF Live
  <2> QED BY <1>1, <1>5, <2>1
<1>7. /\ manifest'.current = epoch[o] /\ manifest'.flushed = flushed'
      /\ manifest'.runs = runs' /\ manifest' \in Manifests
  BY <1>1, <1>3, <1>5 DEF Manifests
<1>8. Types'
  <2>1. Missed' \subseteq Epochs /\ acked' \subseteq Epochs
    <3>1. \A e \in Written : e \in Epochs
      BY WrittenFacts DEF IInv, Types, TypeOK
    <3> QED BY <1>1, <1>3, <3>1 DEF IInv, Types, TypeOK, Missed
  <2>2. TypeOK'
    BY <1>1, <1>3, <1>4, <1>5, <1>7, <2>1 DEF IInv, Types, TypeOK
  <2> QED BY <1>1, <1>4, <1>7, <2>2 DEF IInv, Types
<1>9. Locked'
  <2>1. CASE job[o] = "flush"
    BY <1>1, <1>2, <1>3, <2>1, FinishLocked
  <2>2. CASE job[o] = "checkpoint"
    <3>1. "compacting" \in OwnerStages /\ "compacting" \in Holding
      BY DEF OwnerStages, Holding
    <3>2. /\ pc'[o] = "compacting" /\ \A u \in Owners \ {o} : pc'[u] = pc[u]
      BY <1>2, <2>2, <3>1, OwnerGoto
    <3>3. barrier = o /\ job[o] \in allowed
      BY <1>3, <2>2 DEF IInv, Locked
    <3>4. \A u \in Owners \ {o} : pc'[u] \notin Holding
      BY <1>3, <3>2
    <3>5. \A u \in Owners : pc'[u] \in Holding => tableLock' = u /\ job'[u] \in allowed'
            /\ (job'[u] = "checkpoint" => barrier' = u)
      BY <1>1, <1>2, <1>3, <2>2, <3>3, <3>4
    <3>6. barrier' # NoThread => \A t \in Txns : pc'[t] = "idle"
      BY <1>2, <1>4, <2>2 DEF IInv, Locked
    <3> QED BY <1>1, <2>2, <3>2, <3>4, <3>5, <3>6 DEF Locked, Holding
  <2> QED BY <1>1, <2>1, <2>2
<1>10. Placed'
  <2>1. RowsOf(runs) \subseteq Live
    BY DEF Live
  <2>2. \A e \in Written : e < epoch[o] => e \in Missed' \cup RowsOf(runs')
    BY <1>1, <1>5 DEF Missed
  <2>3. Missed \subseteq Missed' \cup RowsOf(runs')
    BY <1>1 DEF Missed
  <2>4. flushed' <= flushed'
    BY <1>1, <1>3
  <2> QED BY <1>1, <1>4, <1>5, <1>6, <1>7, <2>1, <2>2, <2>3, <2>4, SpillPlaced
<1>11. Quiet'
  <2> SUFFICES ASSUME "flush" \notin allowed PROVE Quiet'
    BY <1>1 DEF Quiet
  <2>1. visible = assigned /\ epoch[o] = assigned /\ Written \ Missed \subseteq Live
        /\ assigned \in Nat
    BY <1>1, FlushFacts
  <2>2. overtaken' = {}
    BY <1>1, <1>3, <1>5, <2>1 DEF IInv, Quiet, Missed
  <2>3. Accepted(manifest)'
    <3>1. manifest'.flushed = assigned /\ manifest'.current = assigned
      BY <1>1, <1>7, <2>1
    <3> QED BY <1>5, <1>7, <2>1, <3>1 DEF Accepted
  <2>4. epoch[o] <= visible
    BY <2>1
  <2> QED BY <1>1, <1>5, <1>7, <2>2, <2>3, <2>4 DEF Quiet
<1>12. Down'
  BY <1>1, <1>3 DEF Down
<1>13. Known'
  BY <1>1, <1>4, <1>7, SpillKnown
<1> QED BY <1>4, <1>8, <1>9, <1>10, <1>11, <1>12, <1>13 DEF IInv

\* A flush that fails at one of its exits.
LEMMA FlushFailsKeeps ==
  ASSUME IInv, NEW o \in Owners, NEW x \in FlushExits, FlushFails(o, x)
  PROVE  IInv'
<1>1. /\ pc[o] = "committed" /\ job[o] \in {"flush", "checkpoint"}
      /\ tier' = (IF x = "id" THEN tier \cup memtable ELSE {}) /\ memtable' = {}
      /\ runs' = IF x \in {"id", "run"} THEN runs
                 ELSE runs \cup {Run(epoch[o], tier \cup memtable)}
      /\ IF x \in {"id", "run", "gate"} THEN UNCHANGED <<flushed, overtaken>>
         ELSE /\ flushed' = epoch[o]
              /\ overtaken' = (overtaken \cup
                     {e \in Written : e < epoch[o] /\ e \notin Live \cup dropped})
                       \ RowsOf(runs')
      /\ manifest' = IF x = "index"
                     THEN [current |-> epoch[o], flushed |-> flushed', runs |-> runs']
                     ELSE manifest
      /\ dropped' = IF x = "id" THEN dropped
                    ELSE (dropped \cup tier \cup memtable) \ RowsOf(manifest'.runs)
      /\ Finish(o)
      /\ faults > 0 /\ faults' = faults - 1
      /\ UNCHANGED <<allowed, rotated, mode, assigned, visible, resolved, wal, durable,
                     staged, commitLock, job, epoch, acked>>
  BY DEF FlushFails, Overtaken, Manifest, authority, Fault
<1>2. /\ mode = "open" /\ pc[o] \in Holding /\ pc[o] \notin InFlight
      /\ epoch[o] \in 1..assigned /\ epoch[o] \in 0..MaxEpoch /\ epoch[o] > flushed
  BY <1>1, FlushFacts
<1>3. /\ Clock' /\ \A u \in Threads : pc'[u] \in Unapplied <=> pc[u] \in Unapplied
      /\ \A u \in Txns : pc'[u] = pc[u]
      /\ pc' \in [Threads -> TxnStages \cup OwnerStages]
      /\ \A u \in Txns : pc'[u] \in TxnStages
      /\ \A u \in Owners : pc'[u] \in OwnerStages
      /\ {tableLock', barrier'} \subseteq Owners \cup {NoThread}
  BY <1>1, <1>2, FinishClock
<1>4. \A u \in Owners : pc'[u] # "committed"
  BY <1>1, <1>2, FinishFrees DEF Holding
<1>5. /\ x \notin {"id", "run"} => RowsOf(runs') = Live
      /\ runs' \subseteq RunSet
      /\ "flush" \notin allowed =>
           \A r \in runs' : r.created <= visible /\ \A e \in r.rows : e <= r.created
  <2>1. CASE x \in {"id", "run"}
    BY <1>1, <1>2, <2>1 DEF IInv, Types, TypeOK, Quiet
  <2>2. CASE x \notin {"id", "run"}
    BY <1>1, <2>2, SpilledRun
  <2> QED BY <2>1, <2>2
<1>6. flushed \in 0..MaxEpoch /\ manifest \in Manifests /\ manifest.flushed \in Nat
      /\ manifest.flushed <= flushed /\ flushed' \in 0..MaxEpoch
      /\ flushed' \in {flushed, epoch[o]}
  BY <1>1, <1>2 DEF IInv, Types, TypeOK, Placed
<1>7. /\ manifest' \in Manifests /\ manifest'.flushed <= flushed'
      /\ manifest'.current \in {manifest.current, epoch[o]}
      /\ x = "index" => /\ manifest'.runs = runs' /\ manifest'.current = epoch[o]
                        /\ manifest'.flushed = flushed' /\ flushed' = epoch[o]
      /\ x # "index" => manifest' = manifest
  <2>1. CASE x = "index"
    <3>1. manifest' = [current |-> epoch[o], flushed |-> flushed', runs |-> runs']
          /\ flushed' = epoch[o]
      BY <1>1, <2>1
    <3>2. epoch[o] <= flushed'
      BY <1>2, <3>1
    <3> QED BY <1>2, <1>5, <1>6, <2>1, <3>1, <3>2 DEF Manifests
  <2>2. CASE x # "index"
    BY <1>1, <1>2, <1>6, <2>2
  <2> QED BY <2>1, <2>2
<1>8. Live' = memtable' \cup tier' \cup RowsOf(runs') /\ RowsOf(runs) \subseteq Live
  BY DEF Live
<1>9. /\ RowsOf(runs) \subseteq RowsOf(runs') /\ RowsOf(manifest'.runs) \subseteq RowsOf(runs')
      /\ RowsOf(runs') \ dropped' \subseteq RowsOf(manifest'.runs)
      /\ Live \subseteq Live' \cup Missed'
      /\ Missed \subseteq Missed' \cup RowsOf(runs')
      /\ \/ flushed' = flushed
         \/ /\ flushed' = epoch[o]
            /\ \A e \in Written : e < epoch[o] => e \in Missed' \cup RowsOf(runs')
  <2>1. /\ RowsOf(manifest.runs) \subseteq RowsOf(runs)
        /\ RowsOf(runs) \ dropped \subseteq RowsOf(manifest.runs)
    BY <1>2 DEF IInv, Placed
  <2>2. CASE x = "id"
    BY <1>1, <1>7, <1>8, <2>1, <2>2 DEF Live, Missed
  <2>3. CASE x = "run"
    BY <1>1, <1>7, <1>8, <2>1, <2>3 DEF Live, Missed
  <2>4. CASE x = "gate"
    BY <1>1, <1>5, <1>7, <1>8, <2>1, <2>4 DEF Live, Missed
  <2>5. CASE x = "manifest"
    <3>1. /\ RowsOf(runs') = Live /\ Live' = Live /\ manifest' = manifest
          /\ dropped' = (dropped \cup tier \cup memtable) \ RowsOf(manifest.runs)
      BY <1>1, <1>5, <1>7, <1>8, <2>5
    <3>2. /\ flushed' = epoch[o]
          /\ overtaken' = (overtaken \cup
                     {e \in Written : e < epoch[o] /\ e \notin Live \cup dropped}) \ Live
      BY <1>1, <2>5, <3>1
    <3> QED BY <1>8, <2>1, <3>1, <3>2 DEF Live, Missed
  <2>6. CASE x = "index"
    <3>1. /\ RowsOf(runs') = Live /\ Live' = Live /\ manifest'.runs = runs'
          /\ dropped' = (dropped \cup tier \cup memtable) \ Live
      BY <1>1, <1>5, <1>7, <1>8, <2>6
    <3>2. /\ flushed' = epoch[o]
          /\ overtaken' = (overtaken \cup
                     {e \in Written : e < epoch[o] /\ e \notin Live \cup dropped}) \ Live
      BY <1>1, <2>6, <3>1
    <3> QED BY <1>8, <3>1, <3>2 DEF Missed
  <2> QED BY <2>2, <2>3, <2>4, <2>5, <2>6 DEF FlushExits
<1>10. Types'
  <2>1. Missed' \subseteq Epochs
    <3>1. \A e \in Written : e \in Epochs
      BY WrittenFacts DEF IInv, Types, TypeOK
    <3>2. overtaken' \subseteq Epochs
      BY <1>1, <3>1 DEF IInv, Types, TypeOK, Missed
    <3>3. dropped' \subseteq Epochs
      BY <1>1 DEF IInv, Types, TypeOK, Missed
    <3> QED BY <3>2, <3>3 DEF Missed
  <2>2. tier' \subseteq Epochs /\ memtable' \subseteq Epochs
    BY <1>1 DEF IInv, Types, TypeOK
  <2>3. faults' \in 0..MaxFaults
    BY <1>1, RecoveryAssumptions DEF IInv, Types, TypeOK
  <2>4. /\ manifest'.current \in 0..MaxEpoch /\ manifest'.flushed \in 0..MaxEpoch
        /\ manifest'.runs \subseteq RunSet
    BY <1>7 DEF Manifests
  <2>5. TypeOK'
    BY <1>1, <1>3, <1>5, <1>6, <2>1, <2>2, <2>3, <2>4 DEF IInv, Types, TypeOK
  <2> QED BY <1>1, <1>3, <1>7, <2>5 DEF IInv, Types
<1>11. Locked'
  <2>1. memtable' \cup tier' \subseteq memtable \cup tier
    BY <1>1
  <2> QED BY <1>1, <1>2, <2>1, FinishLocked
<1>12. Placed'
  <2>1. tier' = {} \/ (tier' = tier \cup memtable /\ flushed' = flushed)
    BY <1>1
  <2> QED BY <1>1, <1>3, <1>7, <1>9, <2>1, SpillPlaced
<1>13. Quiet'
  <2> SUFFICES ASSUME "flush" \notin allowed PROVE Quiet'
    BY <1>1 DEF Quiet
  <2>1. visible = assigned /\ epoch[o] = assigned /\ Written \ Missed \subseteq Live
        /\ assigned \in Nat
    BY <1>1, FlushFacts
  <2>2. overtaken = {} /\ Accepted(manifest) /\ flushed <= visible
        /\ (\A e \in memtable \cup tier : e <= visible)
        /\ \A r \in manifest.runs : \A e \in r.rows : e <= r.created
    BY <1>2, <2>1 DEF IInv, Quiet
  <2>3. overtaken' = {}
    <3>1. CASE x \in {"id", "run", "gate"}
      BY <1>1, <2>2, <3>1
    <3>2. CASE x \notin {"id", "run", "gate"}
      <4>1. overtaken' = (overtaken \cup
                     {e \in Written : e < epoch[o] /\ e \notin Live \cup dropped}) \ Live
        BY <1>1, <1>5, <3>2
      <4>2. Written \subseteq Live \cup dropped
        BY <2>1, <2>2 DEF Missed
      <4> QED BY <2>2, <4>1, <4>2
    <3> QED BY <3>1, <3>2
  <2>4. flushed' <= visible /\ \A e \in tier' : e <= visible
    BY <1>1, <1>6, <2>1, <2>2
  <2>5. /\ Accepted(manifest)'
        /\ \A r \in manifest'.runs : \A e \in r.rows : e <= r.created
    <3>1. CASE x = "index"
      BY <1>5, <1>7, <2>1, <3>1 DEF Accepted
    <3>2. CASE x # "index"
      BY <1>7, <2>2, <3>2 DEF Accepted
    <3> QED BY <3>1, <3>2
  <2> QED BY <1>1, <1>5, <2>3, <2>4, <2>5 DEF Quiet
<1>14. Down'
  BY <1>1, <1>2 DEF Down
<1>15. Known'
  BY <1>1, <1>3, <1>4, <1>7, SpillKnown
<1> QED BY <1>3, <1>10, <1>11, <1>12, <1>13, <1>14, <1>15 DEF IInv

-----------------------------------------------------------------------------
(* Compaction, checkpoint and WAL collection *)

\* What a compaction at the visible epoch does to the table: no row leaves it,
\* and the gate moves only over rows that are in the new run.
LEMMA CompactedTable ==
  ASSUME IInv, NEW o \in Owners, Compact(o)
  PROVE  /\ pc[o] = "compacting" /\ AfterCompaction(o)
         /\ UNCHANGED <<allowed, rotated, mode, assigned, visible, resolved, wal, durable,
                        staged, commitLock, job, epoch, acked, faults>>
         /\ Live' = Live /\ RowsOf(runs) \subseteq RowsOf(runs')
         /\ overtaken' \subseteq overtaken /\ dropped' \subseteq dropped
         /\ Missed \ Missed' \subseteq RowsOf(runs')
         /\ memtable' \subseteq memtable /\ tier' \subseteq memtable \cup tier
         /\ \A e \in memtable : e > visible => e \in memtable'
         /\ \/ flushed' = flushed
            \/ flushed' = visible /\ \A e \in memtable' \cup tier' : e > visible
         /\ \A e \in tier' : e \in tier \/ e <= visible
         /\ \/ /\ runs' = runs /\ manifest' = manifest /\ flushed' = flushed
               /\ dropped' = dropped
               /\ memtable' \cup tier' = memtable \cup tier
            \/ \E rows \in SUBSET (RowsOf(runs) \cup tier \cup {e \in memtable : ~(e > visible)}) :
                 /\ runs' = {Run(visible, rows)}
                 /\ manifest' = Manifest(visible, flushed', runs')
<1>1. /\ pc[o] = "compacting" /\ AfterCompaction(o)
      /\ UNCHANGED <<allowed, rotated, mode, assigned, visible, resolved, wal, durable,
                     staged, commitLock, job, epoch, acked, faults>>
  BY DEF Compact, CompactAt, authority
<1>2. PICK kept : kept = {r \in memtable : r > visible}
  OBVIOUS
<1>3. PICK rows : rows = IF staged THEN RowsOf(runs)
                         ELSE RowsOf(runs) \cup tier \cup (memtable \ kept)
  OBVIOUS
<1>4. \/ /\ staged /\ UNCHANGED <<tier, memtable, runs, flushed, manifest, overtaken, dropped>>
      \/ /\ ~staged /\ tier' = tier \cup (memtable \ kept) /\ memtable' = kept
         /\ UNCHANGED <<runs, flushed, manifest, overtaken, dropped>>
      \/ /\ runs' = {Run(visible, rows)} /\ manifest' = Manifest(visible, flushed', runs')
         /\ overtaken' = overtaken \ rows /\ dropped' = dropped \ rows
         /\ \/ staged /\ UNCHANGED <<tier, memtable, flushed>>
            \/ ~staged /\ tier' = {} /\ memtable' = kept /\ flushed' = visible
  BY <1>2, <1>3 DEF Compact, CompactAt, DrainCommitted
<1>5. memtable \subseteq Nat /\ visible \in Nat
  BY DEF IInv, Types, TypeOK, Epochs
<1>6. /\ rows \in SUBSET (RowsOf(runs) \cup tier \cup {e \in memtable : ~(e > visible)})
      /\ RowsOf(runs) \subseteq rows
      /\ ~staged => tier \cup (memtable \ kept) \subseteq rows
  BY <1>2, <1>3
<1>7. Live' = memtable' \cup tier' \cup RowsOf(runs')
  BY DEF Live
<1>8. CASE runs' = {Run(visible, rows)} /\ manifest' = Manifest(visible, flushed', runs')
           /\ overtaken' = overtaken \ rows /\ dropped' = dropped \ rows
           /\ \/ staged /\ UNCHANGED <<tier, memtable, flushed>>
              \/ ~staged /\ tier' = {} /\ memtable' = kept /\ flushed' = visible
  <2>1. PICK one : one = runs' /\ one = {Run(visible, rows)}
    BY <1>8
  <2>2. RowsOf(one) = rows
    BY <2>1, RowsOfOne
  <2>3. RowsOf(runs') = rows
    BY <2>1, <2>2
  <2>4. Live' = Live
    BY <1>2, <1>3, <1>6, <1>7, <1>8, <2>3 DEF Live
  <2>5. /\ memtable' \subseteq memtable /\ tier' \subseteq memtable \cup tier
        /\ \/ flushed' = flushed
           \/ flushed' = visible /\ \A e \in memtable' \cup tier' : e > visible
        /\ \A e \in tier' : e \in tier \/ e <= visible
        /\ \A e \in memtable : e > visible => e \in memtable'
    BY <1>2, <1>8
  <2>6. /\ overtaken' \subseteq overtaken /\ dropped' \subseteq dropped
        /\ Missed \ Missed' \subseteq RowsOf(runs')
    BY <1>8, <2>3 DEF Missed
  <2> QED BY <1>1, <1>6, <1>8, <2>3, <2>4, <2>5, <2>6
<1>9. CASE ~staged /\ tier' = tier \cup (memtable \ kept) /\ memtable' = kept
           /\ UNCHANGED <<runs, flushed, manifest, overtaken, dropped>>
  <2>1. Live' = Live /\ Missed' = Missed
    BY <1>2, <1>7, <1>9 DEF Live, Missed
  <2>2. \A e \in tier' : e \in tier \/ e <= visible
    <3> SUFFICES ASSUME NEW e \in memtable, e \notin kept PROVE e <= visible
      BY <1>9
    <3>1. e \in Nat /\ ~(e > visible)
      BY <1>2, <1>5
    <3> QED BY <1>5, <3>1
  <2> QED BY <1>1, <1>2, <1>9, <2>1, <2>2
<1>10. CASE staged /\ UNCHANGED <<tier, memtable, runs, flushed, manifest, overtaken, dropped>>
  BY <1>1, <1>7, <1>10 DEF Live, Missed
<1> QED BY <1>4, <1>8, <1>9, <1>10

\* Where a compaction leaves the stages and the locks.
LEMMA CompactedStages ==
  ASSUME IInv, NEW o \in Owners, Compact(o)
  PROVE  /\ Clock' /\ Locked'
         /\ \A u \in Threads : pc'[u] \in Unapplied <=> pc[u] \in Unapplied
         /\ \A u \in Txns : pc'[u] = pc[u]
         /\ pc' \in [Threads -> TxnStages \cup OwnerStages]
         /\ \A u \in Txns : pc'[u] \in TxnStages
         /\ \A u \in Owners : pc'[u] \in OwnerStages /\ pc'[u] # "committed"
         /\ {tableLock', barrier'} \subseteq Owners \cup {NoThread}
<1>1. /\ pc[o] = "compacting" /\ AfterCompaction(o)
      /\ UNCHANGED <<allowed, rotated, mode, assigned, visible, resolved, wal, job, epoch>>
      /\ memtable' \subseteq memtable /\ tier' \subseteq memtable \cup tier
  BY CompactedTable
<1>2. /\ mode = "open" /\ pc[o] \in Holding /\ pc[o] \notin InFlight /\ tableLock = o
      /\ \A u \in Owners \ {o} : pc[u] \notin Holding
  BY <1>1, OneHolder DEF Holding, InFlight
<1>3. job[o] \in {"compact", "checkpoint"} /\ job[o] \in allowed
      /\ (job[o] = "checkpoint" => barrier = o /\ memtable = {} /\ tier = {})
  BY <1>1, <1>2 DEF IInv, Locked
<1>4. CASE job[o] = "compact"
  <2>1. Finish(o)
    BY <1>1, <1>4 DEF AfterCompaction
  <2>2. Locked'
    BY <1>1, <1>2, <2>1, FinishLocked
  <2> QED BY <1>1, <1>2, <2>1, <2>2, FinishClock, FinishFrees DEF Holding
<1>5. CASE job[o] = "checkpoint"
  <2>1. pc' = [pc EXCEPT ![o] = "resetting"] /\ UNCHANGED <<tableLock, barrier>>
    BY <1>1, <1>5 DEF AfterCompaction, Goto
  <2>2. "resetting" \in OwnerStages /\ "resetting" \notin InFlight /\ "resetting" \in Holding
    BY DEF OwnerStages, InFlight, Holding
  <2>3. Clock' /\ \A u \in Threads : pc'[u] \in Unapplied <=> pc[u] \in Unapplied
    BY <1>1, <1>2, <2>1, <2>2, OwnerClock
  <2>4. /\ pc'[o] = "resetting" /\ (\A u \in Owners \ {o} : pc'[u] = pc[u])
        /\ \A u \in Txns : pc'[u] = pc[u]
        /\ pc' \in [Threads -> TxnStages \cup OwnerStages]
        /\ \A u \in Txns : pc'[u] \in TxnStages
        /\ \A u \in Owners : pc'[u] \in OwnerStages
    BY <2>1, <2>2, OwnerGoto
  <2>5. {tableLock', barrier'} \subseteq Owners \cup {NoThread}
    BY <2>1 DEF IInv, Types, TypeOK
  <2>6. \A u \in Owners \ {o} : pc'[u] \notin Holding
    BY <1>2, <2>4
  <2>7. \A u \in Owners : pc'[u] \in Holding => tableLock' = u /\ job'[u] \in allowed'
            /\ (job'[u] = "checkpoint" => barrier' = u)
    BY <1>1, <1>2, <1>3, <2>1, <2>6
  <2>8. barrier' # NoThread => \A t \in Txns : pc'[t] = "idle"
    BY <2>1, <2>4 DEF IInv, Locked
  <2>9. memtable' = {} /\ tier' = {}
    BY <1>1, <1>3, <1>5
  <2>10. Locked'
    BY <1>1, <1>5, <2>4, <2>6, <2>7, <2>8, <2>9 DEF Locked, Holding
  <2>11. \A u \in Owners : pc'[u] # "committed"
    BY <2>4, <2>6 DEF Holding
  <2> QED BY <2>3, <2>4, <2>5, <2>10, <2>11
<1> QED BY <1>3, <1>4, <1>5

\* Table::compact.
LEMMA CompactKeeps ==
  ASSUME IInv, NEW o \in Owners, Compact(o)
  PROVE  IInv'
<1>1. /\ pc[o] = "compacting"
      /\ UNCHANGED <<allowed, rotated, mode, assigned, visible, resolved, wal, durable,
                     staged, commitLock, job, epoch, acked, faults>>
      /\ Live' = Live /\ RowsOf(runs) \subseteq RowsOf(runs')
      /\ overtaken' \subseteq overtaken /\ dropped' \subseteq dropped
      /\ Missed \ Missed' \subseteq RowsOf(runs')
      /\ memtable' \subseteq memtable /\ tier' \subseteq memtable \cup tier
      /\ \A e \in memtable : e > visible => e \in memtable'
  BY CompactedTable
<1>2. /\ \/ flushed' = flushed
         \/ flushed' = visible /\ \A e \in memtable' \cup tier' : e > visible
      /\ \A e \in tier' : e \in tier \/ e <= visible
      /\ \/ /\ runs' = runs /\ manifest' = manifest /\ flushed' = flushed
            /\ dropped' = dropped
            /\ memtable' \cup tier' = memtable \cup tier
         \/ \E rows \in SUBSET (RowsOf(runs) \cup tier \cup {e \in memtable : ~(e > visible)}) :
                 /\ runs' = {Run(visible, rows)}
                 /\ manifest' = Manifest(visible, flushed', runs')
  BY CompactedTable
<1>3. /\ Clock' /\ Locked'
      /\ \A u \in Threads : pc'[u] \in Unapplied <=> pc[u] \in Unapplied
      /\ \A u \in Txns : pc'[u] = pc[u]
      /\ pc' \in [Threads -> TxnStages \cup OwnerStages]
      /\ \A u \in Txns : pc'[u] \in TxnStages
      /\ \A u \in Owners : pc'[u] \in OwnerStages /\ pc'[u] # "committed"
      /\ {tableLock', barrier'} \subseteq Owners \cup {NoThread}
  BY CompactedStages
<1>4. mode = "open"
  BY <1>1, OneHolder DEF Holding
<1>5. /\ visible \in Nat /\ assigned \in Nat /\ visible <= assigned /\ visible \in 0..MaxEpoch
      /\ flushed \in 0..MaxEpoch /\ memtable \subseteq Epochs /\ tier \subseteq Epochs
      /\ runs \subseteq RunSet /\ manifest \in Manifests
  BY RecoveryAssumptions DEF IInv, Types, TypeOK
<1>6. manifest.flushed <= flushed /\ flushed <= assigned
  BY <1>4 DEF IInv, Placed
<1>7. RowsOf(runs) \subseteq Epochs
  BY <1>5, RowsOfFacts DEF RunSet
<1>8. flushed' \in 0..MaxEpoch /\ flushed' <= assigned
  BY <1>2, <1>5, <1>6
<1>9. /\ runs' \subseteq RunSet /\ manifest' \in Manifests
      /\ \/ runs' = runs /\ manifest' = manifest /\ flushed' = flushed /\ dropped' = dropped
         \/ /\ manifest'.runs = runs' /\ manifest'.flushed = flushed'
            /\ manifest'.current = visible
  <2>1. CASE runs' = runs /\ manifest' = manifest /\ flushed' = flushed /\ dropped' = dropped
    BY <1>5, <1>6, <2>1
  <2>2. ASSUME NEW rows \in SUBSET (RowsOf(runs) \cup tier \cup {e \in memtable : ~(e > visible)}),
               runs' = {Run(visible, rows)}, manifest' = Manifest(visible, flushed', runs')
        PROVE  /\ runs' \subseteq RunSet /\ manifest' \in Manifests
               /\ manifest'.runs = runs' /\ manifest'.flushed = flushed'
               /\ manifest'.current = visible
    <3>1. rows \subseteq Epochs
      BY <1>5, <1>7
    <3>2. Run(visible, rows) \in RunSet
      BY <1>5, <3>1 DEF Run, RunSet
    <3> QED BY <1>5, <1>8, <2>2, <3>2 DEF Manifest, Manifests
  <2> QED BY <1>2, <2>1, <2>2
<1>10. Types'
  <2>1. memtable' \subseteq Epochs /\ tier' \subseteq Epochs /\ Missed' \subseteq Epochs
    BY <1>1, <1>5 DEF IInv, Types, TypeOK, Missed
  <2>2. staged' \in BOOLEAN /\ {tableLock', commitLock', barrier'} \subseteq Owners \cup {NoThread}
    BY <1>1, <1>3 DEF IInv, Types, TypeOK
  <2>3. /\ manifest'.current \in 0..MaxEpoch /\ manifest'.flushed \in 0..MaxEpoch
        /\ manifest'.runs \subseteq RunSet
    BY <1>9 DEF Manifests
  <2>4. TypeOK'
    BY <1>1, <1>8, <1>9, <2>1, <2>2, <2>3 DEF IInv, Types, TypeOK
  <2> QED BY <1>1, <1>3, <1>9, <2>4 DEF IInv, Types
<1>11. Written' = Written
  BY <1>1 DEF Written
<1>12. RowsOf(runs') \subseteq Live
  BY <1>1 DEF Live
<1>13. Placed'
  <2>1. acked \ Missed' \subseteq Live
    BY <1>1, <1>4, <1>12 DEF IInv, Placed
  <2>2. \A e \in Written \ Missed' :
          e \in Live \/ \E t \in Threads : pc'[t] \in Unapplied /\ epoch[t] = e
    BY <1>1, <1>3, <1>4, <1>12 DEF IInv, Placed
  <2>3. \A e \in (memtable' \cup tier') \ Missed' :
          e \in RowsOf(runs') \/ (e \in Written /\ e <= durable /\ e > flushed')
    <3> SUFFICES ASSUME NEW e \in (memtable' \cup tier') \ Missed', e \notin RowsOf(runs')
                 PROVE  e \in Written /\ e <= durable /\ e > flushed'
      OBVIOUS
    <3>1. e \in memtable \cup tier /\ e \notin Missed /\ e \notin RowsOf(runs)
      BY <1>1
    <3> QED BY <1>2, <1>4, <3>1 DEF IInv, Placed
  <2>4. ASSUME NEW t \in Txns, pc[t] = "appended", epoch[t] \notin Missed'
        PROVE  epoch[t] > flushed' \/ epoch[t] \in RowsOf(runs')
    <3>1. CASE epoch[t] \in Missed
      BY <1>1, <2>4, <3>1
    <3>2. CASE epoch[t] \notin Missed
      <4>1. t \in Threads /\ pc[t] \in InFlight
        BY <2>4 DEF Threads, InFlight
      <4>2. epoch[t] \in 1..assigned /\ epoch[t] \notin resolved
        BY <4>1 DEF IInv, Clock
      <4>3. epoch[t] > visible
        BY <1>5, <4>2 DEF IInv, Clock
      <4> QED BY <1>1, <1>2, <1>4, <2>4, <3>2, <4>3 DEF IInv, Placed
    <3> QED BY <3>1, <3>2
  <2>5. \A t \in Txns : pc[t] # "idle" => epoch[t] \in Written
    BY <1>4 DEF IInv, Placed
  <2>6. /\ RowsOf(manifest'.runs) \subseteq RowsOf(runs')
        /\ RowsOf(runs') \ dropped' \subseteq RowsOf(manifest'.runs)
        /\ manifest'.flushed <= flushed'
    <3>1. CASE runs' = runs /\ manifest' = manifest /\ flushed' = flushed /\ dropped' = dropped
      BY <1>4, <3>1 DEF IInv, Placed
    <3>2. CASE manifest'.runs = runs' /\ manifest'.flushed = flushed'
      BY <1>8, <3>2
    <3> QED BY <1>9, <3>1, <3>2
  <2> QED BY <1>1, <1>3, <1>8, <1>11, <2>1, <2>2, <2>3, <2>4, <2>5, <2>6 DEF Placed
<1>14. Quiet'
  <2> SUFFICES ASSUME "flush" \notin allowed PROVE Quiet'
    BY <1>1 DEF Quiet
  <2>1. /\ overtaken = {} /\ flushed <= visible /\ (\A r \in runs : r.created <= visible)
        /\ (\A e \in tier : e <= visible) /\ (\A e \in memtable : e <= assigned)
        /\ (\A r \in runs : \A e \in r.rows : e <= r.created) /\ Accepted(manifest)
        /\ \A r \in manifest.runs : \A e \in r.rows : e <= r.created
    BY <1>4 DEF IInv, Quiet
  <2>2. overtaken' = {} /\ flushed' <= visible /\ \A e \in tier' : e <= visible
    BY <1>1, <1>2, <1>5, <2>1
  <2>3. \A e \in RowsOf(runs) : e <= visible
    <3>1. \A r \in runs : r.created \in Nat /\ r.rows \subseteq Nat
      BY <1>5 DEF RunSet, Epochs
    <3> QED BY <1>5, <2>1, <3>1, RowsOfFacts
  <2>4. /\ \A r \in runs' : r.created <= visible /\ \A e \in r.rows : e <= r.created
        /\ Accepted(manifest)'
        /\ \A r \in manifest'.runs : \A e \in r.rows : e <= r.created
    <3>1. CASE runs' = runs /\ manifest' = manifest
      BY <2>1, <3>1 DEF Accepted
    <3>2. ASSUME NEW rows \in SUBSET (RowsOf(runs) \cup tier \cup {e \in memtable : ~(e > visible)}),
                 runs' = {Run(visible, rows)}, manifest' = Manifest(visible, flushed', runs')
          PROVE  /\ \A r \in runs' : r.created <= visible /\ \A e \in r.rows : e <= r.created
                 /\ Accepted(manifest)'
                 /\ \A r \in manifest'.runs : \A e \in r.rows : e <= r.created
      <4>1. \A e \in memtable : ~(e > visible) => e <= visible
        BY <1>5 DEF Epochs
      <4>2. \A e \in rows : e <= visible
        BY <2>1, <2>3, <4>1
      <4>3. Run(visible, rows).created = visible /\ Run(visible, rows).rows = rows
        BY DEF Run
      <4>4. /\ manifest'.current = visible /\ manifest'.flushed = flushed'
            /\ manifest'.runs = runs'
        BY <3>2 DEF Manifest
      <4>5. \A r \in runs' : r.created = visible /\ r.rows = rows
        BY <3>2, <4>3
      <4>6. visible <= visible
        BY <1>5
      <4>7. Accepted(manifest)'
        BY <2>2, <4>4, <4>5, <4>6 DEF Accepted
      <4> QED BY <4>2, <4>4, <4>5, <4>6, <4>7
    <3> QED BY <1>2, <3>1, <3>2
  <2> QED BY <1>1, <2>1, <2>2, <2>4 DEF Quiet
<1>15. Down'
  BY <1>1, <1>4 DEF Down
<1>16. Known'
  <2> SUFFICES ASSUME "flush" \notin allowed PROVE Known'
    BY <1>1 DEF Known
  <2>1. acked \subseteq Nat /\ \A t \in Txns : t \in Threads /\ epoch[t] \in Nat
    BY DEF IInv, Types, TypeOK, Epochs, Threads
  <2>2. ASSUME NEW e \in Nat, Reached(e) PROVE Reached(e)'
    <3>1. CASE manifest' = manifest /\ memtable' \cup tier' = memtable \cup tier
      BY <1>1, <1>11, <2>2, <3>1 DEF Reached
    <3>2. CASE manifest'.current = visible
      <4>1. CASE e <= visible
        BY <1>1, <3>2, <4>1 DEF Reached
      <4>2. CASE e > visible
        <5>1. \A x \in tier : x <= visible
          BY <1>4 DEF IInv, Quiet
        <5>2. e \in Written /\ e <= durable /\ e \in memtable
          <6>1. ~(e <= visible)
            BY <1>5, <4>2
          <6> QED BY <2>2, <5>1, <6>1 DEF Reached
        <5> QED BY <1>1, <1>11, <4>2, <5>2 DEF Reached
      <4> QED BY <1>5, <4>1, <4>2
    <3>3. (\E rows : manifest' = Manifest(visible, flushed', runs')) => manifest'.current = visible
      BY DEF Manifest
    <3> QED BY <1>2, <3>1, <3>2, <3>3
  <2>3. \A e \in acked' : Reached(e)'
    BY <1>1, <1>4, <2>1, <2>2 DEF IInv, Known
  <2>4. ASSUME NEW t \in Txns, pc'[t] \in {"applied", "persisted"}
        PROVE  epoch'[t] \in memtable' /\ epoch'[t] <= durable'
    <3>1. pc[t] \in {"applied", "persisted"} /\ pc[t] \in InFlight /\ t \in Threads
      BY <1>3, <2>1, <2>4 DEF InFlight
    <3>2. epoch[t] \in memtable /\ epoch[t] <= durable
      BY <1>4, <3>1 DEF IInv, Known
    <3>3. epoch[t] \in 1..assigned /\ epoch[t] \notin resolved
      BY <3>1 DEF IInv, Clock
    <3>4. epoch[t] > visible
      BY <1>5, <3>3 DEF IInv, Clock
    <3> QED BY <1>1, <3>2, <3>4
  <2> QED BY <1>1, <1>3, <1>4, <2>3, <2>4 DEF Known
<1> QED BY <1>3, <1>10, <1>13, <1>14, <1>15, <1>16 DEF IInv

\* A call that returns with nothing done but rows moved from tier to tier.
LEMMA ReturnKeeps ==
  ASSUME IInv, NEW o \in Owners, pc[o] \in Holding, pc[o] # "sealed", Finish(o), Fault,
         UNCHANGED <<allowed, mode, authority, disk, runs, flushed, staged, commitLock,
                     job, epoch, acked, overtaken, dropped>>,
         memtable' \subseteq memtable, memtable' \cup tier' = memtable \cup tier,
         \A e \in tier' : e \in tier \/ e <= visible,
         \A e \in memtable : e > visible => e \in memtable'
  PROVE  IInv'
<1>1. UNCHANGED <<allowed, mode, assigned, visible, resolved, wal, durable, rotated,
                  manifest, runs, flushed, staged, commitLock, job, epoch, acked,
                  overtaken, dropped>>
  BY DEF authority, disk
<1>2. mode = "open" /\ pc[o] \notin InFlight
  BY OneHolder DEF Holding, InFlight
<1>3. /\ Clock' /\ \A u \in Threads : pc'[u] \in Unapplied <=> pc[u] \in Unapplied
      /\ \A u \in Txns : pc'[u] = pc[u]
      /\ pc' \in [Threads -> TxnStages \cup OwnerStages]
      /\ \A u \in Txns : pc'[u] \in TxnStages
      /\ \A u \in Owners : pc'[u] \in OwnerStages
      /\ {tableLock', barrier'} \subseteq Owners \cup {NoThread}
  BY <1>1, <1>2, FinishClock
<1>4. Locked'
  BY <1>1, FinishLocked
<1>5. Written' = Written /\ Live' = Live /\ Missed' = Missed
  BY <1>1 DEF Written, Live, Missed
<1>6. Types'
  <2>1. faults' \in 0..MaxFaults
    BY RecoveryAssumptions DEF Fault, IInv, Types, TypeOK
  <2>2. memtable' \subseteq Epochs /\ tier' \subseteq Epochs
    BY DEF IInv, Types, TypeOK
  <2>3. TypeOK'
    BY <1>1, <1>3, <1>5, <2>1, <2>2 DEF IInv, Types, TypeOK
  <2> QED BY <1>1, <1>3, <2>3 DEF IInv, Types
<1>7. Placed'
  BY <1>1, <1>2, <1>3, <1>5 DEF IInv, Placed
<1>8. Down' /\ Quiet'
  BY <1>1, <1>2 DEF IInv, Down, Quiet
<1>9. Known'
  <2> SUFFICES ASSUME "flush" \notin allowed PROVE Known'
    BY <1>1 DEF Known
  <2>1. \A e : Reached(e) => Reached(e)'
    BY <1>1, <1>5 DEF Reached
  <2>2. \A u \in Owners : pc'[u] # "committed"
    BY FinishFrees DEF Holding
  <2>3. ASSUME NEW t \in Txns, pc[t] \in {"applied", "persisted"}
        PROVE  epoch[t] \in memtable' /\ epoch[t] <= durable
    <3>1. pc[t] \in InFlight /\ t \in Threads
      BY <2>3 DEF InFlight, Threads
    <3>2. epoch[t] \in 1..assigned /\ epoch[t] \notin resolved /\ visible \in Nat
      BY <3>1 DEF IInv, Clock, Types, TypeOK
    <3>3. epoch[t] > visible
      BY <3>2 DEF IInv, Clock
    <3> QED BY <1>2, <2>3, <3>3 DEF IInv, Known
  <2> QED BY <1>1, <1>2, <1>3, <2>1, <2>2, <2>3 DEF IInv, Known
<1> QED BY <1>3, <1>4, <1>6, <1>7, <1>8, <1>9 DEF IInv

\* Table::compact fails or is cancelled.
LEMMA CompactFailsKeeps ==
  ASSUME IInv, NEW o \in Owners, CompactFails(o)
  PROVE  IInv'
<1>1. /\ pc[o] = "compacting" /\ Finish(o) /\ Fault /\ DrainCommitted(visible)
      /\ UNCHANGED <<allowed, mode, authority, disk, runs, flushed, staged, commitLock,
                     job, epoch, acked, overtaken, dropped>>
  BY DEF CompactFails
<1>2. memtable \subseteq Nat /\ visible \in Nat
  BY DEF IInv, Types, TypeOK, Epochs
<1>3. /\ memtable' \subseteq memtable /\ memtable' \cup tier' = memtable \cup tier
      /\ \A e \in tier' : e \in tier \/ e <= visible
      /\ \A e \in memtable : e > visible => e \in memtable'
  <2>1. CASE staged
    BY <1>1, <2>1 DEF DrainCommitted
  <2>2. CASE ~staged
    <3>1. PICK kept : kept = {r \in memtable : r > visible}
      OBVIOUS
    <3>2. tier' = tier \cup (memtable \ kept) /\ memtable' = kept
      BY <1>1, <2>2, <3>1 DEF DrainCommitted
    <3>3. \A e \in memtable : e \in kept <=> e > visible
      BY <3>1
    <3>4. \A e \in memtable : e > visible \/ e <= visible
      BY <1>2
    <3>5. kept \subseteq memtable
      BY <3>1
    <3> QED BY <3>2, <3>3, <3>4, <3>5
  <2> QED BY <2>1, <2>2
<1>4. pc[o] \in Holding /\ pc[o] # "sealed"
  BY <1>1 DEF Holding
<1> QED BY <1>1, <1>3, <1>4, ReturnKeeps

\* A call fails where it has nothing to undo.
LEMMA GiveUpKeeps ==
  ASSUME IInv, NEW o \in Owners, GiveUp(o)
  PROVE  IInv'
<1>1. /\ pc[o] \in {"locked", "resetting", "manifesting"} /\ Finish(o) /\ Fault
      /\ UNCHANGED <<allowed, mode, authority, disk, runs, flushed, staged, commitLock,
                     job, epoch, acked, overtaken, dropped>>
      /\ memtable' = memtable /\ tier' = tier
  BY DEF GiveUp, table
<1>2. pc[o] \in Holding /\ pc[o] # "sealed"
  BY <1>1 DEF Holding
<1> QED BY <1>1, <1>2, ReturnKeeps

\* A checkpoint finds nothing in memory.
LEMMA CheckpointCleanKeeps ==
  ASSUME IInv, NEW o \in Owners, CheckpointClean(o)
  PROVE  IInv'
<1>1. /\ pc[o] = "locked" /\ job[o] = "checkpoint" /\ memtable = {} /\ tier = {}
      /\ pc' = [pc EXCEPT ![o] = "compacting"]
      /\ UNCHANGED <<allowed, mode, assigned, visible, resolved, wal, durable, rotated,
                     manifest, memtable, tier, runs, flushed, staged, tableLock,
                     commitLock, barrier, job, epoch, acked, overtaken, dropped, faults>>
  BY DEF CheckpointClean, Clean, Goto, authority, disk, table, locks
<1>2. /\ mode = "open" /\ pc[o] \in Holding /\ pc[o] \notin InFlight /\ tableLock = o
      /\ \A u \in Owners \ {o} : pc[u] \notin Holding
  BY <1>1, OneHolder DEF Holding, InFlight
<1>3. /\ "compacting" \in OwnerStages /\ "compacting" \notin InFlight
      /\ "compacting" \in Holding
  BY DEF OwnerStages, InFlight, Holding
<1>4. Clock' /\ \A u \in Threads : pc'[u] \in Unapplied <=> pc[u] \in Unapplied
  BY <1>1, <1>2, <1>3, OwnerClock
<1>5. /\ pc'[o] = "compacting" /\ (\A u \in Owners \ {o} : pc'[u] = pc[u])
      /\ \A u \in Txns : pc'[u] = pc[u]
      /\ pc' \in [Threads -> TxnStages \cup OwnerStages]
      /\ \A u \in Txns : pc'[u] \in TxnStages
      /\ \A u \in Owners : pc'[u] \in OwnerStages
  BY <1>1, <1>3, OwnerGoto
<1>6. Types'
  <2>1. TypeOK'
    BY <1>1 DEF IInv, Types, TypeOK, Missed
  <2> QED BY <1>1, <1>5, <2>1 DEF IInv, Types
<1>7. Locked'
  <2>1. \A u \in Owners \ {o} : pc'[u] \notin Holding
    BY <1>2, <1>5
  <2>2. barrier = o /\ job[o] \in allowed
    BY <1>1, <1>2 DEF IInv, Locked
  <2>3. \A u \in Owners : pc'[u] \in Holding => tableLock' = u /\ job'[u] \in allowed'
            /\ (job'[u] = "checkpoint" => barrier' = u)
    BY <1>1, <1>2, <2>1, <2>2
  <2>4. barrier' # NoThread => \A t \in Txns : pc'[t] = "idle"
    BY <1>1, <1>5 DEF IInv, Locked
  <2> QED BY <1>1, <1>5, <2>1, <2>3, <2>4 DEF Locked, Holding
<1>8. Written' = Written /\ Live' = Live /\ Missed' = Missed
  BY <1>1 DEF Written, Live, Missed
<1>9. Placed'
  BY <1>1, <1>2, <1>4, <1>5, <1>8 DEF IInv, Placed
<1>10. Down' /\ Quiet'
  BY <1>1, <1>2 DEF IInv, Down, Quiet
<1>11. Known'
  <2>1. /\ durable \in Nat /\ visible \in Nat /\ manifest.current \in Nat
        /\ durable <= durable /\ visible <= visible
    BY DEF IInv, Types, TypeOK
  <2>2. \A u \in Owners : pc'[u] # "committed"
    BY <1>2, <1>5 DEF Holding
  <2> QED BY <1>1, <1>2, <1>5, <1>8, <2>1, <2>2, KnownStays
<1> QED BY <1>4, <1>6, <1>7, <1>9, <1>10, <1>11 DEF IInv

\* Markers and segments go: a step of an owner that is not in flight.
LEMMA CollectClock ==
  ASSUME IInv, NEW o \in Owners, NEW l \in OwnerStages, pc' = [pc EXCEPT ![o] = l],
         pc[o] \notin InFlight, l \notin InFlight, wal' \subseteq wal,
         rotated' \subseteq resolved, UNCHANGED <<mode, assigned, visible, resolved, epoch>>
  PROVE  Clock' /\ \A u \in Threads : pc'[u] \in Unapplied <=> pc[u] \in Unapplied
<1>1. \A u \in Threads : pc'[u] \in InFlight <=> pc[u] \in InFlight
  BY OwnerGoto
<1>2. Unapplied \subseteq InFlight
  BY DEF Unapplied, InFlight
<1>3. \A u \in Threads : pc'[u] \in Unapplied <=> pc[u] \in Unapplied
  BY <1>2, OwnerGoto
<1> QED BY <1>1, <1>3 DEF IInv, Clock

\* A checkpoint empties the WAL: every commit is in a run.
LEMMA CheckpointResetKeeps ==
  ASSUME IInv, NEW o \in Owners, CheckpointReset(o)
  PROVE  IInv'
<1>1. /\ pc[o] = "resetting"
      /\ wal' = {} /\ durable' = assigned /\ rotated' = {}
      /\ pc' = [pc EXCEPT ![o] = "manifesting"]
      /\ UNCHANGED <<allowed, mode, assigned, visible, resolved,
                     manifest, memtable, tier, runs, flushed, staged, tableLock,
                     commitLock, barrier, job, epoch, acked, overtaken, dropped, faults>>
  BY DEF CheckpointReset, Goto, authority, table, locks
<1>2. /\ mode = "open" /\ pc[o] \in Holding /\ pc[o] \notin InFlight /\ tableLock = o
      /\ \A u \in Owners \ {o} : pc[u] \notin Holding
  BY <1>1, OneHolder DEF Holding, InFlight
<1>3. /\ "manifesting" \in OwnerStages /\ "manifesting" \notin InFlight
      /\ "manifesting" \in Holding
  BY DEF OwnerStages, InFlight, Holding
<1>4. Clock' /\ \A u \in Threads : pc'[u] \in Unapplied <=> pc[u] \in Unapplied
  BY <1>1, <1>2, <1>3, CollectClock
<1>5. /\ pc'[o] = "manifesting" /\ (\A u \in Owners \ {o} : pc'[u] = pc[u])
      /\ \A u \in Txns : pc'[u] = pc[u]
      /\ pc' \in [Threads -> TxnStages \cup OwnerStages]
      /\ \A u \in Txns : pc'[u] \in TxnStages
      /\ \A u \in Owners : pc'[u] \in OwnerStages
  BY <1>1, <1>3, OwnerGoto
<1>6. Types'
  <2>1. TypeOK'
    BY <1>1 DEF IInv, Types, TypeOK, Missed
  <2> QED BY <1>1, <1>5, <2>1 DEF IInv, Types
<1>7. /\ job[o] = "checkpoint" /\ job[o] \in allowed /\ barrier = o
      /\ memtable = {} /\ tier = {}
  BY <1>1, <1>2 DEF IInv, Locked
<1>8. \A u \in Txns : pc'[u] = "idle"
  BY <1>5, <1>7, RecoveryAssumptions DEF IInv, Locked
<1>9. Locked'
  <2>1. \A u \in Owners \ {o} : pc'[u] \notin Holding
    BY <1>2, <1>5
  <2>2. \A u \in Owners : pc'[u] \in Holding => tableLock' = u /\ job'[u] \in allowed'
            /\ (job'[u] = "checkpoint" => barrier' = u)
    BY <1>1, <1>2, <1>7, <2>1
  <2> QED BY <1>1, <1>5, <1>7, <1>8, <2>1, <2>2 DEF Locked, Holding
<1>10. Written' = {} /\ Live' = Live /\ Missed' = Missed
  BY <1>1 DEF Written, Live, Missed
<1>11. Placed'
  BY <1>1, <1>2, <1>7, <1>8, <1>10 DEF IInv, Placed
<1>12. Down' /\ Quiet'
  BY <1>1, <1>2 DEF IInv, Down, Quiet
<1>13. Known'
  <2>1. /\ durable \in Nat /\ visible \in Nat /\ manifest.current \in Nat
        /\ assigned \in Nat /\ visible <= visible
    BY DEF IInv, Types, TypeOK
  <2>2. \A u \in Owners : pc'[u] # "committed"
    BY <1>2, <1>5 DEF Holding
  <2>3. \A e \in acked : Reached(e) => Reached(e)'
    BY <1>1, <1>7, <2>1 DEF Reached
  <2> QED BY <1>1, <1>2, <1>8, <2>2, <2>3 DEF IInv, Known
<1> QED BY <1>4, <1>6, <1>9, <1>11, <1>12, <1>13 DEF IInv

\* The reset fails with some of the old segments left behind.
LEMMA CheckpointResetFailsKeeps ==
  ASSUME IInv, NEW o \in Owners, CheckpointResetFails(o)
  PROVE  IInv'
<1>1. /\ pc[o] = "resetting" /\ wal' \subseteq wal
      /\ durable' = assigned /\ rotated' = {w.epoch : w \in wal'}
      /\ Finish(o) /\ faults > 0 /\ faults' = faults - 1
      /\ UNCHANGED <<allowed, mode, assigned, visible, resolved,
                     manifest, memtable, tier, runs, flushed, staged,
                     commitLock, job, epoch, acked, overtaken, dropped>>
  BY DEF CheckpointResetFails, Fault, authority, table
<1>2. /\ mode = "open" /\ pc[o] \in Holding /\ pc[o] \notin InFlight
      /\ job[o] = "checkpoint" /\ memtable = {} /\ tier = {}
      /\ pc' = [pc EXCEPT ![o] = "idle"]
  BY <1>1, OneHolder DEF Holding, InFlight, IInv, Locked, Finish, Goto
<1>3. /\ \A e \in 1..assigned : e \in resolved
      /\ Written \ Missed \subseteq Live
      /\ \A u \in Threads : pc[u] \notin InFlight
  BY <1>1, <1>2, BehindBarrier
<1>4. /\ \A w \in wal : w.epoch \in Epochs /\ w.epoch <= assigned /\ w.epoch \in 1..assigned
      /\ assigned \in Nat
  BY RecoveryAssumptions DEF IInv, Types, TypeOK, Clock, Epochs
<1>5. rotated' \subseteq resolved /\ rotated' \subseteq Epochs
  BY <1>1, <1>3, <1>4
<1>6. "idle" \in OwnerStages /\ "idle" \notin InFlight
  BY DEF OwnerStages, InFlight
<1>7. Clock' /\ \A u \in Threads : pc'[u] \in Unapplied <=> pc[u] \in Unapplied
  BY <1>1, <1>2, <1>5, <1>6, CollectClock
<1>8. /\ \A u \in Txns : pc'[u] = pc[u] /\ u \in Threads
      /\ pc' \in [Threads -> TxnStages \cup OwnerStages]
      /\ \A u \in Txns : pc'[u] \in TxnStages
      /\ \A u \in Owners : pc'[u] \in OwnerStages
  BY <1>2, <1>6, OwnerGoto
<1>9. \A u \in Owners : pc'[u] \notin Holding
  BY <1>1, <1>2, FinishFrees
<1>10. /\ tableLock' = NoThread /\ barrier' \in {barrier, NoThread}
  BY <1>1 DEF Finish
<1>11. Types'
  <2>1. faults' \in 0..MaxFaults
    BY <1>1, RecoveryAssumptions DEF IInv, Types, TypeOK
  <2>2. /\ {tableLock', commitLock', barrier'} \subseteq Owners \cup {NoThread}
        /\ wal' \subseteq [epoch : Epochs, kind : Kinds]
    BY <1>1, <1>10 DEF IInv, Types, TypeOK
  <2>3. TypeOK'
    BY <1>1, <1>5, <2>1, <2>2 DEF IInv, Types, TypeOK, Missed
  <2> QED BY <1>1, <1>8, <2>3 DEF IInv, Types
<1>12. Locked'
  <2>1. barrier' # NoThread => \A t \in Txns : pc'[t] = "idle"
    BY <1>8, <1>10 DEF IInv, Locked
  <2> QED BY <1>1, <1>2, <1>9, <2>1 DEF Locked, Holding
<1>13. /\ Written' \subseteq Written /\ Live' = Live /\ Missed' = Missed
  BY <1>1 DEF Written, Live, Missed
<1>14. \A t \in Txns : pc[t] = "idle"
  BY <1>3, <1>8 DEF IInv, Types, TxnStages, InFlight
<1>15. Placed'
  BY <1>1, <1>2, <1>3, <1>8, <1>13, <1>14 DEF IInv, Placed
<1>16. Down' /\ Quiet'
  BY <1>1, <1>2 DEF IInv, Down, Quiet
<1>17. Known'
  <2>1. \A e \in acked : Reached(e) => Reached(e)'
    BY <1>1, <1>2 DEF Reached
  <2>2. \A u \in Owners : pc'[u] # "committed"
    BY <1>9 DEF Holding
  <2> QED BY <1>1, <1>2, <1>8, <1>14, <2>1, <2>2 DEF IInv, Known
<1> QED BY <1>7, <1>11, <1>12, <1>15, <1>16, <1>17 DEF IInv

\* The manifest is written at the visible epoch, and the checkpoint returns.
LEMMA CheckpointManifestKeeps ==
  ASSUME IInv, NEW o \in Owners, CheckpointManifest(o)
  PROVE  IInv'
<1>1. /\ pc[o] = "manifesting" /\ Finish(o)
      /\ manifest' = [current |-> visible, flushed |-> flushed, runs |-> runs]
      /\ UNCHANGED <<allowed, mode, assigned, visible, resolved, wal, durable, rotated,
                     memtable, tier, runs, flushed, staged, commitLock, job,
                     epoch, acked, overtaken, faults>>
      /\ dropped' = dropped \ RowsOf(runs)
  BY DEF CheckpointManifest, Manifest, authority, table
<1>2. /\ mode = "open" /\ pc[o] \in Holding /\ pc[o] \notin InFlight
  BY <1>1, OneHolder DEF Holding, InFlight
<1>3. Locked'
  BY <1>1, <1>2, FinishLocked
<1>4. /\ Clock' /\ \A u \in Threads : pc'[u] \in Unapplied <=> pc[u] \in Unapplied
      /\ \A u \in Txns : pc'[u] = pc[u]
      /\ pc' \in [Threads -> TxnStages \cup OwnerStages]
      /\ \A u \in Txns : pc'[u] \in TxnStages
      /\ \A u \in Owners : pc'[u] \in OwnerStages
      /\ {tableLock', barrier'} \subseteq Owners \cup {NoThread}
  BY <1>1, <1>2, FinishClock
<1>5. visible \in 0..MaxEpoch /\ flushed \in 0..MaxEpoch /\ runs \subseteq RunSet
  BY RecoveryAssumptions DEF IInv, Types, TypeOK
<1>6. /\ manifest'.current = visible /\ manifest'.flushed = flushed /\ manifest'.runs = runs
      /\ manifest' \in Manifests
  BY <1>1, <1>5 DEF Manifests
<1>7. Types'
  <2>1. TypeOK'
    BY <1>1, <1>4, <1>5, <1>6 DEF IInv, Types, TypeOK, Missed
  <2> QED BY <1>1, <1>4, <1>6, <2>1 DEF IInv, Types
<1>8. /\ Written' = Written /\ Live' = Live
      /\ RowsOf(runs) \subseteq Live /\ Missed \subseteq Missed' \cup RowsOf(runs)
  BY <1>1 DEF Written, Live, Missed
<1>9. Placed'
  <2>1. /\ acked \ Missed' \subseteq Live
        /\ \A e \in Written \ Missed' :
             e \in Live \/ \E u \in Threads : pc'[u] \in Unapplied /\ epoch[u] = e
    BY <1>2, <1>4, <1>8 DEF IInv, Placed
  <2>2. \A e \in (memtable \cup tier) \ Missed' :
             e \in RowsOf(runs) \/ (e \in Written /\ e <= durable /\ e > flushed)
    BY <1>2, <1>8 DEF IInv, Placed
  <2>3. \A t \in Txns :
             /\ pc'[t] # "idle" => epoch[t] \in Written
             /\ pc'[t] = "appended" /\ epoch[t] \notin Missed' =>
                  epoch[t] > flushed \/ epoch[t] \in RowsOf(runs)
    BY <1>2, <1>4, <1>8 DEF IInv, Placed
  <2>4. flushed <= flushed /\ flushed <= assigned
    BY <1>2, <1>5 DEF IInv, Placed
  <2> QED BY <1>1, <1>6, <1>8, <2>1, <2>2, <2>3, <2>4 DEF Placed
<1>10. Quiet'
  <2> SUFFICES ASSUME "flush" \notin allowed PROVE Quiet'
    BY <1>1 DEF Quiet
  <2>1. flushed <= visible /\ \A r \in runs : r.created <= visible
    BY <1>2 DEF IInv, Quiet
  <2>2. Accepted(manifest)'
    BY <1>6, <2>1 DEF Accepted
  <2>3. \A r \in manifest'.runs : \A e \in r.rows : e <= r.created
    BY <1>2, <1>6 DEF IInv, Quiet
  <2> QED BY <1>1, <2>2, <2>3 DEF IInv, Quiet
<1>11. Down'
  BY <1>1, <1>2 DEF Down
<1>12. Known'
  <2>1. /\ durable \in Nat /\ visible \in Nat /\ manifest'.current \in Nat
        /\ durable <= durable /\ visible <= visible /\ visible <= manifest'.current
    BY <1>5, <1>6 DEF IInv, Types, TypeOK
  <2>2. \A u \in Owners : pc'[u] # "committed"
    BY <1>1, <1>2, FinishFrees DEF Holding
  <2> QED BY <1>1, <1>2, <1>4, <1>8, <2>1, <2>2, KnownStays
<1> QED BY <1>3, <1>4, <1>7, <1>9, <1>10, <1>11, <1>12 DEF IInv

\* Database::gc finds nothing in memory.
LEMMA GcCheckKeeps ==
  ASSUME IInv, NEW o \in Owners, GcCheck(o)
  PROVE  IInv'
<1>1. /\ mode = "open" /\ pc[o] = "idle" /\ tableLock = NoThread
      /\ memtable = {} /\ tier = {}
      /\ pc' = [pc EXCEPT ![o] = "reaping"]
      /\ UNCHANGED <<allowed, mode, assigned, visible, resolved, wal, durable, rotated,
                     manifest, memtable, tier, runs, flushed, staged, tableLock,
                     commitLock, barrier, job, epoch, acked, overtaken, dropped, faults>>
  BY DEF GcCheck, Goto, authority, disk, table, locks
<1>2. pc[o] \notin InFlight /\ "reaping" \in OwnerStages /\ "reaping" \notin InFlight
  BY <1>1 DEF OwnerStages, InFlight
<1>3. Clock' /\ \A u \in Threads : pc'[u] \in Unapplied <=> pc[u] \in Unapplied
  BY <1>1, <1>2, OwnerClock
<1>4. /\ pc'[o] = "reaping" /\ (\A u \in Owners \ {o} : pc'[u] = pc[u])
      /\ \A u \in Txns : pc'[u] = pc[u]
      /\ pc' \in [Threads -> TxnStages \cup OwnerStages]
      /\ \A u \in Txns : pc'[u] \in TxnStages
      /\ \A u \in Owners : pc'[u] \in OwnerStages
  BY <1>1, <1>2, OwnerGoto
<1>5. Types'
  <2>1. TypeOK'
    BY <1>1 DEF IInv, Types, TypeOK, Missed
  <2> QED BY <1>1, <1>4, <2>1 DEF IInv, Types
<1>6. Locked'
  <2>1. \A u \in Owners : pc'[u] \notin Holding
    BY <1>1, <1>4, FreeTable DEF Holding
  <2>2. barrier' # NoThread => \A t \in Txns : pc'[t] = "idle"
    BY <1>1, <1>4 DEF IInv, Locked
  <2> QED BY <1>1, <2>1, <2>2 DEF Locked, Holding
<1>7. Written' = Written /\ Live' = Live /\ Missed' = Missed
  BY <1>1 DEF Written, Live, Missed
<1>8. Placed'
  BY <1>1, <1>3, <1>4, <1>7 DEF IInv, Placed
<1>9. Down' /\ Quiet'
  BY <1>1 DEF IInv, Down, Quiet
<1>10. Known'
  <2>1. /\ durable \in Nat /\ visible \in Nat /\ manifest.current \in Nat
        /\ durable <= durable /\ visible <= visible
    BY DEF IInv, Types, TypeOK
  <2>2. \A u \in Owners : pc'[u] # "committed"
    BY <1>1, <1>4, FreeTable DEF Holding
  <2> QED BY <1>1, <1>4, <1>7, <2>1, <2>2, KnownStays
<1> QED BY <1>3, <1>5, <1>6, <1>8, <1>9, <1>10 DEF IInv

\* Segments go, all or some: they hold no commit in flight and no row in memory.
LEMMA ReapKeeps ==
  ASSUME IInv, NEW o \in Owners, pc[o] = "reaping",
         wal' \subseteq wal, \A w \in wal : w.epoch \notin rotated => w \in wal',
         rotated' \subseteq rotated, durable' = assigned, faults' \in 0..MaxFaults,
         pc' = [pc EXCEPT ![o] = "idle"],
         UNCHANGED <<allowed, mode, authority, manifest, table, locks, job, epoch,
                     acked, overtaken, dropped>>
  PROVE  IInv'
<1>1. /\ pc[o] = "reaping" /\ wal' \subseteq wal /\ rotated' \subseteq rotated
      /\ \A w \in wal : w.epoch \notin rotated => w \in wal'
      /\ durable' = assigned /\ faults' \in 0..MaxFaults
      /\ pc' = [pc EXCEPT ![o] = "idle"]
      /\ UNCHANGED <<allowed, mode, assigned, visible, resolved,
                     manifest, memtable, tier, runs, flushed, staged, tableLock,
                     commitLock, barrier, job, epoch, acked, overtaken, dropped>>
  BY DEF authority, table, locks
<1>2. /\ mode = "open" /\ pc[o] \notin InFlight /\ "idle" \in OwnerStages
      /\ "idle" \notin InFlight
  BY <1>1, BusyIsOpen DEF Threads, OwnerStages, InFlight
<1>3. Clock' /\ \A u \in Threads : pc'[u] \in Unapplied <=> pc[u] \in Unapplied
  <2>1. rotated' \subseteq resolved
    BY <1>1 DEF IInv, Clock
  <2> QED BY <1>1, <1>2, <2>1, CollectClock
<1>4. /\ pc'[o] = "idle" /\ (\A u \in Owners \ {o} : pc'[u] = pc[u])
      /\ \A u \in Txns : pc'[u] = pc[u]
      /\ pc' \in [Threads -> TxnStages \cup OwnerStages]
      /\ \A u \in Txns : pc'[u] \in TxnStages
      /\ \A u \in Owners : pc'[u] \in OwnerStages
  BY <1>1, <1>2, OwnerGoto
<1>5. Types'
  <2>1. TypeOK'
    BY <1>1 DEF IInv, Types, TypeOK, Missed
  <2> QED BY <1>1, <1>4, <2>1 DEF IInv, Types
<1>6. /\ Written \ rotated \subseteq Written' /\ Written' \subseteq Written
      /\ Live' = Live /\ Missed' = Missed
  <2>1. \A e : e \in Written <=> \E w \in wal : w.epoch = e /\ w.kind = "rows"
    BY DEF Written
  <2>2. \A e : e \in Written' <=> \E w \in wal' : w.epoch = e /\ w.kind = "rows"
    BY DEF Written
  <2>3. \A e : e \in Written' => e \in Written
    BY <1>1, <2>1, <2>2
  <2>4. \A e : e \in Written /\ e \notin rotated => e \in Written'
    BY <1>1, <2>1, <2>2
  <2>5. Live' = Live
    BY <1>1 DEF Live
  <2>6. Missed' = Missed
    BY <1>1 DEF Missed
  <2> QED BY <2>3, <2>4, <2>5, <2>6
<1>7. \A u \in Threads : pc[u] \in InFlight => epoch[u] \notin rotated
  BY DEF IInv, Clock
<1>8. Locked'
  <2>1. \A u \in Owners : pc'[u] = pc[u] \/ pc'[u] = "idle"
    BY <1>4
  <2>2. \A u \in Owners : pc'[u] \in Holding => tableLock' = u /\ job'[u] \in allowed'
            /\ (job'[u] = "checkpoint" => barrier' = u)
    BY <1>1, <2>1 DEF IInv, Locked, Holding
  <2>3. barrier' # NoThread => \A t \in Txns : pc'[t] = "idle"
    BY <1>1, <1>4 DEF IInv, Locked
  <2>4. \A u \in Owners : pc'[u] = "sealed" =>
          (epoch[u] \in Written' <=> staged) /\ epoch[u] > flushed
    BY <1>6, <1>7, <2>1 DEF IInv, Locked, InFlight, Threads
  <2>5. ASSUME NEW u \in Owners
        PROVE /\ pc'[u] = "compacting" => job[u] \in {"compact", "checkpoint"}
              /\ pc'[u] \in {"resetting", "manifesting"} => job[u] = "checkpoint"
              /\ /\ pc'[u] \in {"compacting", "resetting", "manifesting"}
                 /\ job[u] = "checkpoint"
                 => memtable = {} /\ tier = {}
              /\ pc'[u] = "committed" => epoch[u] \in resolved /\ epoch[u] > flushed
              /\ pc'[u] \in {"sealed", "committed"} /\ job[u] = "checkpoint"
                   => epoch[u] = assigned
              /\ pc'[u] = "reaping" => (memtable \cup tier) \cap rotated' = {}
    BY <1>1, <2>1 DEF IInv, Locked
  <2> QED BY <1>1, <2>2, <2>3, <2>4, <2>5 DEF Locked
<1>9. Placed'
  <2>1. \A e \in (memtable \cup tier) \ Missed :
             e \in RowsOf(runs) \/ (e \in Written' /\ e <= durable' /\ e > flushed)
    <3>1. (memtable \cup tier) \cap rotated = {}
      BY <1>1 DEF IInv, Locked
    <3>2. \A e \in Written : e <= assigned
      BY WrittenFacts DEF IInv, Clock
    <3> QED BY <1>1, <1>2, <1>6, <3>1, <3>2 DEF IInv, Placed
  <2>2. \A t \in Txns : pc[t] # "idle" => epoch[t] \in Written'
    <3>1. \A t \in Txns : t \in Threads /\ (pc[t] # "idle" => pc[t] \in InFlight)
      BY DEF IInv, Types, TxnStages, InFlight, Threads
    <3> QED BY <1>2, <1>6, <1>7, <3>1 DEF IInv, Placed
  <2> QED BY <1>1, <1>2, <1>3, <1>4, <1>6, <2>1, <2>2 DEF IInv, Placed
<1>10. Down' /\ Quiet'
  BY <1>1, <1>2 DEF IInv, Down, Quiet
<1>11. Known'
  <2>1. /\ durable \in Nat /\ visible \in Nat /\ manifest.current \in Nat
        /\ assigned \in Nat /\ visible <= visible
    BY DEF IInv, Types, TypeOK
  <2>2. (memtable \cup tier) \cap rotated = {} /\ \A e \in Written : e <= assigned
    BY <1>1, WrittenFacts DEF IInv, Locked, Clock
  <2>3. \A e : Reached(e) => Reached(e)'
    BY <1>1, <1>6, <2>2 DEF Reached
  <2>4. ASSUME "flush" \notin allowed, NEW t \in Txns, pc[t] \in {"applied", "persisted"}
        PROVE  epoch[t] \in memtable /\ epoch[t] <= assigned
    BY <1>2, <2>2, <2>4 DEF IInv, Known, Placed
  <2>5. \A u \in Owners : pc'[u] = "committed" => pc[u] = "committed"
    BY <1>4
  <2>6. ASSUME "flush" \notin allowed, NEW u \in Owners, pc[u] = "committed"
        PROVE  /\ epoch'[u] \in Written' => Reached(epoch[u])'
               /\ job[u] = "checkpoint" => manifest.current = assigned
    <3>1. PICK e : e = epoch[u]
      OBVIOUS
    <3>2. e \in Written => Reached(e)'
      BY <1>2, <2>3, <2>6, <3>1 DEF IInv, Known
    <3>3. epoch'[u] = e
      BY <1>1, <3>1
    <3> QED BY <1>2, <1>6, <2>6, <3>2, <3>3 DEF IInv, Known, Reached
  <2> QED BY <1>1, <1>2, <1>4, <2>3, <2>4, <2>5, <2>6 DEF IInv, Known
<1> QED BY <1>3, <1>5, <1>8, <1>9, <1>10, <1>11 DEF IInv

\* Database::gc deletes the segments that are not active, or fails half-way.
LEMMA GcReapKeeps ==
  ASSUME IInv, NEW o \in Owners, GcReap(o) \/ GcReapFails(o)
  PROVE  IInv'
<1>1. faults \in 0..MaxFaults /\ MaxFaults \in Nat
  BY RecoveryAssumptions DEF IInv, Types, TypeOK
<1>2. /\ pc[o] = "reaping" /\ wal' \subseteq wal
      /\ \A w \in wal : w.epoch \notin rotated => w \in wal'
      /\ rotated' \subseteq rotated /\ durable' = assigned /\ faults' \in 0..MaxFaults
      /\ pc' = [pc EXCEPT ![o] = "idle"]
      /\ UNCHANGED <<allowed, mode, authority, manifest, table, locks, job, epoch,
                     acked, overtaken, dropped>>
  <2>1. CASE GcReap(o)
    BY <1>1, <2>1 DEF GcReap, Goto
  <2>2. CASE GcReapFails(o)
    BY <1>1, <2>2 DEF GcReapFails, Goto, Fault
  <2> QED BY <2>1, <2>2
<1> QED BY <1>2, ReapKeeps

-----------------------------------------------------------------------------
(* Crash and recovery *)

\* What is in the open table would be brought back, unless it was overtaken.
LEMMA LiveIsRecoverable ==
  ASSUME IInv, mode = "open"
  PROVE  Live \ Missed \subseteq Recoverable
<1>1. flushed \in Nat /\ manifest.flushed \in Nat /\ memtable \cup tier \subseteq Nat
  BY DEF IInv, Types, TypeOK, Epochs
<1>2. RowsOf(runs) \ Missed \subseteq RowsOf(manifest.runs) /\ manifest.flushed <= flushed
  BY DEF IInv, Placed, Missed
<1>3. \A e \in (memtable \cup tier) \ Missed :
        e \in RowsOf(runs) \/ (e \in Written /\ e <= durable /\ e > manifest.flushed)
  BY <1>1, <1>2 DEF IInv, Placed
<1> QED BY <1>2, <1>3 DEF Live, Recoverable

\* What is durable and past the table's gate is past the manifest's.
LEMMA PastGate ==
  ASSUME IInv, mode = "open", NEW e \in Written, e <= durable, e > flushed
  PROVE  e \in Recoverable
<1>1. flushed \in Nat /\ manifest.flushed \in Nat /\ manifest.flushed <= flushed
  BY DEF IInv, Types, TypeOK, Placed
<1>2. e \in Nat
  BY WrittenFacts DEF IInv, Types, TypeOK, Epochs
<1> QED BY <1>1, <1>2 DEF Recoverable

\* The process dies: what a durable marker stands for is past the gate, in a
\* run, or was overtaken.
LEMMA CrashKeeps ==
  ASSUME IInv, Crash
  PROVE  IInv'
<1>1. /\ mode = "open" /\ mode' = "down"
      /\ wal' = {w \in wal : w.epoch <= durable}
      /\ memtable' = {} /\ tier' = {} /\ runs' = {} /\ flushed' = 0 /\ staged' = FALSE
      /\ tableLock' = NoThread /\ commitLock' = NoThread /\ barrier' = NoThread
      /\ pc' = [t \in Threads |-> "idle"]
      /\ UNCHANGED <<allowed, rotated, assigned, visible, resolved, durable, manifest,
                     job, epoch, acked, overtaken, dropped, faults>>
  BY DEF Crash, authority
<1>2. /\ \A t \in Threads : pc'[t] = "idle"
      /\ \A t \in Txns : t \in Threads
      /\ \A o \in Owners : o \in Threads
  BY <1>1 DEF Threads
<1>3. Types'
  <2>1. /\ staged' \in BOOLEAN
        /\ {tableLock', commitLock', barrier'} \subseteq Owners \cup {NoThread}
    BY <1>1
  <2>4. flushed' \in 0..MaxEpoch
    BY <1>1, RecoveryAssumptions
  <2>2. TypeOK'
    BY <1>1, <2>1, <2>4 DEF IInv, Types, TypeOK, Missed
  <2>3. pc' \in [Threads -> TxnStages \cup OwnerStages]
    BY <1>1 DEF TxnStages
  <2> QED BY <1>1, <1>2, <2>2, <2>3 DEF IInv, Types, TxnStages, OwnerStages
<1>4. Clock'
  BY <1>1, <1>2 DEF IInv, Clock, InFlight
<1>5. Locked'
  BY <1>1, <1>2 DEF Locked, Holding
<1>6. Written' = {e \in Written : e <= durable}
  <2>1. \A e : e \in Written <=> \E w \in wal : w.epoch = e /\ w.kind = "rows"
    BY DEF Written
  <2>2. \A e : e \in Written' <=> \E w \in wal' : w.epoch = e /\ w.kind = "rows"
    BY DEF Written
  <2>3. \A e : e \in Written' <=> e \in Written /\ e <= durable
    BY <1>1, <2>1, <2>2
  <2> QED BY <2>3
<1>7. Recoverable' = Recoverable /\ Missed' = Missed
  BY <1>1, <1>6 DEF Recoverable, Missed
<1>8. Written' \ Missed \subseteq Recoverable
  <2> SUFFICES ASSUME NEW e \in Written, e <= durable, e \notin Missed
               PROVE  e \in Recoverable
    BY <1>6
  <2>1. CASE e \in Live
    BY <1>1, <2>1, LiveIsRecoverable
  <2>2. CASE e \notin Live
    <3>1. PICK t \in Threads : pc[t] \in Unapplied /\ epoch[t] = e
      BY <1>1, <2>2 DEF IInv, Placed
    <3>2. CASE t \in Txns
      <4>1. pc[t] = "appended"
        BY <3>1, <3>2 DEF IInv, Types, TxnStages, Unapplied
      <4>2. epoch[t] > flushed \/ epoch[t] \in RowsOf(runs)
        BY <1>1, <3>1, <3>2, <4>1 DEF IInv, Placed
      <4>3. epoch[t] \notin RowsOf(runs)
        BY <2>2, <3>1 DEF Live
      <4> QED BY <1>1, <3>1, <4>2, <4>3, PastGate
    <3>3. CASE t \in Owners
      <4>1. pc[t] = "sealed"
        BY <3>1, <3>3 DEF IInv, Types, OwnerStages, Unapplied
      <4>2. epoch[t] > flushed
        BY <3>3, <4>1 DEF IInv, Locked
      <4> QED BY <1>1, <3>1, <4>2, PastGate
    <3> QED BY <3>2, <3>3 DEF Threads
  <2> QED BY <2>1, <2>2
<1>9. acked \ Missed \subseteq Recoverable
  BY <1>1, LiveIsRecoverable DEF IInv, Placed
<1>10. Placed' /\ Down'
  BY <1>1, <1>2, <1>7, <1>8, <1>9 DEF Placed, Down
<1>11. Quiet'
  BY <1>1 DEF IInv, Quiet
<1>12. Known'
  BY <1>1, <1>6 DEF IInv, Known, Reached
<1> QED BY <1>3, <1>4, <1>5, <1>10, <1>11, <1>12 DEF IInv

\* Database::open refuses the manifest.
LEMMA OpenRefusedKeeps ==
  ASSUME IInv, OpenRefused
  PROVE  IInv'
<1>1. /\ mode = "down" /\ mode' = "refused"
      /\ UNCHANGED <<allowed, assigned, visible, resolved, wal, durable, rotated,
                     manifest, memtable, tier, runs, flushed, staged, tableLock,
                     commitLock, barrier, pc, job, epoch, acked, overtaken, dropped, faults>>
  BY DEF OpenRefused, authority, disk, table, locks
<1>2. Written' = Written /\ Recoverable' = Recoverable /\ Missed' = Missed
  BY <1>1 DEF Written, Recoverable, Missed
<1>3. Types'
  BY <1>1, <1>2 DEF IInv, Types, TypeOK
<1>4. Clock' /\ Locked'
  BY <1>1, <1>2 DEF IInv, Clock, Locked
<1>5. Placed' /\ Down' /\ Quiet' /\ Known'
  BY <1>1, <1>2 DEF IInv, Placed, Down, Quiet, Known
<1> QED BY <1>3, <1>4, <1>5 DEF IInv

\* Database::open replays the WAL past the gate, and raises the authority over
\* every epoch the manifest and the WAL know of.
LEMMA OpenKeeps ==
  ASSUME IInv, Open
  PROVE  IInv'
<1>1. PICK last : last = RecoveredEpoch
  OBVIOUS
<1>2. PICK replay : replay = {e \in Written : e > manifest.flushed}
  OBVIOUS
<1>3. /\ mode = "down" /\ Accepted(manifest) /\ mode' = "open"
      /\ memtable' = replay /\ dropped' = dropped \ replay
      /\ manifest' = [manifest EXCEPT !.current = MaxOf({manifest.current} \cup replay)]
      /\ runs' = manifest.runs /\ flushed' = manifest.flushed
      /\ assigned' = last /\ visible' = last /\ resolved' = 1..last
      /\ durable' = last /\ rotated' = {w.epoch : w \in wal}
      /\ UNCHANGED <<allowed, wal, tier, staged, tableLock, commitLock, barrier, pc, job,
                     epoch, acked, overtaken, faults>>
  BY <1>1, <1>2 DEF Open, Recover, locks
<1>4. /\ manifest.current \in 0..MaxEpoch /\ manifest.flushed \in 0..MaxEpoch
      /\ manifest.runs \subseteq RunSet /\ manifest \in Manifests
      /\ wal \subseteq [epoch : Epochs, kind : Kinds] /\ MaxEpoch \in Nat
      /\ Epochs \subseteq 0..MaxEpoch
  BY RecoveryAssumptions DEF IInv, Types, TypeOK, Epochs
<1>5. PICK known : known = {manifest.current} \cup {w.epoch : w \in wal}
  OBVIOUS
<1>6. /\ known \subseteq Nat /\ known # {} /\ \A n \in known : n <= MaxEpoch
      /\ \A w \in wal : w.epoch \in known /\ w.epoch \in Epochs
      /\ manifest.current \in known
  <2>1. \A w \in wal : w.epoch \in known /\ w.epoch \in Epochs
    BY <1>4, <1>5
  <2>2. \A n \in known : n = manifest.current \/ \E w \in wal : n = w.epoch
    BY <1>5
  <2>3. \A n \in known : n \in 0..MaxEpoch
    BY <1>4, <2>1, <2>2
  <2>4. known \subseteq Nat /\ \A n \in known : n <= MaxEpoch
    BY <1>4, <2>3
  <2> QED BY <1>5, <2>1, <2>4
<1>7. last \in known /\ \A n \in known : n <= last
  <2>1. MaxOf(known) \in known /\ \A n \in known : n <= MaxOf(known)
    BY <1>4, <1>6, MaxOfFacts
  <2>2. last = MaxOf(known)
    BY <1>1, <1>5 DEF RecoveredEpoch
  <2> QED BY <2>1, <2>2
<1>8. last \in 0..MaxEpoch /\ manifest.current <= last /\ \A w \in wal : w.epoch <= last
  <2>1. last \in Nat /\ last <= MaxEpoch
    BY <1>6, <1>7
  <2>2. last \in 0..MaxEpoch
    BY <2>1, RecoveryAssumptions
  <2>3. manifest.current <= last
    BY <1>6, <1>7
  <2>4. \A w \in wal : w.epoch <= last
    BY <1>6, <1>7
  <2> QED BY <2>2, <2>3, <2>4
<1>9. \A e \in Written : e \in Epochs /\ e <= last /\ e \in Nat
  BY <1>6, <1>7, WrittenFacts
<1>10. PICK c : c = MaxOf({manifest.current} \cup replay)
  OBVIOUS
<1>11. c \in 0..MaxEpoch /\ manifest.current <= c
  <2>1. PICK S : S = {manifest.current} \cup replay
    OBVIOUS
  <2>2. S \subseteq 0..MaxEpoch /\ manifest.current \in S
    BY <1>2, <1>4, <1>9, <2>1
  <2>3. S \subseteq Nat /\ S # {} /\ \A n \in S : n <= MaxEpoch
    BY <1>4, <2>2
  <2>4. MaxOf(S) \in S /\ \A n \in S : n <= MaxOf(S)
    BY <1>4, <2>3, MaxOfFacts
  <2> QED BY <1>10, <2>1, <2>2, <2>4
<1>12. /\ manifest' \in Manifests /\ manifest'.current = c
       /\ manifest'.flushed = manifest.flushed /\ manifest'.runs = manifest.runs
  BY <1>3, <1>4, <1>10, <1>11 DEF Manifests
<1>13. /\ \A t \in Threads : pc[t] = "idle"
       /\ tier = {} /\ Written \ Missed \subseteq Recoverable
       /\ acked \ Missed \subseteq Recoverable
       /\ \A t \in Txns : t \in Threads
       /\ \A o \in Owners : o \in Threads
  BY <1>3 DEF IInv, Down, Threads
<1>14. Types'
  <2>1. assigned' \in 0..MaxEpoch /\ visible' \in 0..assigned' /\ resolved' \subseteq 1..assigned'
        /\ durable' \in 0..MaxEpoch
    BY <1>3, <1>8
  <2>2. rotated' \subseteq Epochs /\ memtable' \subseteq Epochs
    BY <1>2, <1>3, <1>6, <1>9
  <2>3. TypeOK'
    BY <1>3, <1>4, <1>11, <1>12, <2>1, <2>2 DEF IInv, Types, TypeOK, Missed
  <2> QED BY <1>3, <1>12, <2>3 DEF IInv, Types
<1>15. Clock'
  <2>1. \A e \in 1..visible' : e \in resolved'
    BY <1>3
  <2>2. (visible' + 1) \notin resolved'
    BY <1>3, <1>8
  <2>3. rotated' \subseteq resolved'
    <3>1. \A w \in wal : w.epoch \in 1..last
      BY <1>6, <1>8 DEF Epochs
    <3> QED BY <1>3, <3>1
  <2>4. \A e \in 1..assigned' : e \in resolved'
    BY <1>3
  <2> QED BY <1>3, <1>8, <1>13, <2>1, <2>2, <2>3, <2>4 DEF Clock, InFlight
<1>16. Locked'
  BY <1>3, <1>13 DEF Locked, Holding
<1>17. Written' = Written /\ Live' = replay \cup RowsOf(manifest.runs)
  BY <1>3, <1>13 DEF Written, Live
<1>18. Recoverable \subseteq Live'
  BY <1>2, <1>17 DEF Recoverable
<1>19. manifest.flushed <= last
  BY <1>3, <1>4, <1>8 DEF Accepted
<1>20. Placed'
  <2>1. \A e \in memtable' : e \in Written /\ e <= last /\ e > manifest.flushed
    BY <1>2, <1>3, <1>9
  <2>2. Missed \subseteq Missed' \cup Live'
    BY <1>3, <1>17 DEF Missed
  <2>3. acked \ Missed' \subseteq Live' /\ Written \ Missed' \subseteq Live'
    BY <1>13, <1>18, <2>2
  <2>4. manifest.flushed <= manifest.flushed
    BY <1>4
  <2> QED BY <1>3, <1>12, <1>13, <1>17, <1>19, <2>1, <2>3, <2>4 DEF Placed
<1>21. Quiet'
  <2> SUFFICES ASSUME "flush" \notin allowed PROVE Quiet'
    BY <1>3 DEF Quiet
  <2>1. overtaken = {} /\ \A r \in manifest.runs : \A e \in r.rows : e <= r.created
    BY DEF IInv, Quiet
  <2>2. /\ manifest.flushed <= manifest.current
        /\ \A r \in manifest.runs : r.created \in Nat /\ r.created <= manifest.current
        /\ \A r \in manifest.runs : r.rows \subseteq Nat
    BY <1>3, <1>4 DEF Accepted, RunSet, Epochs
  <2>3. Accepted(manifest)'
    <3>1. manifest.flushed <= c /\ \A r \in manifest.runs : r.created <= c
      BY <1>4, <1>11, <2>2
    <3> QED BY <1>12, <3>1 DEF Accepted
  <2>4. \A r \in manifest.runs : r.created <= last
    BY <1>4, <1>8, <2>2
  <2>5. \A e \in memtable' : e <= last
    BY <1>2, <1>3, <1>9
  <2> QED BY <1>3, <1>12, <1>13, <1>19, <2>1, <2>3, <2>4, <2>5 DEF Quiet
<1>22. Down'
  BY <1>3 DEF Down
<1>23. Known'
  <2> SUFFICES ASSUME "flush" \notin allowed PROVE Known'
    BY <1>3 DEF Known
  <2>1. ASSUME NEW e \in acked PROVE Reached(e)'
    <3>1. e \in Nat /\ (e \in Written \/ e <= manifest.current)
      BY <1>3 DEF IInv, Known, Types, TypeOK, Epochs
    <3>2. e <= last
      BY <1>4, <1>8, <1>9, <3>1
    <3>3. CASE e \in replay
      BY <1>2, <1>3, <1>17, <3>2, <3>3 DEF Reached
    <3>4. CASE e \notin replay
      <4>1. e <= manifest.current
        BY <1>2, <1>3, <1>4, <3>1, <3>4 DEF Accepted
      <4>2. e <= c
        BY <1>4, <1>11, <3>1, <4>1
      <4> QED BY <1>3, <1>12, <3>2, <4>2 DEF Reached
    <3> QED BY <3>3, <3>4
  <2> QED BY <1>3, <1>13, <2>1 DEF Known
<1> QED BY <1>14, <1>15, <1>16, <1>20, <1>21, <1>22, <1>23 DEF IInv

-----------------------------------------------------------------------------
(* The theorems *)

\* Every step keeps the invariant.
LEMMA NextIInv == IInv /\ [Next]_vars => IInv'
<1> SUFFICES ASSUME IInv, [Next]_vars PROVE IInv'
  OBVIOUS
<1>1. CASE GroupSync \/ StagePut \/ Crash \/ OpenRefused \/ Open
  BY <1>1, GroupSyncKeeps, StagePutKeeps, CrashKeeps, OpenRefusedKeeps, OpenKeeps
<1>2. ASSUME NEW t \in Txns,
             \/ TxnAppend(t) \/ TxnApply(t) \/ TxnPersist(t) \/ TxnPublish(t)
             \/ TxnFails(t)
      PROVE  IInv'
  BY <1>2, TxnAppendKeeps, TxnApplyKeeps, TxnPersistKeeps, TxnPublishKeeps,
     TxnFailsKeeps
<1>3. ASSUME NEW o \in Owners, NEW j \in allowed \ {"gc"}, Lock(o, j)
      PROVE  IInv'
  BY <1>3, LockKeeps
<1>4. ASSUME NEW o \in Owners,
             \/ Seal(o) \/ CommitShared(o) \/ ReturnCommit(o)
             \/ FlushDrain(o) \/ FlushSpill(o) \/ \E x \in FlushExits : FlushFails(o, x)
      PROVE  IInv'
  BY <1>4, SealKeeps, CommitSharedKeeps, ReturnCommitKeeps, FlushDrainKeeps,
     FlushSpillKeeps, FlushFailsKeeps
<1>5. ASSUME NEW o \in Owners,
             \/ Compact(o) \/ CompactFails(o) \/ CheckpointClean(o) \/ CheckpointReset(o)
             \/ CheckpointResetFails(o) \/ CheckpointManifest(o) \/ GiveUp(o)
             \/ GcCheck(o) \/ GcReap(o) \/ GcReapFails(o)
      PROVE  IInv'
  BY <1>5, CompactKeeps, CompactFailsKeeps, CheckpointCleanKeeps, CheckpointResetKeeps,
     CheckpointResetFailsKeeps, CheckpointManifestKeeps, GiveUpKeeps, GcCheckKeeps,
     GcReapKeeps
<1>6. CASE UNCHANGED vars
  <2>1. UNCHANGED <<mode, assigned, visible, resolved, wal, durable, rotated, manifest,
                    memtable, tier, runs, flushed, staged, tableLock, commitLock, barrier,
                    pc, job, epoch, acked, overtaken, dropped, faults, allowed>>
    BY <1>6 DEF vars
  <2>2. /\ Written' = Written /\ Live' = Live /\ Recoverable' = Recoverable
        /\ Missed' = Missed
    BY <2>1 DEF Written, Live, Recoverable, Missed
  <2>3. Types'
    BY <2>1, <2>2 DEF IInv, Types, TypeOK
  <2>4. Clock' /\ Locked' /\ Placed' /\ Down' /\ Quiet' /\ Known'
    BY <2>1, <2>2 DEF IInv, Clock, Locked, Placed, Down, Quiet, Known, Reached
  <2> QED BY <2>3, <2>4 DEF IInv
<1> QED BY <1>1, <1>2, <1>3, <1>4, <1>5, <1>6 DEF Next

\* The invariant holds in every reachable state, with any threads, jobs and
\* number of commits, crashes and reopenings.
THEOREM RecoveryInvariant == Spec => []IInv
BY InitIInv, NextIInv, PTL DEF Spec

\* TypeOK: the clock, the WAL, the manifest and the tiers keep their types.
THEOREM RecoveryTypes == Spec => []TypeOK
<1>1. IInv => TypeOK
  BY DEF IInv, Types
<1> QED BY <1>1, RecoveryInvariant, PTL

\* LostOnlyIfMissed: a crash, at whatever step of whatever threads and after
\* whatever failures, loses no acknowledged write other than those a flush's
\* replay gate overtook or a failed spill or manifest write left out.
THEOREM OnlyMissedLost == Spec => []LostOnlyIfMissed
<1>1. IInv => LostOnlyIfMissed
  <2> SUFFICES ASSUME IInv PROVE acked \ Missed \subseteq Recoverable
    BY DEF LostOnlyIfMissed
  <2>1. CASE mode = "open"
    BY <2>1, LiveIsRecoverable DEF IInv, Placed
  <2>2. CASE mode # "open"
    BY <2>2 DEF IInv, Down
  <2> QED BY <2>1, <2>2
<1> QED BY <1>1, RecoveryInvariant, PTL

\* VisibleRowsLive: a reader at the visible epoch finds every commit up to it.
THEOREM ReadersFindCommits == Spec => []VisibleRowsLive
<1>1. IInv => VisibleRowsLive
  <2> SUFFICES ASSUME IInv, mode = "open",
                      NEW e \in (Written \cup acked) \ Missed, e <= visible
               PROVE  e \in Live
    BY DEF VisibleRowsLive
  <2>1. CASE e \in acked
    BY <2>1 DEF IInv, Placed
  <2>2. CASE e \in Written
    <3>1. e \in Nat /\ e >= 1
      BY <2>2, WrittenFacts DEF IInv, Types, TypeOK, Epochs
    <3>2. visible \in Nat
      BY DEF IInv, Types, TypeOK
    <3>3. e \in resolved
      BY <3>1, <3>2 DEF IInv, Clock
    <3>4. ~\E t \in Threads : pc[t] \in Unapplied /\ epoch[t] = e
      BY <3>3 DEF IInv, Clock, Unapplied, InFlight
    <3> QED BY <2>2, <3>4 DEF IInv, Placed
  <2> QED BY <2>1, <2>2
<1> QED BY <1>1, RecoveryInvariant, PTL

\* LiveRowsDurable: no reader sees a commit that a crash would take back.
THEOREM ReadersSeeDurableRows == Spec => []LiveRowsDurable
<1>1. IInv => LiveRowsDurable
  <2> SUFFICES ASSUME IInv PROVE Live \ Missed \subseteq Recoverable
    BY DEF LiveRowsDurable
  <2>1. CASE mode = "open"
    BY <2>1, LiveIsRecoverable
  <2>2. CASE mode # "open"
    BY <2>2 DEF IInv, Down, Live, RowsOf
  <2> QED BY <2>1, <2>2
<1> QED BY <1>1, RecoveryInvariant, PTL

\* QuietTableSafe: without a flush outside a checkpoint no acknowledged write is
\* lost but what a checkpoint's own failing spill dropped, the manifest is always
\* accepted and no acknowledged epoch is reused.
THEOREM QuietTableIsSafe == Spec => []QuietTableSafe
<1>1. IInv => QuietTableSafe
  <2> SUFFICES ASSUME IInv, "flush" \notin allowed
               PROVE  acked \ dropped \subseteq Recoverable /\ ManifestAccepted /\ EpochsNotReused
    BY DEF QuietTableSafe
  <2>1. overtaken = {} /\ Accepted(manifest)
    BY DEF IInv, Quiet
  <2>2. acked \ Missed \subseteq Recoverable
    <3>1. CASE mode = "open"
      BY <3>1, LiveIsRecoverable DEF IInv, Placed
    <3>2. CASE mode # "open"
      BY <3>2 DEF IInv, Down
    <3> QED BY <3>1, <3>2
  <2>3. \A e \in Written : e <= assigned
    BY WrittenFacts DEF IInv, Clock
  <2>4. assigned \in Nat /\ visible \in Nat /\ visible <= assigned /\ acked \subseteq Nat
    BY DEF IInv, Types, TypeOK, Epochs
  <2>5. EpochsNotReused
    <3> SUFFICES ASSUME mode = "open", NEW e \in acked PROVE e <= assigned
      BY DEF EpochsNotReused
    <3>1. Reached(e)
      BY DEF IInv, Known
    <3>2. e \in Nat
      BY <2>4
    <3> QED BY <2>3, <2>4, <3>1, <3>2 DEF Reached
  <2> QED BY <2>1, <2>2, <2>5 DEF Missed, ManifestAccepted
<1> QED BY <1>1, RecoveryInvariant, PTL
=============================================================================
