------------------------ MODULE TxnValidationProofs -------------------------
(***************************************************************************)
(* Proofs about TxnValidation, for any number of sessions, records and     *)
(* transaction programs.                                                   *)
(***************************************************************************)
EXTENDS TxnValidation, TLAPS

\* The index holds every recorded commit at or above the prune floor.
IndexComplete ==
    \A h \in commits : h.epoch >= floor =>
        /\ \A k \in WriteKeys(h.prog) : rec[k] >= h.epoch
        /\ TableKey \in WriteKeys(h.prog) => truncEpoch >= h.epoch
        /\ WriteKeys(h.prog) \ {TableKey} # {} => writeEpoch >= h.epoch

\* A live transaction that was not pruned under reads at or above the floor.
FloorBelowReaders ==
    \A s \in Sessions : pc[s] # "idle" /\ ~pruned[s] => floor <= readEpoch[s]

\* No commit after s's snapshot makes the keys of s stale.
Fresh(s) ==
    \A h \in commits : h.epoch > readEpoch[s] =>
        /\ ~Overlap(WriteKeys(h.prog), WriteKeys(prog[s]))
        /\ ~Overlap(WriteKeys(h.prog), SsiKeys(prog[s]))

\* A passed validation stays valid while no commit is recorded.
ValidationHolds ==
    \A s \in Sessions :
        /\ ~inWindow[s] /\ ~pruned[s]
        /\ \/ pc[s] = "checked"
           \/ pc[s] = "versioned" /\ preVersion[s] = version
        => Fresh(s)

\* A sequenced transaction has its epoch.
EpochTaken == \A s \in Sessions : pc[s] = "sequenced" => epoch[s] >= 1

\* No unexposed commit overlaps a concurrent earlier one.
CommitsValid ==
    \A h, g \in commits :
        Concurrent(h, g) /\ Unexposed(g) =>
            /\ ~Overlap(WriteKeys(h.prog), WriteKeys(g.prog))
            /\ ~Overlap(WriteKeys(h.prog), SsiKeys(g.prog))

\* The inductive invariant.
IInv ==
    /\ TypeOK
    /\ IndexComplete
    /\ FloorBelowReaders
    /\ ValidationHolds
    /\ EpochTaken
    /\ CommitsValid

-----------------------------------------------------------------------------
\* Write keys and certification keys are keys.
LEMMA KeySets ==
    ASSUME NEW p \in Programs
    PROVE  WriteKeys(p) \subseteq Keys /\ SsiKeys(p) \subseteq Keys
<1>1. p.puts \subseteq Items /\ p.deletes \subseteq Items /\ p.gets \subseteq Items
  BY ValidationAssumptions DEF Program
<1> QED
  BY <1>1 DEF WriteKeys, SsiKeys, Keys

\* A probe that finds no conflict above r, where the index is complete above r,
\* means that no commit above r overlaps the probed keys.
LEMMA ProbeSound ==
    ASSUME TypeOK, IndexComplete, NEW r \in Nat, floor <= r,
           NEW K \in SUBSET Keys, ~Conflicts(K, r),
           NEW h \in commits, h.epoch > r
    PROVE  ~Overlap(WriteKeys(h.prog), K)
<1> DEFINE w == WriteKeys(h.prog)
<1>1. h.epoch \in Nat /\ floor \in Nat /\ h.prog \in Programs /\ h.epoch >= floor
  BY DEF TypeOK, Commit
<1>2. /\ \A k \in w : rec[k] >= h.epoch
      /\ TableKey \in w => truncEpoch >= h.epoch
      /\ w \ {TableKey} # {} => writeEpoch >= h.epoch
  BY <1>1 DEF IndexComplete
<1>3. w \subseteq Keys
  BY <1>1, KeySets
<1>4. rec \in [Keys -> Nat] /\ truncEpoch \in Nat /\ writeEpoch \in Nat
  BY DEF TypeOK
<1> HIDE DEF w
<1>5. w \cap K = {}
  BY <1>1, <1>2, <1>3, <1>4 DEF Conflicts
<1>6. TableKey \in w => K = {}
  BY <1>1, <1>2, <1>4, <1>5 DEF Conflicts
<1>7. TableKey \in K => w = {}
  BY <1>1, <1>2, <1>4, <1>5 DEF Conflicts
<1> QED
  BY <1>5, <1>6, <1>7 DEF Overlap, w

\* A validation that passes makes the session fresh.
LEMMA ValidIsFresh ==
    ASSUME IInv, NEW s \in Sessions, pc[s] # "idle", ~pruned[s], ~Invalid(s)
    PROVE  Fresh(s)
<1>1. readEpoch[s] \in Nat /\ prog[s] \in Programs /\ floor <= readEpoch[s]
  BY DEF IInv, TypeOK, FloorBelowReaders
<1>2. WriteKeys(prog[s]) \in SUBSET Keys /\ SsiKeys(prog[s]) \in SUBSET Keys
  BY <1>1, KeySets
<1>3. ~Conflicts(WriteKeys(prog[s]), readEpoch[s]) /\ ~Conflicts(SsiKeys(prog[s]), readEpoch[s])
  BY DEF Invalid
<1> QED
  BY <1>1, <1>2, <1>3, ProbeSound DEF Fresh, IInv

\* A freshly opened database satisfies the invariant.
LEMMA InitIInv == Init => IInv
<1> SUFFICES ASSUME Init PROVE IInv
  OBVIOUS
<1>0. (CHOOSE p \in Programs : TRUE) \in Programs
  BY ValidationAssumptions
<1>1. TypeOK
  BY <1>0 DEF Init, TypeOK, PCs
<1>2. IndexComplete /\ FloorBelowReaders /\ ValidationHolds /\ CommitsValid /\ EpochTaken
  BY DEF Init, IndexComplete, FloorBelowReaders, ValidationHolds, CommitsValid, EpochTaken
<1> QED
  BY <1>1, <1>2 DEF IInv

-----------------------------------------------------------------------------
\* What a step that records nothing has to leave alone.
LEMMA NoRecordStep ==
    ASSUME IInv, UNCHANGED <<index, commits>>, TypeOK',
           \A s \in Sessions : pc'[s] # "idle" /\ ~pruned'[s] => floor <= readEpoch'[s],
           \A s \in Sessions : pc'[s] = "sequenced" => epoch'[s] >= 1,
           \A s \in Sessions :
              /\ ~inWindow'[s] /\ ~pruned'[s]
              /\ \/ pc'[s] = "checked"
                 \/ pc'[s] = "versioned" /\ preVersion'[s] = version
              => Fresh(s)'
    PROVE  IInv'
BY DEF IInv, index, IndexComplete, FloorBelowReaders, ValidationHolds, CommitsValid,
       EpochTaken

\* The bookkeeping steps of one session: everything that neither validates,
\* prunes nor records.
LEMMA QuietStep ==
    ASSUME IInv, NEW s \in Sessions, UNCHANGED <<index, commits>>, TypeOK',
           \A u \in Sessions \ {s} :
              /\ pc'[u] = pc[u] /\ readEpoch'[u] = readEpoch[u] /\ prog'[u] = prog[u]
              /\ preVersion'[u] = preVersion[u] /\ epoch'[u] = epoch[u]
              /\ inWindow'[u] = inWindow[u] /\ pruned'[u] = pruned[u],
           pc'[s] \notin {"checked", "versioned", "sequenced"},
           pc'[s] # "idle" /\ ~pruned'[s] => floor <= readEpoch'[s]
    PROVE  IInv'
<1>1. \A u \in Sessions : pc'[u] # "idle" /\ ~pruned'[u] => floor <= readEpoch'[u]
  BY DEF IInv, FloorBelowReaders
<1>2. ASSUME NEW u \in Sessions, ~inWindow'[u], ~pruned'[u],
             \/ pc'[u] = "checked"
             \/ pc'[u] = "versioned" /\ preVersion'[u] = version
      PROVE  Fresh(u)'
  <2>1. u # s
    BY <1>2
  <2>2. Fresh(u)
    BY <1>2, <2>1 DEF IInv, ValidationHolds
  <2> QED
    BY <2>1, <2>2 DEF Fresh
<1>3. \A u \in Sessions : pc'[u] = "sequenced" => epoch'[u] >= 1
  BY DEF IInv, EpochTaken
<1> QED
  BY <1>1, <1>2, <1>3, NoRecordStep

\* Ending a transaction is a quiet step.
LEMMA EndTxnStep ==
    ASSUME IInv, NEW s \in Sessions, EndTxn(s), UNCHANGED <<index, commits>>,
           assigned' \in Nat, assigned' >= assigned, visible' = visible,
           resolved' \subseteq 1..assigned'
    PROVE  IInv'
<1>1. TypeOK'
  <2>1. assigned \in Nat /\ 0..assigned \subseteq 0..assigned' /\ 1..assigned \subseteq 1..assigned'
    BY DEF IInv, TypeOK
  <2>2. visible' \in 0..assigned' /\ version' \in 0..assigned' /\ floor' \in 0..visible'
    BY <2>1 DEF index, IInv, TypeOK
  <2>3. rec' \in [Keys -> 0..assigned'] /\ truncEpoch' \in 0..assigned'
        /\ writeEpoch' \in 0..assigned'
    BY <2>1 DEF index, IInv, TypeOK
  <2>4. Commit \subseteq Commit'
    BY <2>1 DEF Commit
  <2>5. commits' \subseteq Commit'
    BY <2>4 DEF IInv, TypeOK
  <2>6. pc' \in [Sessions -> PCs] /\ prog' \in [Sessions -> Programs]
    BY DEF EndTxn, IInv, TypeOK, PCs
  <2>7. readEpoch' \in [Sessions -> 0..visible'] /\ preVersion' \in [Sessions -> 0..version']
    BY DEF EndTxn, index, IInv, TypeOK
  <2>8. epoch' \in [Sessions -> 0..assigned']
    BY <2>1 DEF EndTxn, IInv, TypeOK
  <2>9. inWindow' \in [Sessions -> BOOLEAN] /\ pruned' \in [Sessions -> BOOLEAN]
    BY DEF EndTxn, IInv, TypeOK
  <2> QED
    BY <2>2, <2>3, <2>5, <2>6, <2>7, <2>8, <2>9 DEF TypeOK
<1>2. /\ \A u \in Sessions \ {s} :
            /\ pc'[u] = pc[u] /\ readEpoch'[u] = readEpoch[u] /\ prog'[u] = prog[u]
            /\ preVersion'[u] = preVersion[u] /\ epoch'[u] = epoch[u]
            /\ inWindow'[u] = inWindow[u] /\ pruned'[u] = pruned[u]
      /\ pc'[s] = "idle"
  BY DEF EndTxn, IInv, TypeOK
<1> QED
  BY <1>1, <1>2, QuietStep

-----------------------------------------------------------------------------
\* Opportunistic pruning keeps every entry a live reader could need.
LEMMA PruneStep ==
    ASSUME IInv, NEW s \in Sessions, Prune(s)
    PROVE  IInv'
<1>1. PICK r \in Registered :
         /\ \A u \in Registered : readEpoch[r] <= readEpoch[u]
         /\ LET m == readEpoch[r] IN
            IF m <= floor
            THEN UNCHANGED <<index, pruned>>
            ELSE /\ floor' = m
                 /\ rec' = [k \in Keys |-> Keep(rec[k], m)]
                 /\ truncEpoch' = Keep(truncEpoch, m)
                 /\ writeEpoch' = Keep(writeEpoch, m)
                 /\ pruned' = [u \in Sessions |->
                       pruned[u] \/ (pc[u] = "snapped" /\ readEpoch[u] < m)]
                 /\ UNCHANGED version
  BY DEF Prune
<1>2. /\ pc' = [pc EXCEPT ![s] = "pruned"]
      /\ UNCHANGED <<assigned, visible, resolved, prog, readEpoch, preVersion, epoch,
                     commits, inWindow>>
      /\ pc[s] = "claimed"
  BY DEF Prune, authority
<1>3. /\ pc'[s] = "pruned"
      /\ \A u \in Sessions \ {s} : pc'[u] = pc[u]
  BY <1>2 DEF IInv, TypeOK
<1>4. CASE readEpoch[r] <= floor
  <2>1. UNCHANGED <<index, pruned>>
    BY <1>1, <1>4
  <2>2. TypeOK'
    BY <1>2, <2>1 DEF index, IInv, TypeOK, PCs, Commit
  <2>3. pc'[s] # "idle" /\ ~pruned'[s] => floor <= readEpoch'[s]
    BY <1>2, <2>1 DEF IInv, FloorBelowReaders
  <2> QED
    BY <1>2, <1>3, <2>1, <2>2, <2>3, QuietStep
<1>5. CASE ~(readEpoch[r] <= floor)
  <2> DEFINE m == readEpoch[r]
  <2>1. /\ floor' = m
        /\ rec' = [k \in Keys |-> Keep(rec[k], m)]
        /\ truncEpoch' = Keep(truncEpoch, m)
        /\ writeEpoch' = Keep(writeEpoch, m)
        /\ pruned' = [u \in Sessions |->
              pruned[u] \/ (pc[u] = "snapped" /\ readEpoch[u] < m)]
        /\ version' = version
    BY <1>1, <1>5
  <2>2. r \in Sessions /\ m \in 0..visible /\ floor \in Nat /\ m > floor
        /\ assigned \in Nat /\ visible \in 0..assigned /\ m \in Nat
    BY <1>5 DEF IInv, TypeOK, Registered
  <2> HIDE DEF m
  <2>3. TypeOK'
    <3>1. rec' \in [Keys -> 0..assigned] /\ truncEpoch' \in 0..assigned /\ writeEpoch' \in 0..assigned
      BY <2>1, <2>2 DEF Keep, IInv, TypeOK
    <3>2. floor' \in 0..visible /\ pruned' \in [Sessions -> BOOLEAN]
      BY <2>1, <2>2 DEF IInv, TypeOK
    <3>3. pc' \in [Sessions -> PCs]
      BY <1>2 DEF IInv, TypeOK, PCs
    <3> QED
      BY <1>2, <2>1, <3>1, <3>2, <3>3 DEF IInv, TypeOK, Commit
  <2>4. IndexComplete'
    <3>1. SUFFICES ASSUME NEW h \in commits, h.epoch >= m
                   PROVE  /\ \A k \in WriteKeys(h.prog) : rec'[k] >= h.epoch
                          /\ TableKey \in WriteKeys(h.prog) => truncEpoch' >= h.epoch
                          /\ WriteKeys(h.prog) \ {TableKey} # {} => writeEpoch' >= h.epoch
      BY <1>2, <2>1 DEF IndexComplete
    <3>2. h.epoch \in Nat /\ h.prog \in Programs /\ h.epoch >= floor
      BY <2>2, <3>1 DEF IInv, TypeOK, Commit
    <3>3. /\ \A k \in WriteKeys(h.prog) : rec[k] >= h.epoch
          /\ TableKey \in WriteKeys(h.prog) => truncEpoch >= h.epoch
          /\ WriteKeys(h.prog) \ {TableKey} # {} => writeEpoch >= h.epoch
      BY <3>2 DEF IInv, IndexComplete
    <3>4. WriteKeys(h.prog) \subseteq Keys
      BY <3>2, KeySets
    <3>5. rec \in [Keys -> Nat] /\ truncEpoch \in Nat /\ writeEpoch \in Nat
      BY DEF IInv, TypeOK
    <3>6. ASSUME NEW k \in WriteKeys(h.prog) PROVE rec'[k] >= h.epoch
      BY <2>1, <2>2, <3>1, <3>2, <3>3, <3>4, <3>5 DEF Keep
    <3> QED
      BY <2>1, <2>2, <3>1, <3>2, <3>3, <3>5, <3>6 DEF Keep
  <2>5. \A u \in Sessions : ~pruned'[u] => ~pruned[u]
    BY <2>1 DEF IInv, TypeOK
  <2>6. FloorBelowReaders'
    <3>1. SUFFICES ASSUME NEW u \in Sessions, pc'[u] # "idle", ~pruned'[u]
                   PROVE  m <= readEpoch[u]
      BY <1>2, <2>1 DEF FloorBelowReaders
    <3>2. pc[u] # "idle"
      BY <1>2, <1>3, <3>1
    <3>3. CASE pc[u] = "snapped"
      <4>0. pruned'[u] = (pruned[u] \/ (pc[u] = "snapped" /\ readEpoch[u] < m))
        BY <2>1, Zenon
      <4>1. readEpoch[u] \in Nat /\ ~(readEpoch[u] < m)
        <5>1. ~(readEpoch[u] < m)
          BY <4>0, <3>1, <3>3, Zenon
        <5> QED
          BY <5>1 DEF IInv, TypeOK
      <4> QED
        BY <4>1, <2>2
    <3>4. CASE pc[u] # "snapped"
      <4>1. u \in Registered
        BY <3>2, <3>4 DEF Registered
      <4> QED
        BY <1>1, <4>1 DEF m
    <3> QED
      BY <3>3, <3>4
  <2>7. ValidationHolds'
    <3>1. SUFFICES ASSUME NEW u \in Sessions, ~inWindow'[u], ~pruned'[u],
                          \/ pc'[u] = "checked"
                          \/ pc'[u] = "versioned" /\ preVersion'[u] = version'
                   PROVE  Fresh(u)'
      BY DEF ValidationHolds
    <3>2. u # s /\ pc[u] = pc'[u]
      BY <1>3, <3>1
    <3>3. Fresh(u)
      BY <1>2, <2>1, <2>5, <3>1, <3>2 DEF IInv, ValidationHolds
    <3> QED
      BY <1>2, <3>3 DEF Fresh
  <2>8. EpochTaken' /\ CommitsValid'
    BY <1>2, <1>3 DEF IInv, EpochTaken, CommitsValid
  <2> QED
    BY <2>3, <2>4, <2>6, <2>7, <2>8 DEF IInv
<1> QED
  BY <1>4, <1>5

-----------------------------------------------------------------------------
\* The sequencer: what it records is new to every other validation, and its
\* own validation was sound.
LEMMA SequenceStep ==
    ASSUME IInv, NEW s \in Sessions, Sequence(s)
    PROVE  IInv'
<1> DEFINE e == assigned + 1
           w == WriteKeys(prog[s])
           c == [epoch |-> e, read |-> readEpoch[s], prog |-> prog[s],
                 inWindow |-> inWindow[s], pruned |-> pruned[s]]
<1>1. /\ pc[s] = "versioned"
      /\ version # preVersion[s] => ~Invalid(s)
      /\ assigned' = e /\ visible' = visible /\ resolved' = resolved
      /\ epoch' = [epoch EXCEPT ![s] = e]
      /\ rec' = [k \in Keys |-> IF k \in w THEN e ELSE rec[k]]
      /\ truncEpoch' = IF TableKey \in w THEN MaxOf(truncEpoch, e) ELSE truncEpoch
      /\ writeEpoch' = IF w \ {TableKey} # {} THEN MaxOf(writeEpoch, e) ELSE writeEpoch
      /\ commits' = commits \cup {c}
      /\ version' = version + 1
      /\ inWindow' = [u \in Sessions |-> inWindow[u] \/ pc[u] = "checked"]
      /\ pc' = [pc EXCEPT ![s] = "sequenced"]
      /\ UNCHANGED <<floor, prog, readEpoch, preVersion, pruned>>
  BY DEF Sequence, SequenceCommit, Watermark!Assign
<1>2. /\ assigned \in Nat /\ visible \in 0..assigned /\ version \in 0..assigned
      /\ floor \in 0..visible /\ prog[s] \in Programs /\ readEpoch[s] \in 0..visible
      /\ rec \in [Keys -> 0..assigned]
      /\ truncEpoch \in 0..assigned /\ writeEpoch \in 0..assigned
      /\ e \in Nat /\ e > assigned
      /\ preVersion \in [Sessions -> 0..version]
  BY DEF IInv, TypeOK
<1>3. ~inWindow[s] /\ ~pruned[s] => Fresh(s)
  BY <1>1, ValidIsFresh DEF IInv, ValidationHolds
<1>4. c.epoch = e /\ c.read = readEpoch[s] /\ c.prog = prog[s]
      /\ c.inWindow = inWindow[s] /\ c.pruned = pruned[s]
  OBVIOUS
<1>5. w \subseteq Keys
  BY <1>2, KeySets
<1>6. \A h \in commits : h.epoch \in 1..assigned /\ h.read \in 0..assigned /\ h.prog \in Programs
  BY DEF IInv, TypeOK, Commit
<1>7. TypeOK'
  <2>1. c \in Commit'
    BY <1>1, <1>2, <1>4 DEF Commit, IInv, TypeOK
  <2>2. commits \subseteq Commit'
    BY <1>1, <1>2 DEF Commit, IInv, TypeOK
  <2>3. rec' \in [Keys -> 0..e] /\ truncEpoch' \in 0..e /\ writeEpoch' \in 0..e
    BY <1>1, <1>2 DEF MaxOf
  <2>4. pc' \in [Sessions -> PCs] /\ inWindow' \in [Sessions -> BOOLEAN]
        /\ epoch' \in [Sessions -> 0..e]
    BY <1>1, <1>2 DEF IInv, TypeOK, PCs
  <2>5. resolved \subseteq 1..e
    BY <1>2 DEF IInv, TypeOK
  <2>6. preVersion \in [Sessions -> 0..(version + 1)]
    BY <1>2
  <2> QED
    BY <1>1, <1>2, <2>1, <2>2, <2>3, <2>4, <2>5, <2>6 DEF IInv, TypeOK
<1> HIDE DEF e, w, c
<1>8. IndexComplete'
  <2>1. SUFFICES ASSUME NEW h \in commits', h.epoch >= floor
                 PROVE  /\ \A k \in WriteKeys(h.prog) : rec'[k] >= h.epoch
                        /\ TableKey \in WriteKeys(h.prog) => truncEpoch' >= h.epoch
                        /\ WriteKeys(h.prog) \ {TableKey} # {} => writeEpoch' >= h.epoch
    BY <1>1 DEF IndexComplete
  <2>2. CASE h = c
    <3>1. \A k \in w : rec'[k] = e
      BY <1>1, <1>5
    <3>2. TableKey \in w => truncEpoch' >= e
      BY <1>1, <1>2 DEF MaxOf
    <3>3. w \ {TableKey} # {} => writeEpoch' >= e
      BY <1>1, <1>2 DEF MaxOf
    <3> QED
      BY <1>2, <1>4, <2>2, <3>1, <3>2, <3>3 DEF w
  <2>3. CASE h \in commits
    <3>1. /\ \A k \in WriteKeys(h.prog) : rec[k] >= h.epoch
          /\ TableKey \in WriteKeys(h.prog) => truncEpoch >= h.epoch
          /\ WriteKeys(h.prog) \ {TableKey} # {} => writeEpoch >= h.epoch
      BY <2>1, <2>3 DEF IInv, IndexComplete
    <3>2. WriteKeys(h.prog) \subseteq Keys /\ h.epoch \in 1..assigned
      BY <1>6, <2>3, KeySets
    <3>3. \A k \in Keys : rec'[k] >= rec[k] /\ rec'[k] \in Nat /\ rec[k] \in Nat
      BY <1>1, <1>2
    <3>4. truncEpoch' >= truncEpoch /\ writeEpoch' >= writeEpoch
          /\ truncEpoch' \in Nat /\ writeEpoch' \in Nat
      BY <1>1, <1>2 DEF MaxOf
    <3>5. \A k \in WriteKeys(h.prog) : rec'[k] >= h.epoch
      BY <3>1, <3>2, <3>3
    <3>6. /\ TableKey \in WriteKeys(h.prog) => truncEpoch' >= h.epoch
          /\ WriteKeys(h.prog) \ {TableKey} # {} => writeEpoch' >= h.epoch
      BY <1>2, <3>1, <3>2, <3>4
    <3> QED
      BY <3>5, <3>6
  <2> QED
    BY <1>1, <2>2, <2>3
<1>9. FloorBelowReaders'
  BY <1>1 DEF IInv, TypeOK, FloorBelowReaders
<1>10. ValidationHolds'
  <2>1. ASSUME NEW u \in Sessions, ~inWindow'[u], pc'[u] = "checked" PROVE FALSE
    <3>1. pc[u] = "checked"
      BY <1>1, <2>1 DEF IInv, TypeOK
    <3>2. inWindow'[u] = (inWindow[u] \/ pc[u] = "checked")
      BY <1>1, Zenon
    <3> QED
      BY <2>1, <3>1, <3>2, Zenon
  <2>2. ASSUME NEW u \in Sessions, preVersion'[u] = version' PROVE FALSE
    BY <1>1, <1>2, <2>2
  <2> QED
    BY <2>1, <2>2 DEF ValidationHolds
<1>11. EpochTaken'
  BY <1>1, <1>2 DEF IInv, TypeOK, EpochTaken
<1>12. CommitsValid'
  <2>1. SUFFICES ASSUME NEW h \in commits', NEW g \in commits',
                        Concurrent(h, g), Unexposed(g)
                 PROVE  /\ ~Overlap(WriteKeys(h.prog), WriteKeys(g.prog))
                        /\ ~Overlap(WriteKeys(h.prog), SsiKeys(g.prog))
    BY DEF CommitsValid
  <2>2. CASE h \in commits /\ g \in commits
    BY <2>1, <2>2 DEF IInv, CommitsValid
  <2>3. CASE h \in commits /\ g = c
    <3>1. Fresh(s)
      BY <1>3, <1>4, <2>1, <2>3 DEF Unexposed
    <3>2. h.epoch > readEpoch[s]
      BY <1>2, <1>4, <1>6, <2>1, <2>3 DEF Concurrent
    <3> QED
      BY <1>4, <2>3, <3>1, <3>2 DEF Fresh
  <2>4. CASE h = c
    <3>1. g.epoch \in Nat /\ g.epoch <= e
      BY <1>1, <1>2, <1>4, <1>6
    <3> QED
      BY <1>2, <1>4, <2>1, <2>4, <3>1 DEF Concurrent
  <2> QED
    BY <1>1, <2>2, <2>3, <2>4
<1> QED
  BY <1>7, <1>8, <1>9, <1>10, <1>11, <1>12 DEF IInv

-----------------------------------------------------------------------------
\* Every action preserves the invariant.
LEMMA NextIInv == IInv /\ [Next]_vars => IInv'
<1> SUFFICES ASSUME IInv, [Next]_vars PROVE IInv'
  OBVIOUS
<1>1. ASSUME NEW s \in Sessions, NEW p \in Programs, BeginSnapshot(s, p) PROVE IInv'
  <2>1. TypeOK'
    BY <1>1 DEF BeginSnapshot, authority, index, ghosts, IInv, TypeOK, PCs, Commit
  <2>2. /\ \A u \in Sessions \ {s} :
              /\ pc'[u] = pc[u] /\ readEpoch'[u] = readEpoch[u] /\ prog'[u] = prog[u]
              /\ preVersion'[u] = preVersion[u] /\ epoch'[u] = epoch[u]
              /\ inWindow'[u] = inWindow[u] /\ pruned'[u] = pruned[u]
        /\ pc'[s] = "snapped" /\ assigned' = assigned
        /\ UNCHANGED <<index, commits>>
        /\ ~pruned'[s] => floor <= readEpoch'[s]
    BY <1>1 DEF BeginSnapshot, authority, ghosts, IInv, TypeOK, FloorBelowReaders
  <2> QED
    BY <2>1, <2>2, QuietStep
<1>2. ASSUME NEW s \in Sessions, Register(s) PROVE IInv'
  <2>1. TypeOK'
    BY <1>2 DEF Register, authority, index, ghosts, IInv, TypeOK, PCs, Commit
  <2>2. /\ \A u \in Sessions \ {s} :
              /\ pc'[u] = pc[u] /\ readEpoch'[u] = readEpoch[u] /\ prog'[u] = prog[u]
              /\ preVersion'[u] = preVersion[u] /\ epoch'[u] = epoch[u]
              /\ inWindow'[u] = inWindow[u] /\ pruned'[u] = pruned[u]
        /\ pc'[s] = "active" /\ assigned' = assigned
        /\ UNCHANGED <<index, commits>>
        /\ ~pruned'[s] => floor <= readEpoch'[s]
    BY <1>2 DEF Register, authority, ghosts, IInv, TypeOK, FloorBelowReaders
  <2> QED
    BY <2>1, <2>2, QuietStep
<1>3. ASSUME NEW s \in Sessions, Claim(s) PROVE IInv'
  <2>1. TypeOK'
    BY <1>3 DEF Claim, authority, index, ghosts, IInv, TypeOK, PCs, Commit
  <2>2. /\ \A u \in Sessions \ {s} :
              /\ pc'[u] = pc[u] /\ readEpoch'[u] = readEpoch[u] /\ prog'[u] = prog[u]
              /\ preVersion'[u] = preVersion[u] /\ epoch'[u] = epoch[u]
              /\ inWindow'[u] = inWindow[u] /\ pruned'[u] = pruned[u]
        /\ pc'[s] = "claimed" /\ assigned' = assigned
        /\ UNCHANGED <<index, commits>>
        /\ ~pruned'[s] => floor <= readEpoch'[s]
    BY <1>3 DEF Claim, authority, ghosts, IInv, TypeOK, FloorBelowReaders
  <2> QED
    BY <2>1, <2>2, QuietStep
<1>4. ASSUME NEW s \in Sessions, Prune(s) PROVE IInv'
  BY <1>4, PruneStep
<1>5. ASSUME NEW s \in Sessions, PreValidate(s) PROVE IInv'
  <2>1. TypeOK'
    BY <1>5 DEF PreValidate, authority, index, ghosts, IInv, TypeOK, PCs, Commit
  <2>2. /\ \A u \in Sessions \ {s} : pc'[u] = pc[u]
        /\ pc'[s] = "checked" /\ pc[s] = "pruned" /\ ~Invalid(s)
        /\ UNCHANGED <<assigned, index, commits, readEpoch, prog, preVersion, epoch,
                       inWindow, pruned>>
    BY <1>5 DEF PreValidate, authority, ghosts, IInv, TypeOK
  <2>3. \A u \in Sessions : pc'[u] # "idle" /\ ~pruned'[u] => floor <= readEpoch'[u]
    BY <2>2 DEF IInv, FloorBelowReaders
  <2>4. \A u \in Sessions : pc'[u] = "sequenced" => epoch'[u] >= 1
    BY <2>2 DEF IInv, EpochTaken
  <2>5. ASSUME NEW u \in Sessions, ~inWindow'[u], ~pruned'[u],
               \/ pc'[u] = "checked"
               \/ pc'[u] = "versioned" /\ preVersion'[u] = version
        PROVE  Fresh(u)'
    <3>1. Fresh(u)
      <4>1. CASE u = s
        BY <2>2, <2>5, <4>1, ValidIsFresh
      <4>2. CASE u # s
        BY <2>2, <2>5, <4>2 DEF IInv, ValidationHolds
      <4> QED
        BY <4>1, <4>2
    <3> QED
      BY <2>2, <3>1 DEF Fresh
  <2> QED
    BY <2>1, <2>2, <2>3, <2>4, <2>5, NoRecordStep
<1>6. ASSUME NEW s \in Sessions, LoadVersion(s) PROVE IInv'
  <2>1. TypeOK'
    BY <1>6 DEF LoadVersion, authority, index, ghosts, IInv, TypeOK, PCs, Commit
  <2>2. /\ \A u \in Sessions \ {s} : pc'[u] = pc[u] /\ preVersion'[u] = preVersion[u]
        /\ pc'[s] = "versioned" /\ pc[s] = "checked"
        /\ UNCHANGED <<assigned, index, commits, readEpoch, prog, epoch, inWindow, pruned>>
    BY <1>6 DEF LoadVersion, authority, ghosts, IInv, TypeOK
  <2>3. \A u \in Sessions : pc'[u] # "idle" /\ ~pruned'[u] => floor <= readEpoch'[u]
    BY <2>2 DEF IInv, FloorBelowReaders
  <2>4. \A u \in Sessions : pc'[u] = "sequenced" => epoch'[u] >= 1
    BY <2>2 DEF IInv, EpochTaken
  <2>5. ASSUME NEW u \in Sessions, ~inWindow'[u], ~pruned'[u],
               \/ pc'[u] = "checked"
               \/ pc'[u] = "versioned" /\ preVersion'[u] = version
        PROVE  Fresh(u)'
    <3>1. Fresh(u)
      BY <2>2, <2>5 DEF IInv, ValidationHolds
    <3> QED
      BY <2>2, <3>1 DEF Fresh
  <2> QED
    BY <2>1, <2>2, <2>3, <2>4, <2>5, NoRecordStep
<1>7. ASSUME NEW s \in Sessions, Sequence(s) PROVE IInv'
  BY <1>7, SequenceStep
<1>8. ASSUME NEW s \in Sessions, Publish(s) PROVE IInv'
  <2>1. EndTxn(s) /\ UNCHANGED <<assigned, visible, index, commits>>
        /\ resolved' = resolved \cup {epoch[s]} /\ pc[s] = "sequenced"
    BY <1>8 DEF Publish
  <2>2. epoch[s] \in 0..assigned /\ epoch[s] >= 1 /\ assigned \in Nat
        /\ resolved \subseteq 1..assigned
    BY <2>1 DEF IInv, TypeOK, EpochTaken
  <2>3. resolved' \subseteq 1..assigned
    <3>1. epoch[s] \in 1..assigned
      BY <2>2
    <3> QED
      BY <2>1, <2>2, <3>1
  <2>4. assigned' \in Nat /\ assigned' >= assigned /\ resolved' \subseteq 1..assigned'
    BY <2>1, <2>2, <2>3
  <2> QED
    BY <2>1, <2>4, EndTxnStep
<1>9. ASSUME NEW s \in Sessions, Abort(s) PROVE IInv'
  <2>1. resolved \subseteq 1..assigned /\ assigned \in Nat
    BY DEF IInv, TypeOK
  <2>2. EndTxn(s) /\ UNCHANGED <<assigned, visible, resolved, index, commits>>
    BY <1>9 DEF Abort, authority
  <2>3. assigned' \in Nat /\ assigned' >= assigned /\ resolved' \subseteq 1..assigned'
    BY <2>1, <2>2
  <2> QED
    BY <2>2, <2>3, EndTxnStep
<1>10. ASSUME NEW s \in Sessions, SequenceFails(s) PROVE IInv'
  <2>1. assigned \in Nat /\ resolved \subseteq 1..assigned
    BY DEF IInv, TypeOK
  <2>2. EndTxn(s) /\ UNCHANGED <<visible, index, commits>>
        /\ assigned' = assigned + 1 /\ resolved' = resolved \cup {assigned + 1}
    BY <1>10 DEF SequenceFails
  <2>3. assigned' \in Nat /\ assigned' >= assigned /\ resolved' \subseteq 1..assigned'
    BY <2>1, <2>2
  <2> QED
    BY <2>2, <2>3, EndTxnStep
<1>11. ASSUME AdvanceVisible PROVE IInv'
  <2>1. /\ UNCHANGED <<assigned, resolved, index, pc, prog, readEpoch, preVersion, epoch,
                       commits, inWindow, pruned>>
        /\ visible' \in (visible + 1)..assigned
    BY <1>11 DEF AdvanceVisible, Watermark!Advance, ghosts
  <2>2. TypeOK'
    <3>1. visible \in Nat /\ assigned \in Nat /\ visible' \in 0..assigned
          /\ visible <= visible'
      BY <2>1 DEF IInv, TypeOK
    <3>2. floor' \in 0..visible' /\ readEpoch' \in [Sessions -> 0..visible']
      BY <2>1, <3>1 DEF index, IInv, TypeOK
    <3> QED
      BY <2>1, <3>1, <3>2 DEF index, IInv, TypeOK, Commit
  <2>3. /\ \A u \in Sessions : pc'[u] # "idle" /\ ~pruned'[u] => floor <= readEpoch'[u]
        /\ \A u \in Sessions : pc'[u] = "sequenced" => epoch'[u] >= 1
    BY <2>1 DEF IInv, FloorBelowReaders, EpochTaken
  <2>4. \A u \in Sessions :
              /\ ~inWindow'[u] /\ ~pruned'[u]
              /\ \/ pc'[u] = "checked"
                 \/ pc'[u] = "versioned" /\ preVersion'[u] = version
              => Fresh(u)'
    BY <2>1 DEF IInv, ValidationHolds, Fresh
  <2> QED
    BY <2>1, <2>2, <2>3, <2>4, NoRecordStep
<1>12. CASE UNCHANGED vars
  <2>1. TypeOK'
    BY <1>12 DEF vars, IInv, TypeOK, Commit
  <2>2. \A u \in Sessions : Fresh(u)' <=> Fresh(u)
    BY <1>12 DEF vars, Fresh
  <2> QED
    BY <1>12, <2>1, <2>2 DEF vars, IInv, IndexComplete, FloorBelowReaders,
       ValidationHolds, EpochTaken, CommitsValid
<1> QED
  BY <1>1, <1>2, <1>3, <1>4, <1>5, <1>6, <1>7, <1>8, <1>9, <1>10, <1>11, <1>12 DEF Next

\* The invariant holds throughout.
LEMMA IInvAlways == Spec => []IInv
BY InitIInv, NextIInv, PTL DEF Spec

\* Two-phase validation is first-committer-wins for every commit that was not
\* exposed to the check/version window or to a prune before its registration.
THEOREM FirstCommitterWinsHolds == Spec => []FirstCommitterWinsOutsideWindows
<1>1. IInv => FirstCommitterWinsOutsideWindows
  BY DEF IInv, CommitsValid, FirstCommitterWinsOutsideWindows
<1> QED
  BY <1>1, IInvAlways, PTL

\* ... and certifies the tracked reads of a Serializable commit.
THEOREM SerializableHolds == Spec => []SerializableOutsideWindows
<1>1. IInv => SerializableOutsideWindows
  <2>1. SUFFICES ASSUME IInv, NEW h \in commits, NEW g \in commits,
                        Concurrent(h, g), Unexposed(g), g.prog.serializable
                 PROVE  /\ g.prog.gets \cap h.prog.deletes = {}
                        /\ g.prog.scan => WriteKeys(h.prog) = {}
                        /\ h.prog.truncate => g.prog.gets = {}
    BY DEF SerializableOutsideWindows
  <2>2. ~Overlap(WriteKeys(h.prog), SsiKeys(g.prog))
    BY <2>1 DEF IInv, CommitsValid
  <2>3. \A i \in g.prog.gets : RowKey(i) \in SsiKeys(g.prog)
    BY <2>1 DEF SsiKeys
  <2>4. \A i \in h.prog.deletes : RowKey(i) \in WriteKeys(h.prog)
    BY DEF WriteKeys
  <2>5. g.prog.scan => TableKey \in SsiKeys(g.prog)
    BY <2>1 DEF SsiKeys
  <2>6. h.prog.truncate => TableKey \in WriteKeys(h.prog)
    BY DEF WriteKeys
  <2> QED
    BY <2>2, <2>3, <2>4, <2>5, <2>6 DEF Overlap
<1> QED
  BY <1>1, IInvAlways, PTL

\* Pruning keeps every index entry that a registered transaction, other than
\* one that registered too late, could conflict with.
THEOREM LiveConflictsKeptHolds == Spec => []LiveConflictsKept
<1>1. IInv => LiveConflictsKept
  <2>1. SUFFICES ASSUME IInv, NEW s \in Registered, NEW h \in commits,
                        NEW k \in WriteKeys(h.prog),
                        h.epoch > readEpoch[s], ~pruned[s]
                 PROVE  rec[k] >= h.epoch
    BY DEF LiveConflictsKept
  <2>2. s \in Sessions /\ floor <= readEpoch[s]
    BY <2>1 DEF IInv, FloorBelowReaders, Registered
  <2>3. h.epoch \in Nat /\ floor \in Nat /\ readEpoch[s] \in Nat
    BY <2>1, <2>2 DEF IInv, TypeOK, Commit
  <2>4. h.epoch >= floor
    BY <2>1, <2>2, <2>3
  <2> QED
    BY <2>1, <2>4 DEF IInv, IndexComplete
<1> QED
  BY <1>1, IInvAlways, PTL

-----------------------------------------------------------------------------
\* Two committing transactions claim different unique keys.
ClaimsDisjoint ==
    \A s, u \in Sessions : s # u => \A i \in Claims(s) : i \notin Claims(u)

\* No commit after s's snapshot put a key that s puts.
PutsFree(s) ==
    \A h \in commits : h.epoch > readEpoch[s] =>
        \A i \in h.prog.puts : i \notin prog[s].puts

\* A passed validation stays valid for the claimed keys, whoever commits.
PutsHold ==
    \A s \in Sessions :
        pc[s] \in {"checked", "versioned"} /\ ~pruned[s] => PutsFree(s)

\* The invariant behind ClaimedPutsSerialize.
ClaimInv == ClaimsDisjoint /\ PutsHold /\ ClaimedPutsSerialize

\* A validation that passes covers the unique keys of the puts.
LEMMA ValidPutsFree ==
    ASSUME IInv, NEW s \in Sessions, pc[s] # "idle", ~pruned[s], ~Invalid(s)
    PROVE  PutsFree(s)
<1>1. Fresh(s)
  BY ValidIsFresh
<1>2. SUFFICES ASSUME NEW h \in commits, h.epoch > readEpoch[s],
                      NEW i \in h.prog.puts, i \in prog[s].puts
               PROVE  FALSE
  BY DEF PutsFree
<1>3. UniqueKey(i) \in WriteKeys(h.prog) /\ UniqueKey(i) \in WriteKeys(prog[s])
  BY <1>2 DEF WriteKeys
<1>4. ~Overlap(WriteKeys(h.prog), WriteKeys(prog[s]))
  BY <1>1, <1>2 DEF Fresh
<1> QED
  BY <1>3, <1>4 DEF Overlap

\* A step that records no commit keeps the claim invariant if nobody gains a
\* claim or passes validation in it.
LEMMA QuietClaims ==
    ASSUME ClaimInv, UNCHANGED commits,
           \A u \in Sessions :
              /\ \A i \in Claims(u)' : i \in Claims(u)
              /\ pc'[u] \in {"checked", "versioned"} /\ ~pruned'[u] =>
                    /\ pc[u] \in {"checked", "versioned"} /\ ~pruned[u]
                    /\ readEpoch'[u] = readEpoch[u] /\ prog'[u] = prog[u]
    PROVE  ClaimInv'
<1>1. ClaimsDisjoint'
  BY DEF ClaimInv, ClaimsDisjoint
<1>2. PutsHold'
  BY DEF ClaimInv, PutsHold, PutsFree
<1>3. ClaimedPutsSerialize'
  BY DEF ClaimInv, ClaimedPutsSerialize
<1> QED
  BY <1>1, <1>2, <1>3 DEF ClaimInv

\* Ending a transaction only gives claims up.
LEMMA EndTxnClaims ==
    ASSUME IInv, ClaimInv, NEW s \in Sessions, EndTxn(s), UNCHANGED commits
    PROVE  ClaimInv'
<1>1. /\ \A u \in Sessions \ {s} :
            /\ pc'[u] = pc[u] /\ readEpoch'[u] = readEpoch[u]
            /\ pruned'[u] = pruned[u]
      /\ pc'[s] = "idle" /\ prog' = prog
  BY DEF EndTxn, IInv, TypeOK
<1>2. \A u \in Sessions : \A i \in Claims(u)' : i \in Claims(u)
  BY <1>1 DEF Claims
<1> QED
  BY <1>1, <1>2, QuietClaims

\* The sequencer records puts that nobody else claims, and that no commit after
\* its own snapshot made.
LEMMA SequenceClaims ==
    ASSUME IInv, ClaimInv, NEW s \in Sessions, Sequence(s)
    PROVE  ClaimInv'
<1> DEFINE e == assigned + 1
           c == [epoch |-> e, read |-> readEpoch[s], prog |-> prog[s],
                 inWindow |-> inWindow[s], pruned |-> pruned[s]]
<1>1. /\ pc[s] = "versioned" /\ commits' = commits \cup {c}
      /\ pc' = [pc EXCEPT ![s] = "sequenced"]
      /\ UNCHANGED <<prog, readEpoch, pruned>>
  BY DEF Sequence, SequenceCommit
<1>2. c.epoch = e /\ c.read = readEpoch[s] /\ c.prog = prog[s] /\ c.pruned = pruned[s]
  OBVIOUS
<1>3. /\ assigned \in Nat /\ e > assigned /\ e \in Nat
      /\ \A h \in commits : h.epoch \in 1..assigned
  BY DEF IInv, TypeOK, Commit
<1> HIDE DEF e, c
<1>4. pc'[s] = "sequenced" /\ \A u \in Sessions \ {s} : pc'[u] = pc[u]
  BY <1>1 DEF IInv, TypeOK
<1>5. \A u \in Sessions : Claims(u)' = Claims(u)
  BY <1>1, <1>4 DEF Claims
<1>6. ClaimsDisjoint'
  BY <1>5 DEF ClaimInv, ClaimsDisjoint
<1>7. PutsHold'
  <2>1. SUFFICES ASSUME NEW u \in Sessions, pc'[u] \in {"checked", "versioned"},
                        ~pruned[u], NEW h \in commits', h.epoch > readEpoch[u],
                        NEW i \in h.prog.puts
                 PROVE  i \notin prog[u].puts
    BY <1>1 DEF PutsHold, PutsFree
  <2>2. u # s /\ pc[u] = pc'[u]
    BY <1>4, <2>1
  <2>3. CASE h \in commits
    BY <2>1, <2>2, <2>3 DEF ClaimInv, PutsHold, PutsFree
  <2>4. CASE h = c
    <3>1. i \in Claims(s)
      BY <1>1, <1>2, <2>1, <2>4 DEF Claims
    <3>2. Claims(u) = prog[u].puts
      BY <2>1, <2>2 DEF Claims
    <3> QED
      BY <2>2, <3>1, <3>2 DEF ClaimInv, ClaimsDisjoint
  <2> QED
    BY <1>1, <2>3, <2>4
<1>8. ClaimedPutsSerialize'
  <2>1. SUFFICES ASSUME NEW h \in commits', NEW g \in commits', Concurrent(h, g),
                        ~g.pruned, NEW i, i \in h.prog.puts, i \in g.prog.puts
                 PROVE  FALSE
    BY DEF ClaimedPutsSerialize
  <2>2. CASE h \in commits /\ g \in commits
    BY <2>1, <2>2 DEF ClaimInv, ClaimedPutsSerialize
  <2>3. CASE h \in commits /\ g = c
    <3>1. h.epoch > readEpoch[s]
      BY <1>2, <1>3, <2>1, <2>3 DEF Concurrent, IInv, TypeOK
    <3>2. PutsFree(s)
      BY <1>1, <1>2, <2>1, <2>3 DEF ClaimInv, PutsHold
    <3> QED
      BY <1>2, <2>1, <2>3, <3>1, <3>2 DEF PutsFree
  <2>4. CASE h = c
    BY <1>1, <1>2, <1>3, <2>1, <2>4 DEF Concurrent
  <2> QED
    BY <1>1, <2>2, <2>3, <2>4
<1> QED
  BY <1>6, <1>7, <1>8 DEF ClaimInv

\* Every action keeps the claims apart and the claimed puts serial.
LEMMA NextClaimInv == IInv /\ ClaimInv /\ [Next]_vars => ClaimInv'
<1> SUFFICES ASSUME IInv, ClaimInv, [Next]_vars PROVE ClaimInv'
  OBVIOUS
<1>0. pc \in [Sessions -> PCs] /\ prog \in [Sessions -> Programs]
      /\ readEpoch \in [Sessions -> 0..visible] /\ pruned \in [Sessions -> BOOLEAN]
  BY DEF IInv, TypeOK
<1>1. ASSUME NEW s \in Sessions, NEW p \in Programs, BeginSnapshot(s, p) PROVE ClaimInv'
  <2>1. /\ \A u \in Sessions \ {s} :
              pc'[u] = pc[u] /\ readEpoch'[u] = readEpoch[u] /\ prog'[u] = prog[u]
        /\ pc'[s] = "snapped" /\ commits' = commits /\ pruned' = pruned
    BY <1>0, <1>1 DEF BeginSnapshot, ghosts
  <2>2. \A u \in Sessions : \A i \in Claims(u)' : i \in Claims(u)
    BY <2>1 DEF Claims
  <2> QED
    BY <2>1, <2>2, QuietClaims
<1>2. ASSUME NEW s \in Sessions, Register(s) PROVE ClaimInv'
  <2>1. /\ \A u \in Sessions \ {s} : pc'[u] = pc[u]
        /\ pc'[s] = "active" /\ UNCHANGED <<commits, pruned, prog, readEpoch>>
    BY <1>0, <1>2 DEF Register, ghosts
  <2>2. \A u \in Sessions : \A i \in Claims(u)' : i \in Claims(u)
    BY <2>1 DEF Claims
  <2> QED
    BY <2>1, <2>2, QuietClaims
<1>3. ASSUME NEW s \in Sessions, Claim(s) PROVE ClaimInv'
  <2>1. /\ \A u \in Sessions \ {s} : pc'[u] = pc[u]
        /\ pc'[s] = "claimed" /\ UNCHANGED <<commits, pruned, prog, readEpoch>>
        /\ \A u \in Sessions \ {s} : Claims(u) \cap prog[s].puts = {}
    BY <1>0, <1>3 DEF Claim, ghosts
  <2>2. /\ Claims(s)' = prog[s].puts
        /\ \A u \in Sessions \ {s} : Claims(u)' = Claims(u)
    BY <2>1 DEF Claims
  <2>3. ClaimsDisjoint'
    BY <2>1, <2>2 DEF ClaimInv, ClaimsDisjoint
  <2>4. PutsHold'
    BY <2>1 DEF ClaimInv, PutsHold, PutsFree
  <2>5. ClaimedPutsSerialize'
    BY <2>1 DEF ClaimInv, ClaimedPutsSerialize
  <2> QED
    BY <2>3, <2>4, <2>5 DEF ClaimInv
<1>4. ASSUME NEW s \in Sessions, Prune(s) PROVE ClaimInv'
  <2>1. /\ \A u \in Sessions \ {s} : pc'[u] = pc[u]
        /\ pc'[s] = "pruned" /\ pc[s] = "claimed"
        /\ UNCHANGED <<commits, prog, readEpoch>>
    BY <1>0, <1>4 DEF Prune
  <2>2. \A u \in Sessions : \A i \in Claims(u)' : i \in Claims(u)
    BY <2>1 DEF Claims
  <2>3. ASSUME NEW u \in Sessions, ~pruned'[u] PROVE ~pruned[u]
    <3>1. \/ pruned' = pruned
          \/ \E m \in Nat : pruned' = [v \in Sessions |->
                pruned[v] \/ (pc[v] = "snapped" /\ readEpoch[v] < m)]
      BY <1>0, <1>4 DEF Prune, Registered, IInv, TypeOK
    <3> QED
      BY <3>1, <2>3, Zenon
  <2> QED
    BY <2>1, <2>2, <2>3, QuietClaims
<1>5. ASSUME NEW s \in Sessions, PreValidate(s) PROVE ClaimInv'
  <2>1. /\ \A u \in Sessions \ {s} : pc'[u] = pc[u]
        /\ pc'[s] = "checked" /\ pc[s] = "pruned" /\ ~Invalid(s)
        /\ UNCHANGED <<commits, pruned, prog, readEpoch>>
    BY <1>0, <1>5 DEF PreValidate, ghosts
  <2>2. \A u \in Sessions : Claims(u)' = Claims(u)
    BY <2>1 DEF Claims
  <2>3. ClaimsDisjoint'
    BY <2>2 DEF ClaimInv, ClaimsDisjoint
  <2>4. ~pruned[s] => PutsFree(s)
    BY <2>1, ValidPutsFree
  <2>5. PutsHold'
    BY <2>1, <2>4 DEF ClaimInv, PutsHold, PutsFree
  <2>6. ClaimedPutsSerialize'
    BY <2>1 DEF ClaimInv, ClaimedPutsSerialize
  <2> QED
    BY <2>3, <2>5, <2>6 DEF ClaimInv
<1>6. ASSUME NEW s \in Sessions, LoadVersion(s) PROVE ClaimInv'
  <2>1. /\ \A u \in Sessions \ {s} : pc'[u] = pc[u]
        /\ pc'[s] = "versioned" /\ pc[s] = "checked"
        /\ UNCHANGED <<commits, pruned, prog, readEpoch>>
    BY <1>0, <1>6 DEF LoadVersion, ghosts
  <2>2. \A u \in Sessions : \A i \in Claims(u)' : i \in Claims(u)
    BY <2>1 DEF Claims
  <2> QED
    BY <2>1, <2>2, QuietClaims
<1>7. ASSUME NEW s \in Sessions, Sequence(s) PROVE ClaimInv'
  BY <1>7, SequenceClaims
<1>8. ASSUME NEW s \in Sessions, Publish(s) PROVE ClaimInv'
  BY <1>8, EndTxnClaims DEF Publish
<1>9. ASSUME NEW s \in Sessions, Abort(s) PROVE ClaimInv'
  BY <1>9, EndTxnClaims DEF Abort
<1>10. ASSUME NEW s \in Sessions, SequenceFails(s) PROVE ClaimInv'
  BY <1>10, EndTxnClaims DEF SequenceFails
<1>11. ASSUME AdvanceVisible PROVE ClaimInv'
  <2>1. UNCHANGED <<commits, pc, pruned, prog, readEpoch>>
    BY <1>11 DEF AdvanceVisible, ghosts
  <2>2. \A u \in Sessions : \A i \in Claims(u)' : i \in Claims(u)
    BY <2>1 DEF Claims
  <2> QED
    BY <2>1, <2>2, QuietClaims
<1>12. CASE UNCHANGED vars
  <2>1. UNCHANGED <<commits, pc, pruned, prog, readEpoch>>
    BY <1>12 DEF vars
  <2>2. \A u \in Sessions : \A i \in Claims(u)' : i \in Claims(u)
    BY <2>1 DEF Claims
  <2> QED
    BY <2>1, <2>2, QuietClaims
<1> QED
  BY <1>1, <1>2, <1>3, <1>4, <1>5, <1>6, <1>7, <1>8, <1>9, <1>10, <1>11, <1>12 DEF Next

\* Holding the unique-key claims from before validation until publication closes
\* the check/version window for puts: two concurrent commits never put the same
\* key, unless the index was pruned before the second one registered.
THEOREM ClaimedPutsAreSerial == Spec => []ClaimedPutsSerialize
<1>1. Init => ClaimInv
  BY DEF Init, ClaimInv, ClaimsDisjoint, Claims, PutsHold, ClaimedPutsSerialize
<1>2. ClaimInv => ClaimedPutsSerialize
  BY DEF ClaimInv
<1> QED
  BY <1>1, <1>2, NextClaimInv, IInvAlways, PTL DEF Spec
=============================================================================
