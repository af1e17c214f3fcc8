---------------------------- MODULE DistTxnProofs ----------------------------
(***************************************************************************)
(* The two-phase commit of dist_txn.rs is safe for any number of           *)
(* transactions, tablets and drivers: theorems about DistTxn, and the      *)
(* proof that it implements AtomicCommit.                                  *)
(*                                                                         *)
(* The argument: the prepare of a transaction at a tablet is applied once  *)
(* (its command id is remembered), so its timestamp never changes          *)
(* (Prepared); intents of an undecided transaction stay (LiveHeld), since  *)
(* only a decided record is ever broadcast (NetOK); a commit is proposed   *)
(* only when every participant is prepared, hence is applied only while    *)
(* all of them hold their intents.                                         *)
(***************************************************************************)
EXTENDS DistTxn, TLAPS

Prepared(t, p) == prepareTs[t][p] # 0

AllPrepared(t) == \A p \in writes[t] : Prepared(t, p)

(* Every proposal is one of those the drivers make, and what it carries is *)
(* still what the records say.                                             *)
BeginMsg(m) ==
    \E t \in Txns : \E obs \in asked[t] : m = Begin(t, obs)
MarkMsg(m) ==
    \E t \in Txns : \E p, q \in writes[t], obs \in asked[t] :
        /\ AllPrepared(t)
        /\ m = MarkPreparing(t, p, prepareTs[t][p],
                             Later(prepareTs[t][q], obs))
CommitMsg(m) ==
    \E t \in Txns, ts \in Times :
        /\ AllPrepared(t)
        /\ \A p \in writes[t] : prepareTs[t][p] < ts
        /\ \E x \in asked[t] : x < ts
        /\ m = Commit(t, ts)
AbortMsg(m) == \E t \in Txns, by \in {"driver", "push"} : m = Abort(t, by)
PrepareMsg(m) ==
    \E t \in Txns : \E p \in writes[t], ts \in Clock :
        m = PersistIntents(t, p, ts)
ResolveMsg(m) ==
    \E t \in Txns, p \in Tablets :
        /\ state[t] \in Terminal
        /\ m = Resolve(t, p, state[t], commitTs[t])

MsgOK(m) ==
    \/ BeginMsg(m) \/ MarkMsg(m) \/ CommitMsg(m)
    \/ AbortMsg(m) \/ PrepareMsg(m) \/ ResolveMsg(m)

NetOK == \A m \in net : MsgOK(m) /\ Id(m) \notin seen

(* What a driver remembers: a token is the prepare timestamp it was given, *)
(* `observed` what its request, or an earlier one, had observed.           *)
TokensOK(t, k) ==
    /\ k \in [Tablets -> Clock \cup {NoToken}]
    /\ \A p \in Tablets : k[p] # NoToken =>
         p \in writes[t] /\ Prepared(t, p) /\ k[p] = prepareTs[t][p]
HasTokens(t, k) == \A p \in writes[t] : k[p] # NoToken

PrepareState(s) ==
    \E t \in Txns, k \in [Tablets -> Clock \cup {NoToken}] :
    \E obs \in asked[t] :
        /\ TokensOK(t, k)
        /\ s = [pc |-> "prepare", txn |-> t, observed |-> obs, tokens |-> k]
MarkState(s) ==
    \E t \in Txns, k \in [Tablets -> Clock \cup {NoToken}],
       todo \in SUBSET Tablets :
    \E obs \in asked[t] :
        /\ TokensOK(t, k) /\ HasTokens(t, k) /\ todo \subseteq writes[t]
        /\ s = [pc |-> "mark", txn |-> t, observed |-> obs, tokens |-> k,
                todo |-> todo]
MarkingState(s) ==
    \E t \in Txns, k \in [Tablets -> Clock \cup {NoToken}],
       todo \in SUBSET Tablets, at \in Tablets :
    \E obs \in asked[t] :
        /\ TokensOK(t, k) /\ HasTokens(t, k) /\ todo \subseteq writes[t]
        /\ s = [pc |-> "marking", txn |-> t, observed |-> obs, tokens |-> k,
                todo |-> todo, at |-> at]
PlainState(s) ==
    \/ s = Idle
    \/ \E t \in Txns : \E obs \in asked[t] :
         s = [pc |-> "begin", txn |-> t, observed |-> obs]
    \/ \E t \in Txns, pc \in {"commit", "abort"}, ps \in SUBSET Tablets :
         s = [pc |-> pc, txn |-> t, targets |-> ps]
    \/ \E t \in Txns, ms \in [Tablets -> Nat], obs \in Nat :
       \E x \in asked[t] :
         /\ x <= obs
         /\ s = [pc |-> "probe", txn |-> t, marks |-> ms, observed |-> obs]

DriverOK(s) ==
    PlainState(s) \/ PrepareState(s) \/ MarkState(s) \/ MarkingState(s)

DrvsOK ==
    /\ drv = [d \in Drivers |-> drv[d]]
    /\ \A d \in Drivers : DriverOK(drv[d])

(* A prepare is applied once, and the journal of refusals is truthful. *)
PreparesSeen ==
    \A t \in Txns, p \in Tablets :
        /\ Prepared(t, p) => CommandId("Prepare", t, p) \in seen
        /\ Prepared(t, p) => p \in writes[t]
        /\ CommandId("Prepare", t, p) \in seen \ refused => Prepared(t, p)

(* Intents are held from their prepare until the record is decided. *)
LiveHeld ==
    \A t \in Txns, p \in Tablets :
        /\ intent[t][p] = "held" => Prepared(t, p)
        /\ Prepared(t, p) /\ state[t] \notin Terminal => intent[t][p] = "held"
        /\ intent[t][p] \in Terminal => state[t] = intent[t][p]

(* The marks of a record are prepare timestamps, and what it knows to be   *)
(* observed is one of them or was observed by a request; the request that  *)
(* made the record is among those.                                         *)
MarksOK ==
    \A t \in Txns :
        /\ \A p \in Tablets : markTs[t][p] # 0 =>
             p \in writes[t] /\ markTs[t][p] = prepareTs[t][p]
        /\ maxObserved[t] # 0 =>
             \/ maxObserved[t] \in asked[t]
             \/ \E q \in writes[t] : maxObserved[t] = prepareTs[t][q]
        /\ state[t] # "none" => \E x \in asked[t] : x <= maxObserved[t]

(* A committed transaction was prepared everywhere. *)
CommittedPrepared ==
    \A t \in Txns : state[t] = "Committed" => AllPrepared(t)

IInv ==
    /\ TypeOK /\ NetOK /\ DrvsOK /\ PreparesSeen /\ LiveHeld /\ MarksOK
    /\ CommittedPrepared /\ CommitIsWhole /\ AnswersAreFinal
    /\ CommitTsAfterPrepares /\ IntentsExclude

-----------------------------------------------------------------------------
(***************************************************************************)
(* What never changes: the write set, a prepare timestamp once given, a    *)
(* decision, and that a request was made.                                  *)
(***************************************************************************)
Grows ==
    /\ writes' = writes
    /\ \A t \in Txns, p \in Tablets :
         Prepared(t, p) => prepareTs'[t][p] = prepareTs[t][p]
    /\ \A t \in Txns : state[t] \in Terminal =>
         state'[t] = state[t] /\ commitTs'[t] = commitTs[t]
    /\ \A t \in Txns : asked[t] \subseteq asked'[t]

\* Write sets are sets of tablets.
LEMMA WritesAreTablets ==
  ASSUME TypeOK, NEW t \in Txns
  PROVE  writes[t] \in SUBSET Tablets
BY DistTxnAssumption DEF TypeOK

\* A proposal that is in order stays so.
LEMMA MsgKeeps ==
  ASSUME TypeOK, Grows, NEW m, MsgOK(m)
  PROVE  MsgOK(m)'
<1>1. CASE BeginMsg(m)
  BY <1>1 DEF BeginMsg, MsgOK, Grows
<1>2. CASE MarkMsg(m)
  BY <1>2, WritesAreTablets DEF MarkMsg, MsgOK, AllPrepared, Grows, Prepared
<1>3. CASE CommitMsg(m)
  BY <1>3, WritesAreTablets DEF CommitMsg, MsgOK, AllPrepared, Grows, Prepared
<1>4. CASE AbortMsg(m)
  BY <1>4 DEF AbortMsg, MsgOK
<1>5. CASE PrepareMsg(m)
  BY <1>5 DEF PrepareMsg, MsgOK, Grows
<1>6. CASE ResolveMsg(m)
  BY <1>6 DEF ResolveMsg, MsgOK, Grows
<1> QED
  BY <1>1, <1>2, <1>3, <1>4, <1>5, <1>6 DEF MsgOK

\* What a driver remembers stays true.
LEMMA DriverKeeps ==
  ASSUME Grows, NEW s, DriverOK(s)
  PROVE  DriverOK(s)'
<1>1. ASSUME NEW t \in Txns, NEW k, TokensOK(t, k) PROVE TokensOK(t, k)'
  BY <1>1 DEF TokensOK, Grows, Prepared
<1>2. \A t \in Txns : \A k : HasTokens(t, k) => HasTokens(t, k)'
  BY DEF HasTokens, Grows
<1>3. CASE PlainState(s)
  BY <1>3 DEF PlainState, DriverOK, Grows
<1>4. CASE PrepareState(s)
  BY <1>4, <1>1 DEF PrepareState, DriverOK, Grows
<1>5. CASE MarkState(s)
  BY <1>5, <1>1, <1>2 DEF MarkState, DriverOK, Grows
<1>6. CASE MarkingState(s)
  BY <1>6, <1>1, <1>2 DEF MarkingState, DriverOK, Grows
<1> QED
  BY <1>3, <1>4, <1>5, <1>6 DEF DriverOK
-----------------------------------------------------------------------------
(***************************************************************************)
(* The drivers.  They change no replicated state: it is enough that what   *)
(* they propose, remember and answer is in order.                          *)
(***************************************************************************)
\* A driver's step keeps the invariant if its proposals, its new state and its
\* answers are in order.
LEMMA DriverStep ==
  ASSUME IInv, NEW d \in Drivers, NEW s, DriverOK(s),
         drv' = [drv EXCEPT ![d] = s],
         UNCHANGED <<writes, record, participant, group, asked>>,
         NEW ms, \A m \in ms : MsgOK(m),
         net' = net \cup {m \in ms : Id(m) \notin seen},
         \/ answers' = answers
         \/ \E t \in Txns : /\ state[t] \in Terminal
                            /\ answers' = answers \cup {<<t, state[t]>>}
  PROVE  IInv'
<1>1. Grows
  BY DEF Grows, record, participant
<1>2. TypeOK'
  BY DEF IInv, TypeOK, record, participant
<1>3. NetOK'
  <2>1. ASSUME NEW m \in net' PROVE MsgOK(m) /\ Id(m) \notin seen
    BY <2>1 DEF IInv, NetOK
  <2>2. ASSUME NEW m \in net' PROVE MsgOK(m)' /\ Id(m) \notin seen'
    BY <1>1, <2>1, MsgKeeps DEF IInv, group
  <2> QED
    BY <2>2 DEF NetOK, Id, CommandId
<1>4. DrvsOK'
  <2>1. /\ drv' = [e \in Drivers |-> drv'[e]]
        /\ \A e \in Drivers : DriverOK(drv'[e])
    BY DEF IInv, DrvsOK
  <2>2. \A e \in Drivers : DriverOK(drv[e])'
    BY <1>1, <2>1, DriverKeeps
  <2> QED
    BY <2>1, <2>2 DEF DrvsOK
<1>5. /\ PreparesSeen' /\ LiveHeld' /\ MarksOK' /\ CommittedPrepared'
      /\ CommitIsWhole' /\ CommitTsAfterPrepares' /\ IntentsExclude'
  BY DEF IInv, PreparesSeen, LiveHeld, MarksOK, CommittedPrepared, AllPrepared,
         CommitIsWhole, CommitTsAfterPrepares, IntentsExclude, Prepared,
         record, participant, group
<1>6. AnswersAreFinal'
  BY DEF IInv, AnswersAreFinal, record
<1> QED
  BY <1>2, <1>3, <1>4, <1>5, <1>6 DEF IInv

\* The same for a step that proposes nothing and answers nobody.
LEMMA QuietDriverStep ==
  ASSUME IInv, NEW d \in Drivers, NEW s, DriverOK(s),
         drv' = [drv EXCEPT ![d] = s],
         UNCHANGED <<writes, record, participant, net, group, answers, asked>>
  PROVE  IInv'
<1> DEFINE ms == {}
<1>1. \A m \in ms : MsgOK(m)
  OBVIOUS
<1>2. net' = net \cup {m \in ms : Id(m) \notin seen}
  OBVIOUS
<1>3. UNCHANGED <<writes, record, participant, group, asked>> /\ answers' = answers
  OBVIOUS
<1> HIDE DEF ms
<1> QED
  BY <1>1, <1>2, <1>3, DriverStep

\* The same for a step that proposes one command and answers nobody.
LEMMA ProposingDriverStep ==
  ASSUME IInv, NEW d \in Drivers, NEW s, DriverOK(s), Become(d, s),
         NEW m, MsgOK(m), Propose({m}),
         UNCHANGED <<writes, record, participant, group, answers, asked>>
  PROVE  IInv'
<1> DEFINE ms == {m}
<1>1. \A n \in ms : MsgOK(n)
  OBVIOUS
<1>2. net' = net \cup {n \in ms : Id(n) \notin seen}
  BY DEF Propose
<1>3. drv' = [drv EXCEPT ![d] = s]
  BY DEF Become
<1>4. UNCHANGED <<writes, record, participant, group, asked>> /\ answers' = answers
  OBVIOUS
<1> HIDE DEF ms
<1> QED
  BY <1>1, <1>2, <1>3, <1>4, DriverStep

\* The form of a driver's state follows from its program counter.
LEMMA StateOfPc ==
  ASSUME NEW s, DriverOK(s)
  PROVE  /\ s.pc = "begin" => s.txn \in Txns /\ s.observed \in asked[s.txn]
         /\ s.pc = "prepare" => PrepareState(s)
         /\ s.pc = "mark" => MarkState(s)
         /\ s.pc = "marking" => MarkingState(s)
         /\ s.pc = "probe" =>
              /\ s.txn \in Txns /\ s.observed \in Nat
              /\ \E x \in asked[s.txn] : x <= s.observed
         /\ s.pc \in {"commit", "abort"} =>
              s.txn \in Txns /\ s.targets \in SUBSET Tablets
BY DEF DriverOK, PlainState, PrepareState, MarkState, MarkingState, Idle
\* A decided record may be broadcast.
LEMMA BroadcastMsgs ==
  ASSUME NEW t \in Txns, state[t] \in Terminal, NEW ps \in SUBSET Tablets
  PROVE  \A m \in {Resolve(t, p, state[t], commitTs[t]) : p \in ps} : MsgOK(m)
BY DEF MsgOK, ResolveMsg

\* Tokens of every participant: all are prepared.
LEMMA TokensPrepared ==
  ASSUME TypeOK, NEW t \in Txns, NEW k, TokensOK(t, k), HasTokens(t, k)
  PROVE  /\ AllPrepared(t)
         /\ \A p \in writes[t] : k[p] = prepareTs[t][p]
BY WritesAreTablets DEF AllPrepared, TokensOK, HasTokens

\* The states in which a driver waits for a decision or for nothing.
LEMMA WaitStates ==
  ASSUME TypeOK, NEW t \in Txns
  PROVE  /\ DriverOK(Idle)
         /\ \A ps \in SUBSET Tablets : \A pc \in {"commit", "abort"} :
              DriverOK([pc |-> pc, txn |-> t, targets |-> ps])
         /\ DriverOK([pc |-> "abort", txn |-> t, targets |-> writes[t]])
         /\ DriverOK([pc |-> "commit", txn |-> t, targets |-> writes[t]])
         /\ (\E x \in asked[t] : x <= maxObserved[t]) =>
              DriverOK([pc |-> "probe", txn |-> t, marks |-> markTs[t],
                        observed |-> maxObserved[t]])
<1>1. writes[t] \in SUBSET Tablets
  BY WritesAreTablets
<1>2. markTs[t] \in [Tablets -> Nat] /\ maxObserved[t] \in Nat
  BY DEF TypeOK
<1> QED
  BY <1>1, <1>2 DEF DriverOK, PlainState

\* A request to commit keeps the invariant: the proposed record carries what it
\* observed.
LEMMA RequestStep ==
  ASSUME IInv, NEW d \in Drivers, NEW t \in Txns, NEW obs \in Observed,
         StartCommit(d, t, obs)
  PROVE  IInv'
<1> DEFINE s == [pc |-> "begin", txn |-> t, observed |-> obs]
           b == Begin(t, obs)
<1>1. /\ asked' = [asked EXCEPT ![t] = @ \cup {obs}]
      /\ drv' = [drv EXCEPT ![d] = s]
      /\ net' \subseteq net \cup {b}
      /\ \A m \in net' : m \in net \/ Id(m) \notin seen
      /\ UNCHANGED <<writes, record, participant, group, answers>>
  BY DEF StartCommit, Become, Propose
<1>2. TypeOK'
  <2>1. asked' \in [Txns -> SUBSET Observed]
    BY <1>1 DEF IInv, TypeOK
  <2> QED
    BY <1>1, <2>1 DEF IInv, TypeOK, record, participant
<1>3. \A u \in Txns : asked[u] \subseteq asked'[u]
  BY <1>1 DEF IInv, TypeOK
<1>4. obs \in asked'[t]
  BY <1>1 DEF IInv, TypeOK
<1>5. Grows
  BY <1>1, <1>3 DEF Grows, record, participant
<1>6. NetOK'
  <2>1. MsgOK(b)'
    BY <1>4 DEF MsgOK, BeginMsg
  <2>2. ASSUME NEW m \in net' PROVE Id(m) \notin seen'
    BY <1>1 DEF IInv, NetOK, group
  <2>3. ASSUME NEW m \in net' PROVE MsgOK(m)'
    <3>1. CASE m \in net
      BY <3>1, <1>5, MsgKeeps DEF IInv, NetOK
    <3>2. CASE m = b
      BY <3>2, <2>1
    <3> HIDE DEF b
    <3> QED
      BY <1>1, <3>1, <3>2
  <2> QED
    BY <2>2, <2>3 DEF NetOK, Id, CommandId
<1>7. DrvsOK'
  <2>1. DriverOK(s)'
    BY <1>4 DEF DriverOK, PlainState
  <2>2. drv' = [e \in Drivers |-> drv'[e]] /\ drv'[d] = s
    BY <1>1 DEF IInv, DrvsOK
  <2>3. ASSUME NEW e \in Drivers, e # d PROVE drv'[e] = drv[e]
    BY <1>1, <2>3 DEF IInv, DrvsOK
  <2>4. \A e \in Drivers : DriverOK(drv[e])'
    <3>1. ASSUME NEW e \in Drivers, e # d PROVE DriverOK(drv[e])'
      <4>1. DriverOK(drv[e])
        BY DEF IInv, DrvsOK
      <4> QED
        BY <1>5, <2>3, <3>1, <4>1, DriverKeeps
    <3> QED
      BY <2>1, <2>2, <3>1
  <2> QED
    BY <2>2, <2>4 DEF DrvsOK
<1>8. MarksOK'
  BY <1>1, <1>3 DEF IInv, MarksOK, record, participant
<1>9. /\ PreparesSeen' /\ LiveHeld' /\ CommittedPrepared' /\ CommitIsWhole'
      /\ CommitTsAfterPrepares' /\ IntentsExclude' /\ AnswersAreFinal'
  BY <1>1 DEF IInv, PreparesSeen, LiveHeld, CommittedPrepared, AllPrepared,
              CommitIsWhole, CommitTsAfterPrepares, IntentsExclude, Prepared,
              AnswersAreFinal, record, participant, group
<1> QED
  BY <1>2, <1>6, <1>7, <1>8, <1>9 DEF IInv

\* A driver that starts an operation (commit, abort, recover, push_expired,
\* resolve_orphan) keeps the invariant.
LEMMA OperationKeeps ==
  ASSUME IInv, NEW d \in Drivers, Operation(d)
  PROVE  IInv'
<1>t. TypeOK
  BY DEF IInv
<1>i. drv = [drv EXCEPT ![d] = drv[d]] /\ DriverOK(drv[d])
  BY DEF IInv, DrvsOK
<1>1. ASSUME NEW t \in Txns, NEW obs \in Observed, StartCommit(d, t, obs)
      PROVE  IInv'
  BY <1>1, RequestStep
<1>2. ASSUME NEW t \in Txns, NEW by \in {"driver", "push"}
      PROVE  MsgOK(Abort(t, by))
  BY DEF MsgOK, AbortMsg
<1>3. ASSUME NEW t \in Txns, StartAbort(d, t) PROVE IInv'
  <2>1. DriverOK([pc |-> "abort", txn |-> t, targets |-> writes[t]])
    BY <1>t, WaitStates
  <2> QED
    BY <1>3, <1>2, <2>1, ProposingDriverStep DEF StartAbort
<1>4. ASSUME NEW t \in Txns, RecoverRead(d, t) PROVE IInv'
  <2>1. \E x \in asked[t] : x <= maxObserved[t]
    BY <1>4 DEF RecoverRead, Live, IInv, MarksOK
  <2> QED
    BY <1>4, <1>t, <2>1, WaitStates, QuietDriverStep DEF RecoverRead, Become
<1>5. ASSUME NEW t \in Txns, NEW ps \in SUBSET Tablets, Rebroadcast(d, t, ps)
      PROVE  IInv'
  BY <1>5, <1>i, BroadcastMsgs, DriverStep
     DEF Rebroadcast, Broadcast, Propose
<1>6. ASSUME NEW t \in Txns, NEW ps \in SUBSET Tablets, PushExpired(d, t, ps)
      PROVE  IInv'
  <2>1. DriverOK([pc |-> "abort", txn |-> t, targets |-> ps])
    BY <1>t, WaitStates
  <2> QED
    BY <1>6, <1>2, <2>1, ProposingDriverStep DEF PushExpired
<1>7. ASSUME NEW t \in Txns, NEW p \in Tablets, SweepOrphan(d, t, p)
      PROVE  IInv'
  BY <1>7, <1>5, <1>6 DEF SweepOrphan
<1> QED
  BY <1>t, <1>1, <1>3, <1>4, <1>5, <1>6, <1>7, WritesAreTablets DEF Operation

\* A driver that continues or gives up keeps the invariant.
LEMMA ContinueKeeps ==
  ASSUME IInv, NEW d \in Drivers, Continue(d)
  PROVE  IInv'
<1> USE DEF Busy
<1>t. TypeOK
  BY DEF IInv
<1>i. drv = [e \in Drivers |-> drv[e]] /\ DriverOK(drv[d])
  BY DEF IInv, DrvsOK
<1>a. ASSUME NEW t \in Txns PROVE \A m \in {Abort(t, "driver")} : MsgOK(m)
  BY DEF MsgOK, AbortMsg
<1>1. ASSUME NEW now \in Clock, BeginDone(d, now) PROVE IInv'
  <2> DEFINE t == drv[d].txn
  <2>1. t \in Txns /\ drv[d].observed \in asked[t]
    BY <1>1, <1>i, StateOfPc DEF BeginDone
  <2>2. writes[t] \in SUBSET Tablets
    BY <1>t, <2>1, WritesAreTablets
  <2>3. CASE state[t] \in Terminal
    <3>1. DriverOK(Idle)
      BY <1>t, <2>1, WaitStates
    <3> DEFINE ms == {Resolve(t, p, state[t], commitTs[t]) : p \in writes[t]}
    <3>2. \A m \in ms : MsgOK(m)
      BY <2>1, <2>2, <2>3, BroadcastMsgs
    <3>3. /\ net' = net \cup {m \in ms : Id(m) \notin seen}
          /\ drv' = [drv EXCEPT ![d] = Idle]
          /\ answers' = answers \cup {<<t, state[t]>>}
          /\ UNCHANGED <<writes, record, participant, group, asked>>
      BY <1>1, <2>3 DEF BeginDone, Broadcast, Answer, Propose, Become
    <3> HIDE DEF ms, t
    <3> QED
      BY <2>1, <2>3, <3>1, <3>2, <3>3, DriverStep
  <2>4. CASE state[t] \notin Terminal
    <3> DEFINE ms == {PersistIntents(t, p, now) : p \in writes[t]}
               k  == [p \in Tablets |-> NoToken]
               s  == [pc |-> "prepare", txn |-> t,
                      observed |-> drv[d].observed, tokens |-> k]
    <3>1. \A m \in ms : MsgOK(m)
      BY <2>1 DEF MsgOK, PrepareMsg
    <3>2. TokensOK(t, k)
      BY DEF TokensOK
    <3>3. DriverOK(s)
      BY <2>1, <3>2 DEF DriverOK, PrepareState
    <3>4. /\ net' = net \cup {m \in ms : Id(m) \notin seen}
          /\ drv' = [drv EXCEPT ![d] = s]
          /\ answers' = answers
          /\ UNCHANGED <<writes, record, participant, group, asked>>
      BY <1>1, <2>4 DEF BeginDone, Propose, Become
    <3> HIDE DEF ms, t, s
    <3> QED
      BY <3>1, <3>3, <3>4, DriverStep
  <2> QED
    BY <2>3, <2>4
<1>2. ASSUME NEW p \in Tablets, PrepareDone(d, p) PROVE IInv'
  <2>a. PICK t \in Txns, k \in [Tablets -> Clock \cup {NoToken}] :
             \E obs \in asked[t] :
               /\ TokensOK(t, k)
               /\ drv[d] = [pc |-> "prepare", txn |-> t, observed |-> obs,
                            tokens |-> k]
    BY <1>2, <1>i, StateOfPc DEF PrepareDone, PrepareState
  <2>1. PICK obs \in asked[t] :
             /\ TokensOK(t, k)
             /\ drv[d] = [pc |-> "prepare", txn |-> t, observed |-> obs,
                          tokens |-> k]
    BY <2>a
  <2> DEFINE j == [k EXCEPT ![p] = prepareTs[t][p]]
             s == [pc |-> "prepare", txn |-> t, observed |-> obs,
                   tokens |-> j]
  <2>2. p \in writes[t] /\ Prepared(t, p) /\ prepareTs[t][p] \in Clock
    BY <1>2, <1>t, <2>1 DEF PrepareDone, IInv, PreparesSeen, TypeOK, Prepared
  <2>3. TokensOK(t, j)
    BY <2>1, <2>2 DEF TokensOK
  <2>4. DriverOK(s)
    BY <2>3 DEF DriverOK, PrepareState, TokensOK
  <2>5. drv' = [drv EXCEPT ![d] = s]
    <3>1. [drv[d] EXCEPT !.tokens[p] = prepareTs[t][p]] = s
      BY <2>1
    <3>2. drv[d].txn = t
      BY <2>1
    <3> HIDE DEF s
    <3> QED
      BY <1>2, <3>1, <3>2 DEF PrepareDone, Become
  <2> HIDE DEF s
  <2> QED
    BY <1>2, <2>4, <2>5, QuietDriverStep DEF PrepareDone
<1>3. ASSUME PrepareFails(d) PROVE IInv'
  <2>1. drv[d].txn \in Txns
    BY <1>3, <1>i, StateOfPc DEF PrepareFails, PrepareState
  <2>2. DriverOK([pc |-> "abort", txn |-> drv[d].txn,
                  targets |-> writes[drv[d].txn]])
    BY <1>t, <2>1, WaitStates
  <2> QED
    BY <1>3, <1>a, <2>1, <2>2, ProposingDriverStep DEF PrepareFails
<1>4. ASSUME PreparesDone(d) PROVE IInv'
  <2>a. PICK t \in Txns, k \in [Tablets -> Clock \cup {NoToken}] :
             \E obs \in asked[t] :
               /\ TokensOK(t, k)
               /\ drv[d] = [pc |-> "prepare", txn |-> t, observed |-> obs,
                            tokens |-> k]
    BY <1>4, <1>i, StateOfPc DEF PreparesDone, PrepareState
  <2>1. PICK obs \in asked[t] :
             /\ TokensOK(t, k)
             /\ drv[d] = [pc |-> "prepare", txn |-> t, observed |-> obs,
                          tokens |-> k]
    BY <2>a
  <2> DEFINE s == [pc |-> "mark", txn |-> t, observed |-> obs, tokens |-> k,
                   todo |-> writes[t]]
  <2>2. HasTokens(t, k)
    BY <1>4, <2>1 DEF PreparesDone, AllTokens, HasTokens
  <2>3. DriverOK(s)
    BY <1>t, <2>1, <2>2, WritesAreTablets DEF DriverOK, MarkState
  <2>4. drv' = [drv EXCEPT ![d] = s]
    BY <1>4, <2>1 DEF PreparesDone, Become
  <2> HIDE DEF s
  <2> QED
    BY <1>4, <2>3, <2>4, QuietDriverStep DEF PreparesDone
<1>5. ASSUME NEW p \in Tablets, MarkPrepared(d, p) PROVE IInv'
  <2>a. PICK t \in Txns, k \in [Tablets -> Clock \cup {NoToken}],
             todo \in SUBSET Tablets :
           \E obs \in asked[t] :
             /\ TokensOK(t, k) /\ HasTokens(t, k) /\ todo \subseteq writes[t]
             /\ drv[d] = [pc |-> "mark", txn |-> t, observed |-> obs,
                          tokens |-> k, todo |-> todo]
    BY <1>5, <1>i, StateOfPc DEF MarkPrepared, MarkState
  <2>1. PICK obs \in asked[t] :
           /\ TokensOK(t, k) /\ HasTokens(t, k) /\ todo \subseteq writes[t]
           /\ drv[d] = [pc |-> "mark", txn |-> t, observed |-> obs,
                        tokens |-> k, todo |-> todo]
    BY <2>a
  <2>2. PICK q \in writes[t] :
           Propose({MarkPreparing(t, p, k[p], Later(k[q], obs))})
    BY <1>5, <2>1 DEF MarkPrepared
  <2> DEFINE s == [pc |-> "marking", txn |-> t, observed |-> obs,
                   tokens |-> k, todo |-> todo \ {p}, at |-> p]
  <2>3. p \in writes[t] /\ AllPrepared(t)
        /\ k[p] = prepareTs[t][p] /\ k[q] = prepareTs[t][q]
    BY <1>5, <1>t, <2>1, <2>2, TokensPrepared DEF MarkPrepared
  <2>4. MsgOK(MarkPreparing(t, p, k[p], Later(k[q], obs)))
    BY <2>3 DEF MsgOK, MarkMsg
  <2>5. todo \ {p} \in SUBSET Tablets /\ todo \ {p} \subseteq writes[t]
    BY <2>1
  <2>6. DriverOK(s)
    BY <2>1, <2>5 DEF DriverOK, MarkingState
  <2>7. Become(d, s)
    BY <1>5, <2>1 DEF MarkPrepared
  <2> HIDE DEF s
  <2> QED
    BY <1>5, <2>2, <2>4, <2>6, <2>7, ProposingDriverStep DEF MarkPrepared
<1>6. ASSUME MarkDone(d) PROVE IInv'
  <2>a. PICK t \in Txns, k \in [Tablets -> Clock \cup {NoToken}],
             todo \in SUBSET Tablets, at \in Tablets :
           \E obs \in asked[t] :
             /\ TokensOK(t, k) /\ HasTokens(t, k) /\ todo \subseteq writes[t]
             /\ drv[d] = [pc |-> "marking", txn |-> t, observed |-> obs,
                          tokens |-> k, todo |-> todo, at |-> at]
    BY <1>6, <1>i, StateOfPc DEF MarkDone, MarkingState
  <2>1. PICK obs \in asked[t] :
           /\ TokensOK(t, k) /\ HasTokens(t, k) /\ todo \subseteq writes[t]
           /\ drv[d] = [pc |-> "marking", txn |-> t, observed |-> obs,
                        tokens |-> k, todo |-> todo, at |-> at]
    BY <2>a
  <2> DEFINE s == [pc |-> "mark", txn |-> t, observed |-> obs, tokens |-> k,
                   todo |-> todo]
  <2>2. DriverOK(s)
    BY <2>1 DEF DriverOK, MarkState
  <2>3. drv' = [drv EXCEPT ![d] = s]
    BY <1>6, <2>1 DEF MarkDone, Become
  <2> HIDE DEF s
  <2> QED
    BY <1>6, <2>2, <2>3, QuietDriverStep DEF MarkDone
<1>7. ASSUME MarkFails(d) PROVE IInv'
  <2>1. drv[d].txn \in Txns
    BY <1>7, <1>i, StateOfPc DEF MarkFails, MarkingState
  <2>2. DriverOK([pc |-> "abort", txn |-> drv[d].txn,
                  targets |-> writes[drv[d].txn]])
    BY <1>t, <2>1, WaitStates
  <2> QED
    BY <1>7, <1>a, <2>1, <2>2, ProposingDriverStep DEF MarkFails
<1>c. ASSUME NEW t \in Txns, NEW ts \in Times, AllPrepared(t),
             \A p \in writes[t] : prepareTs[t][p] < ts,
             \E x \in asked[t] : x < ts,
             Propose({Commit(t, ts)}),
             Become(d, [pc |-> "commit", txn |-> t, targets |-> writes[t]]),
             UNCHANGED <<writes, record, participant, group, answers, asked>>
      PROVE  IInv'
  <2>1. MsgOK(Commit(t, ts))
    BY <1>c DEF MsgOK, CommitMsg
  <2>2. DriverOK([pc |-> "commit", txn |-> t, targets |-> writes[t]])
    BY <1>t, WaitStates
  <2> QED
    BY <1>c, <2>1, <2>2, ProposingDriverStep
<1>8. ASSUME NEW ts \in Times, DecideCommit(d, ts) PROVE IInv'
  <2>1. PICK t \in Txns, k \in [Tablets -> Clock \cup {NoToken}] :
           /\ TokensOK(t, k) /\ HasTokens(t, k)
           /\ drv[d].txn = t /\ drv[d].tokens = k
           /\ drv[d].observed \in asked[t]
    BY <1>8, <1>i, StateOfPc
       DEF DecideCommit, PrepareState, MarkState, AllTokens, HasTokens
  <2>2. AllPrepared(t) /\ \A p \in writes[t] : prepareTs[t][p] < ts
    BY <1>8, <1>t, <2>1, TokensPrepared DEF DecideCommit
  <2>3. \E x \in asked[t] : x < ts
    BY <1>8, <2>1 DEF DecideCommit
  <2> QED
    BY <1>8, <1>c, <2>1, <2>2, <2>3 DEF DecideCommit
<1>9. ASSUME NEW ts \in Times, RecoverCommit(d, ts) PROVE IInv'
  <2>1. /\ drv[d].txn \in Txns /\ drv[d].observed \in Nat
        /\ \E x \in asked[drv[d].txn] : x <= drv[d].observed
    BY <1>9, <1>i, StateOfPc DEF RecoverCommit
  <2>2. AllPrepared(drv[d].txn)
        /\ \A p \in writes[drv[d].txn] : prepareTs[drv[d].txn][p] < ts
    BY <1>9, DistTxnAssumption DEF RecoverCommit, AllPrepared, Prepared
  <2>3. \E x \in asked[drv[d].txn] : x < ts
    <3>1. PICK x \in asked[drv[d].txn] : x <= drv[d].observed
      BY <2>1
    <3>2. drv[d].observed < ts /\ ts \in Nat
      BY <1>9, DistTxnAssumption DEF RecoverCommit
    <3>3. x \in Nat
      BY <1>t, <2>1, DistTxnAssumption DEF TypeOK
    <3> QED
      BY <2>1, <3>1, <3>2, <3>3
  <2> QED
    BY <1>9, <1>c, <2>1, <2>2, <2>3 DEF RecoverCommit
<1>10. ASSUME Finalize(d) PROVE IInv'
  <2> DEFINE t == drv[d].txn
  <2>1. t \in Txns /\ drv[d].targets \in SUBSET Tablets /\ DriverOK(Idle)
    BY <1>10, <1>i, <1>t, StateOfPc, WaitStates DEF Finalize
  <2>2. CASE state[t] \in Terminal
    <3> DEFINE ms == {Resolve(t, p, state[t], commitTs[t]) : p \in drv[d].targets}
    <3>1. \A m \in ms : MsgOK(m)
      BY <2>1, <2>2, BroadcastMsgs
    <3>2. /\ net' = net \cup {m \in ms : Id(m) \notin seen}
          /\ drv' = [drv EXCEPT ![d] = Idle]
          /\ answers' = answers \cup {<<t, state[t]>>}
          /\ UNCHANGED <<writes, record, participant, group, asked>>
      BY <1>10, <2>2 DEF Finalize, Broadcast, Answer, Propose, Become
    <3> HIDE DEF ms, t
    <3> QED
      BY <2>1, <2>2, <3>1, <3>2, DriverStep
  <2>3. CASE state[t] \notin Terminal
    BY <1>10, <2>1, <2>3, QuietDriverStep DEF Finalize, Become
  <2> QED
    BY <2>2, <2>3
<1>11. ASSUME GiveUp(d) PROVE IInv'
  <2>1. DriverOK(Idle)
    BY DEF DriverOK, PlainState
  <2> QED
    BY <1>11, <2>1, QuietDriverStep DEF GiveUp, Become
<1> QED
  BY <1>1, <1>2, <1>3, <1>4, <1>5, <1>6, <1>7, <1>8, <1>9, <1>10, <1>11
     DEF Continue
-----------------------------------------------------------------------------
(***************************************************************************)
(* The groups.                                                             *)
(***************************************************************************)
\* Updating one entry of a table of tables.
LEMMA NestedUpdate ==
  ASSUME NEW A, NEW B, NEW C, NEW f \in [A -> [B -> C]],
         NEW a \in A, NEW b \in B, NEW c \in C, NEW g,
         g = [f EXCEPT ![a][b] = c]
  PROVE  /\ g \in [A -> [B -> C]]
         /\ \A x \in A, y \in B :
              g[x][y] = IF x = a /\ y = b THEN c ELSE f[x][y]
<1>1. [f[a] EXCEPT ![b] = c] \in [B -> C]
  OBVIOUS
<1>2. g = [f EXCEPT ![a] = [f[a] EXCEPT ![b] = c]]
  OBVIOUS
<1> QED
  BY <1>1, <1>2

\* The contents of a proposal follow from its kind.
LEMMA MsgOfKind ==
  ASSUME NEW m, MsgOK(m)
  PROVE  /\ m.txn \in Txns
         /\ m.kind = "Begin" => BeginMsg(m)
         /\ m.kind = "Mark" => MarkMsg(m)
         /\ m.kind = "Commit" => CommitMsg(m)
         /\ m.kind = "Prepare" => PrepareMsg(m)
         /\ m.kind = "Resolve" => ResolveMsg(m)
         /\ m.kind = "Commit" => Id(m) = CommandId("Commit", m.txn, None)
         /\ m.kind = "Prepare" => Id(m) = CommandId("Prepare", m.txn, m.tablet)
         /\ m.kind # "Prepare" =>
              \A t \in Txns, p \in Tablets : Id(m) # CommandId("Prepare", t, p)
BY DEF MsgOK, BeginMsg, MarkMsg, CommitMsg, AbortMsg, PrepareMsg, ResolveMsg,
       Begin, MarkPreparing, Commit, Abort, PersistIntents, Resolve, Id,
       CommandId

\* Applying an entry uses up its id: what is left in the net is still in order.
LEMMA NetKeeps ==
  ASSUME IInv, Grows, NEW m \in net, NEW rejected, Applied(m, rejected)
  PROVE  NetOK'
<1>1. \A n \in net' : n \in net /\ Id(n) # Id(m)
  BY DEF Applied
<1>2. seen' = seen \cup {Id(m)}
  BY DEF Applied
<1>3. \A n \in net' : MsgOK(n) /\ Id(n) \notin seen'
  BY <1>1, <1>2 DEF IInv, NetOK
<1>4. ASSUME NEW n \in net' PROVE MsgOK(n)'
  BY <1>3, <1>4, MsgKeeps DEF IInv
<1> QED
  BY <1>3, <1>4 DEF NetOK, Id, CommandId

\* The drivers' memory stays in order when a group applies an entry.
LEMMA DriversKeep ==
  ASSUME IInv, Grows, drv' = drv
  PROVE  DrvsOK'
<1>1. \A d \in Drivers : DriverOK(drv[d])'
  BY DriverKeeps DEF IInv, DrvsOK
<1> QED
  BY <1>1 DEF IInv, DrvsOK

\* The status group's commands do not touch the prepares.
LEMMA PreparesKept ==
  ASSUME IInv, NEW m \in net, m.kind # "Prepare", NEW rejected,
         Applied(m, rejected), UNCHANGED <<writes, prepareTs>>
  PROVE  PreparesSeen'
<1>1. \A t \in Txns, p \in Tablets : Id(m) # CommandId("Prepare", t, p)
  BY MsgOfKind DEF IInv, NetOK
<1>2. \A t \in Txns, p \in Tablets :
        /\ CommandId("Prepare", t, p) \in seen
             <=> CommandId("Prepare", t, p) \in seen'
        /\ CommandId("Prepare", t, p) \in refused
             <=> CommandId("Prepare", t, p) \in refused'
  BY <1>1 DEF Applied
<1> QED
  BY <1>2 DEF IInv, PreparesSeen, Prepared, CommandId

\* Begin keeps the invariant: the first record stands.
LEMMA BeginKeeps ==
  ASSUME IInv, NEW m \in net, ApplyBegin(m)
  PROVE  IInv'
<1>1. m.txn \in Txns
  BY MsgOfKind DEF IInv, NetOK
<1>o. m.observed \in asked[m.txn] /\ m.observed \in Nat
  <2>1. BeginMsg(m)
    BY MsgOfKind DEF ApplyBegin, IInv, NetOK
  <2>2. m.observed \in asked[m.txn]
    BY <2>1 DEF BeginMsg, Begin
  <2> QED
    BY <1>1, <2>2, DistTxnAssumption DEF IInv, TypeOK
<1>2. TypeOK'
  BY <1>1, <1>o DEF ApplyBegin, IInv, TypeOK, States, Live, participant
<1>3. \A t \in Txns : state[t] \in Terminal => state'[t] = state[t]
  BY <1>1 DEF ApplyBegin, IInv, TypeOK, Terminal
<1>4. \A t \in Txns : state'[t] \in Terminal => state'[t] = state[t]
  BY <1>1 DEF ApplyBegin, IInv, TypeOK, Terminal
<1>5. Grows
  BY <1>3 DEF ApplyBegin, Grows, participant
<1>6. NetOK' /\ DrvsOK' /\ PreparesSeen'
  BY <1>5, NetKeeps, DriversKeep, PreparesKept DEF ApplyBegin, participant
<1>7. LiveHeld'
  BY <1>3, <1>4 DEF ApplyBegin, IInv, LiveHeld, Prepared, participant
<1>a. \A t \in Txns :
         \/ state'[t] = state[t] /\ maxObserved'[t] = maxObserved[t]
         \/ /\ state[t] = "none" /\ state'[t] = "Pending"
            /\ t = m.txn /\ maxObserved'[t] = m.observed
  BY <1>1 DEF ApplyBegin, IInv, TypeOK
<1>8. MarksOK' /\ IntentsExclude'
  BY <1>a, <1>o DEF ApplyBegin, IInv, MarksOK, IntentsExclude, participant
<1>9. CommittedPrepared' /\ CommitIsWhole' /\ CommitTsAfterPrepares'
  BY <1>4, <1>a DEF ApplyBegin, IInv, CommittedPrepared, AllPrepared, Prepared,
              CommitIsWhole, CommitTsAfterPrepares, Terminal, participant
<1>10. AnswersAreFinal'
  BY <1>3 DEF ApplyBegin, IInv, TypeOK, AnswersAreFinal
<1> QED
  BY <1>2, <1>6, <1>7, <1>8, <1>9, <1>10 DEF IInv

\* A mark keeps the invariant: it records timestamps of prepares.
LEMMA MarkKeeps ==
  ASSUME IInv, NEW m \in net, ApplyMark(m)
  PROVE  IInv'
<1>1. m.txn \in Txns /\ MarkMsg(m)
  BY MsgOfKind DEF IInv, NetOK, ApplyMark
<1>2. PICK u \in Txns : \E p, q \in writes[u], obs \in asked[u] :
         m = MarkPreparing(u, p, prepareTs[u][p],
                           Later(prepareTs[u][q], obs))
  BY <1>1 DEF MarkMsg
<1>3. PICK p \in writes[u], q \in writes[u], obs \in asked[u] :
         m = MarkPreparing(u, p, prepareTs[u][p],
                           Later(prepareTs[u][q], obs))
  BY <1>2
<1>4. /\ m.txn = u /\ m.tablet = p
      /\ m.ts = prepareTs[u][p] /\ m.observed = Later(prepareTs[u][q], obs)
  BY <1>3 DEF MarkPreparing
<1>5. p \in Tablets /\ q \in Tablets
  BY <1>3, WritesAreTablets DEF IInv
<1>o. obs \in Nat
  BY <1>3, DistTxnAssumption DEF IInv, TypeOK
<1>a. prepareTs[u][p] \in Nat /\ prepareTs[u][q] \in Nat
  <2>1. prepareTs[u] \in [Tablets -> Clock \cup {0}]
    BY DEF IInv, TypeOK
  <2>2. \A c \in Clock \cup {0} : c \in Nat
    BY DistTxnAssumption
  <2> QED
    BY <1>5, <2>1, <2>2
<1>m. \/ UNCHANGED <<state, markTs, maxObserved>>
      \/ /\ state[u] \in Live
         /\ markTs' = [markTs EXCEPT ![u][p] = prepareTs[u][p]]
         /\ maxObserved' = [maxObserved EXCEPT
                              ![u] = Later(@, Later(prepareTs[u][q], obs))]
         /\ state' = [state EXCEPT ![u] = "Preparing"]
  BY <1>4 DEF ApplyMark
<1>n. \A t \in Txns :
         \/ state'[t] = state[t] /\ maxObserved'[t] = maxObserved[t]
         \/ /\ t = u /\ state[t] \in Live /\ state'[t] = "Preparing"
            /\ maxObserved[t] <= maxObserved'[t]
            /\ maxObserved'[t] \in {maxObserved[t], prepareTs[u][q], obs}
  <2>1. maxObserved \in [Txns -> Nat] /\ state \in [Txns -> States]
    BY DEF IInv, TypeOK
  <2> QED
    BY <2>1, <1>m, <1>a, <1>o DEF Later
<1>b. TypeOK'
  <2>1. state' \in [Txns -> States]
    BY <1>4 DEF ApplyMark, IInv, TypeOK, States, Live
  <2>2. markTs' \in [Txns -> [Tablets -> Nat]]
    <3>1. markTs \in [Txns -> [Tablets -> Nat]]
      BY DEF IInv, TypeOK
    <3>2. ASSUME markTs' = [markTs EXCEPT ![u][p] = prepareTs[u][p]]
          PROVE  markTs' \in [Txns -> [Tablets -> Nat]]
      BY <3>1, <3>2, <1>a, <1>5, NestedUpdate
    <3> QED
      BY <3>1, <3>2, <1>m
  <2>3. maxObserved' \in [Txns -> Nat]
    <3>1. maxObserved \in [Txns -> Nat]
      BY DEF IInv, TypeOK
    <3>2. Later(maxObserved[u], Later(prepareTs[u][q], obs)) \in Nat
      BY <3>1, <1>a, <1>o DEF Later
    <3> QED
      BY <3>1, <3>2, <1>m
  <2> QED
    BY <2>1, <2>2, <2>3 DEF ApplyMark, IInv, TypeOK, participant
<1>6. \A t \in Txns : /\ state[t] \in Terminal => state'[t] = state[t]
                      /\ state'[t] \in Terminal => state'[t] = state[t]
  BY <1>1 DEF ApplyMark, IInv, TypeOK, Terminal, Live
<1>7. Grows
  BY <1>6 DEF ApplyMark, Grows, participant
<1>8. NetOK' /\ DrvsOK' /\ PreparesSeen'
  BY <1>7, NetKeeps, DriversKeep, PreparesKept DEF ApplyMark, participant
<1>9. LiveHeld'
  BY <1>6 DEF ApplyMark, IInv, LiveHeld, Prepared, participant
<1>10. MarksOK'
  <2>1. ASSUME NEW t \in Txns, NEW r \in Tablets, markTs'[t][r] # 0
        PROVE  r \in writes[t] /\ markTs'[t][r] = prepareTs[t][r]
    <3>1. \/ markTs'[t][r] = markTs[t][r]
          \/ t = u /\ r = p /\ markTs'[t][r] = prepareTs[u][p]
      BY <1>m, <1>5 DEF IInv, TypeOK
    <3> QED
      BY <2>1, <3>1 DEF IInv, MarksOK
  <2>2. ASSUME NEW t \in Txns, maxObserved'[t] # 0
        PROVE  \/ maxObserved'[t] \in asked[t]
               \/ \E r \in writes[t] : maxObserved'[t] = prepareTs[t][r]
    BY <2>2, <1>n, <1>3 DEF IInv, MarksOK
  <2>3. ASSUME NEW t \in Txns, state'[t] # "none"
        PROVE  \E x \in asked[t] : x <= maxObserved'[t]
    <3>1. PICK x \in asked[t] : x <= maxObserved[t]
      BY <2>3, <1>n DEF IInv, MarksOK, Live
    <3>2. maxObserved[t] <= maxObserved'[t]
      BY <1>n DEF IInv, TypeOK
    <3>3. x \in Nat /\ maxObserved[t] \in Nat /\ maxObserved'[t] \in Nat
      BY <1>b, DistTxnAssumption DEF IInv, TypeOK
    <3> QED
      BY <3>1, <3>2, <3>3
  <2> QED
    BY <2>1, <2>2, <2>3 DEF ApplyMark, MarksOK, participant
<1>11. /\ CommittedPrepared' /\ CommitIsWhole' /\ CommitTsAfterPrepares'
       /\ IntentsExclude'
  BY <1>6, <1>n DEF ApplyMark, IInv, CommittedPrepared, AllPrepared, Prepared,
              CommitIsWhole, CommitTsAfterPrepares, Terminal, IntentsExclude,
              participant
<1>12. AnswersAreFinal'
  BY <1>6 DEF ApplyMark, IInv, TypeOK, AnswersAreFinal
<1> QED
  BY <1>b, <1>8, <1>9, <1>10, <1>11, <1>12 DEF IInv

\* A commit keeps the invariant: every participant still holds its intents.
LEMMA CommitKeeps ==
  ASSUME IInv, NEW m \in net, ApplyCommit(m)
  PROVE  IInv'
<1>1. m.txn \in Txns /\ CommitMsg(m)
  BY MsgOfKind DEF IInv, NetOK, ApplyCommit
<1>2. /\ m.ts \in Times /\ AllPrepared(m.txn)
      /\ \A p \in writes[m.txn] : prepareTs[m.txn][p] < m.ts
  BY <1>1 DEF CommitMsg, Commit
<1>3. TypeOK'
  BY <1>1, <1>2, DistTxnAssumption
     DEF ApplyCommit, IInv, TypeOK, States, Terminal, participant
<1>4. \A t \in Txns : state[t] \in Terminal =>
         state'[t] = state[t] /\ commitTs'[t] = commitTs[t]
  BY <1>1 DEF ApplyCommit, IInv, TypeOK, Terminal, Live
<1>5. Grows
  BY <1>4 DEF ApplyCommit, Grows, participant
<1>6. NetOK' /\ DrvsOK' /\ PreparesSeen'
  BY <1>5, NetKeeps, DriversKeep, PreparesKept DEF ApplyCommit, participant
<1>7. LiveHeld'
  <2>1. \A t \in Txns : state'[t] \notin Terminal => state[t] \notin Terminal
    BY <1>4
  <2> QED
    BY <1>4, <2>1 DEF ApplyCommit, IInv, LiveHeld, Prepared, participant
<1>8. MarksOK' /\ IntentsExclude'
  <2>1. \A t \in Txns : state'[t] # "none" => state[t] # "none"
    BY <1>1 DEF ApplyCommit, IInv, TypeOK, Live
  <2> QED
    BY <2>1 DEF ApplyCommit, IInv, MarksOK, IntentsExclude, participant
<1>9. \A t \in Txns : state'[t] = "Committed" =>
         \/ state[t] = "Committed" /\ commitTs'[t] = commitTs[t]
         \/ /\ t = m.txn /\ state[t] \in Live /\ commitTs'[t] = m.ts
            /\ ValidCommitTs(t, m.ts)
  BY <1>1 DEF ApplyCommit, IInv, TypeOK
<1>10. \A p \in writes[m.txn] :
          state[m.txn] \in Live => intent[m.txn][p] = "held"
  BY <1>1, <1>2, WritesAreTablets
     DEF AllPrepared, IInv, LiveHeld, Live, Terminal
<1>14. CommittedPrepared'
  BY <1>2, <1>9 DEF ApplyCommit, IInv, CommittedPrepared, AllPrepared, Prepared,
                    participant
<1>11. CommitIsWhole'
  BY <1>9, <1>10 DEF ApplyCommit, IInv, CommitIsWhole, participant
<1>12. CommitTsAfterPrepares'
  BY <1>2, <1>9 DEF ApplyCommit, IInv, CommitTsAfterPrepares, ValidCommitTs,
                    participant
<1>13. AnswersAreFinal'
  BY <1>4 DEF ApplyCommit, IInv, TypeOK, AnswersAreFinal
<1> QED
  BY <1>3, <1>6, <1>7, <1>8, <1>11, <1>12, <1>13, <1>14 DEF IInv

\* An abort keeps the invariant: it decides only an undecided record.
LEMMA AbortKeeps ==
  ASSUME IInv, NEW m \in net, ApplyAbort(m)
  PROVE  IInv'
<1>1. m.txn \in Txns
  BY MsgOfKind DEF IInv, NetOK
<1>2. TypeOK'
  BY <1>1 DEF ApplyAbort, IInv, TypeOK, States, Terminal, participant
<1>3. \A t \in Txns :
         /\ state[t] \in Terminal => state'[t] = state[t]
         /\ state'[t] = "Committed" => state[t] = "Committed"
  BY <1>1 DEF ApplyAbort, IInv, TypeOK, Terminal, Live
<1>4. Grows
  BY <1>3 DEF ApplyAbort, Grows, participant
<1>5. NetOK' /\ DrvsOK' /\ PreparesSeen'
  BY <1>4, NetKeeps, DriversKeep, PreparesKept DEF ApplyAbort, participant
<1>6. LiveHeld'
  <2>1. \A t \in Txns : state'[t] \notin Terminal => state[t] \notin Terminal
    BY <1>3
  <2> QED
    BY <1>3, <2>1 DEF ApplyAbort, IInv, LiveHeld, Prepared, participant
<1>7. MarksOK' /\ IntentsExclude'
  <2>1. \A t \in Txns : state'[t] # "none" => state[t] # "none"
    BY <1>1 DEF ApplyAbort, IInv, TypeOK, Live
  <2> QED
    BY <2>1 DEF ApplyAbort, IInv, MarksOK, IntentsExclude, participant
<1>8. CommittedPrepared' /\ CommitIsWhole' /\ CommitTsAfterPrepares'
  BY <1>3 DEF ApplyAbort, IInv, CommittedPrepared, AllPrepared, Prepared,
              CommitIsWhole, CommitTsAfterPrepares, participant
<1>9. AnswersAreFinal'
  BY <1>3 DEF ApplyAbort, IInv, TypeOK, AnswersAreFinal
<1> QED
  BY <1>2, <1>5, <1>6, <1>7, <1>8, <1>9 DEF IInv
\* A prepare keeps the invariant: it is applied once, so it gives a timestamp
\* only to a participant that had none.
LEMMA PersistKeeps ==
  ASSUME IInv, NEW m \in net, NEW valid \in BOOLEAN, ApplyPersist(m, valid)
  PROVE  IInv'
<1>1. PrepareMsg(m) /\ Id(m) \notin seen
      /\ Id(m) = CommandId("Prepare", m.txn, m.tablet)
  BY MsgOfKind DEF IInv, NetOK, ApplyPersist
<1>2. PICK u \in Txns : \E p \in writes[u], ts \in Clock :
         m = PersistIntents(u, p, ts)
  BY <1>1 DEF PrepareMsg
<1>3. PICK p \in writes[u], ts \in Clock : m = PersistIntents(u, p, ts)
  BY <1>2
<1>4. m.txn = u /\ m.tablet = p /\ m.ts = ts /\ p \in Tablets
  BY <1>3, WritesAreTablets DEF PersistIntents, IInv
<1>5. CommandId("Prepare", u, p) \notin seen /\ ~Prepared(u, p)
  BY <1>1, <1>4 DEF IInv, PreparesSeen
<1>6. ts # 0 /\ ts \in Nat
  BY <1>3, DistTxnAssumption
<1>7. /\ intent \in [Txns -> [Tablets -> Terminal \cup {"none", "held"}]]
      /\ prepareTs \in [Txns -> [Tablets -> Clock \cup {0}]]
  BY DEF IInv, TypeOK
<1>8. intent[u][p] # "held" /\ state[u] # "Committed"
  BY <1>3, <1>4, <1>5 DEF IInv, LiveHeld, CommittedPrepared, AllPrepared
<1>9. CASE /\ UNCHANGED <<intent, prepareTs>>
           /\ refused' = refused \cup {CommandId("Prepare", u, p)}
  <2>1. Grows
    BY <1>9 DEF ApplyPersist, Grows, record
  <2>2. TypeOK'
    BY <1>9 DEF ApplyPersist, IInv, TypeOK, record
  <2>3. NetOK' /\ DrvsOK'
    BY <2>1, NetKeeps, DriversKeep DEF ApplyPersist
  <2>4. PreparesSeen'
    <3>1. seen' = seen \cup {CommandId("Prepare", u, p)}
      BY <1>1, <1>4 DEF ApplyPersist, Applied
    <3>2. ASSUME NEW t \in Txns, NEW r \in Tablets
          PROVE  /\ CommandId("Prepare", t, r) \in seen => CommandId("Prepare", t, r) \in seen'
                 /\ CommandId("Prepare", t, r) \in seen' \ refused' =>
                      CommandId("Prepare", t, r) \in seen \ refused
      BY <1>9, <3>1
    <3>3. ASSUME NEW t \in Txns, NEW r \in Tablets PROVE Prepared(t, r)' <=> Prepared(t, r)
      BY <1>9 DEF Prepared
    <3>4. writes' = writes
      BY DEF ApplyPersist
    <3> QED
      BY <3>2, <3>3, <3>4 DEF IInv, PreparesSeen, CommandId
  <2>5. /\ LiveHeld' /\ MarksOK' /\ CommittedPrepared' /\ CommitIsWhole'
        /\ CommitTsAfterPrepares' /\ IntentsExclude' /\ AnswersAreFinal'
    BY <1>9 DEF ApplyPersist, IInv, LiveHeld, MarksOK, CommittedPrepared,
                AllPrepared, Prepared, CommitIsWhole, CommitTsAfterPrepares,
                IntentsExclude, AnswersAreFinal, record
  <2> QED
    BY <2>2, <2>3, <2>4, <2>5 DEF IInv
<1>10. CASE /\ ~ConflictingHolder(u, p) /\ intent[u][p] = "none"
            /\ intent' = [intent EXCEPT ![u][p] = "held"]
            /\ prepareTs' = [prepareTs EXCEPT ![u][p] = ts]
            /\ refused' = refused
  <2>1. /\ intent' \in [Txns -> [Tablets -> Terminal \cup {"none", "held"}]]
        /\ \A t \in Txns, r \in Tablets :
             intent'[t][r] = IF t = u /\ r = p THEN "held" ELSE intent[t][r]
    <3>1. "held" \in Terminal \cup {"none", "held"}
      OBVIOUS
    <3>2. intent' = [intent EXCEPT ![u][p] = "held"]
      BY <1>10
    <3> QED
      BY <1>4, <1>7, <3>1, <3>2, NestedUpdate
  <2>2. /\ prepareTs' \in [Txns -> [Tablets -> Clock \cup {0}]]
        /\ \A t \in Txns, r \in Tablets :
             prepareTs'[t][r] = IF t = u /\ r = p THEN ts ELSE prepareTs[t][r]
    <3>1. ts \in Clock \cup {0}
      OBVIOUS
    <3>2. prepareTs' = [prepareTs EXCEPT ![u][p] = ts]
      BY <1>10
    <3> QED
      BY <1>4, <1>7, <3>1, <3>2, NestedUpdate
  <2>3. /\ UNCHANGED <<writes, state, commitTs, markTs, maxObserved, applied,
                       drv, answers, asked>>
        /\ seen' = seen \cup {CommandId("Prepare", u, p)}
        /\ refused' = refused
    BY <1>1, <1>4, <1>10 DEF ApplyPersist, Applied, record
  <2>4. Grows
    BY <1>5, <2>2, <2>3 DEF Grows, Prepared
  <2>5. TypeOK'
    BY <2>1, <2>2, <2>3 DEF ApplyPersist, IInv, TypeOK, record
  <2>6. NetOK' /\ DrvsOK'
    BY <2>4, NetKeeps, DriversKeep DEF ApplyPersist
  <2>7. PreparesSeen'
    <3>1. \A t \in Txns, r \in Tablets : CommandId("Prepare", t, r)
             = CommandId("Prepare", u, p) <=> t = u /\ r = p
      BY DEF CommandId
    <3>2. \A t \in Txns, r \in Tablets :
             Prepared(t, r)' <=> Prepared(t, r) \/ (t = u /\ r = p)
      BY <1>6, <2>2 DEF Prepared
    <3> QED
      BY <1>3, <2>3, <3>1, <3>2 DEF IInv, PreparesSeen, CommandId
  <2>8. LiveHeld'
    BY <1>6, <2>1, <2>2, <2>3 DEF IInv, LiveHeld, Prepared, Terminal
  <2>9. MarksOK'
    BY <1>5, <1>4, <2>2, <2>3, WritesAreTablets DEF IInv, TypeOK, MarksOK, Prepared
  <2>10. CommittedPrepared' /\ CommitIsWhole' /\ CommitTsAfterPrepares'
    <3>1. ASSUME NEW t \in Txns, state[t] = "Committed", NEW r \in writes[t]
          PROVE  intent'[t][r] = intent[t][r] /\ prepareTs'[t][r] = prepareTs[t][r]
      BY <3>1, <1>8, <2>1, <2>2, WritesAreTablets DEF IInv
    <3> QED
      BY <2>3, <3>1 DEF IInv, CommittedPrepared, AllPrepared, Prepared,
                        CommitIsWhole, CommitTsAfterPrepares
  <2>11. IntentsExclude'
    BY <1>10, <2>1 DEF IInv, IntentsExclude, ConflictingHolder
  <2>12. AnswersAreFinal'
    BY <2>3 DEF IInv, AnswersAreFinal
  <2> QED
    BY <2>5, <2>6, <2>7, <2>8, <2>9, <2>10, <2>11, <2>12 DEF IInv
<1> QED
  BY <1>1, <1>4, <1>8, <1>9, <1>10 DEF ApplyPersist, Applied
\* A resolution keeps the invariant: it carries the decision of the record, and
\* a committed participant that holds intents applies them.
LEMMA ResolveKeeps ==
  ASSUME IInv, NEW m \in net, ApplyResolve(m)
  PROVE  IInv'
<1>1. ResolveMsg(m)
  BY MsgOfKind DEF IInv, NetOK, ApplyResolve
<1>2. PICK u \in Txns, p \in Tablets :
         state[u] \in Terminal /\ m = Resolve(u, p, state[u], commitTs[u])
  BY <1>1 DEF ResolveMsg
<1>3. m.txn = u /\ m.tablet = p /\ m.decision = state[u]
  BY <1>2 DEF Resolve
<1>4. /\ intent' = [intent EXCEPT ![u][p] = state[u]]
      /\ applied' = IF intent[u][p] = "held" /\ state[u] = "Committed"
                    THEN applied \cup {<<u, p>>} ELSE applied
      /\ UNCHANGED <<writes, state, commitTs, markTs, maxObserved, expired,
                     asked, prepareTs, drv, answers>>
  BY <1>3 DEF ApplyResolve, record
<1>5. /\ intent' \in [Txns -> [Tablets -> Terminal \cup {"none", "held"}]]
      /\ \A t \in Txns, r \in Tablets :
           intent'[t][r] = IF t = u /\ r = p THEN state[u] ELSE intent[t][r]
  <2>1. state[u] \in Terminal \cup {"none", "held"}
    BY <1>2
  <2>2. intent \in [Txns -> [Tablets -> Terminal \cup {"none", "held"}]]
    BY DEF IInv, TypeOK
  <2>3. intent' = [intent EXCEPT ![u][p] = state[u]]
    BY <1>4
  <2> QED
    BY <2>1, <2>2, <2>3, NestedUpdate
<1>6. TypeOK'
  BY <1>4, <1>5 DEF IInv, TypeOK
<1>7. Grows
  BY <1>4 DEF Grows
<1>8. NetOK' /\ DrvsOK' /\ PreparesSeen'
  BY <1>4, <1>7, NetKeeps, DriversKeep, PreparesKept DEF ApplyResolve
<1>9. LiveHeld'
  BY <1>2, <1>4, <1>5 DEF IInv, LiveHeld, Prepared, Terminal
<1>10. MarksOK' /\ CommittedPrepared' /\ CommitTsAfterPrepares' /\ AnswersAreFinal'
  BY <1>4 DEF IInv, MarksOK, CommittedPrepared, AllPrepared, Prepared,
              CommitTsAfterPrepares, AnswersAreFinal
<1>11. CommitIsWhole'
  <2>1. ASSUME NEW t \in Txns, state[t] = "Committed", NEW r \in writes[t]
        PROVE  intent'[t][r] = "held" \/ <<t, r>> \in applied'
    <3>1. r \in Tablets /\ (intent[t][r] = "held" \/ <<t, r>> \in applied)
      BY <2>1, WritesAreTablets DEF IInv, CommitIsWhole
    <3> QED
      BY <2>1, <3>1, <1>4, <1>5
  <2> QED
    BY <1>4, <2>1 DEF CommitIsWhole
<1>12. IntentsExclude'
  BY <1>2, <1>5 DEF IInv, IntentsExclude, Terminal
<1> QED
  BY <1>6, <1>8, <1>9, <1>10, <1>11, <1>12 DEF IInv

\* The sweep of a tombstone keeps the invariant.
LEMMA SweepKeeps ==
  ASSUME IInv, NEW u \in Txns, NEW p \in Tablets, ApplySweep(u, p)
  PROVE  IInv'
<1>1. /\ intent' = [intent EXCEPT ![u][p] = "none"]
      /\ UNCHANGED <<writes, state, commitTs, markTs, maxObserved, expired,
                     asked, prepareTs, applied, net, seen, refused, drv,
                     answers>>
  BY DEF ApplySweep, record, group
<1>2. /\ intent' \in [Txns -> [Tablets -> Terminal \cup {"none", "held"}]]
      /\ \A t \in Txns, r \in Tablets :
           intent'[t][r] = IF t = u /\ r = p THEN "none" ELSE intent[t][r]
  <2>1. "none" \in Terminal \cup {"none", "held"}
    OBVIOUS
  <2>2. intent \in [Txns -> [Tablets -> Terminal \cup {"none", "held"}]]
    BY DEF IInv, TypeOK
  <2>3. intent' = [intent EXCEPT ![u][p] = "none"]
    BY <1>1
  <2> QED
    BY <2>1, <2>2, <2>3, NestedUpdate
<1>3. state[u] \in Terminal /\ intent[u][p] # "held"
  BY DEF ApplySweep, IInv, LiveHeld, Terminal
<1>4. TypeOK'
  BY <1>1, <1>2 DEF IInv, TypeOK
<1>5. Grows
  BY <1>1 DEF Grows
<1>6. NetOK'
  <2>1. \A m \in net' : MsgOK(m) /\ Id(m) \notin seen'
    BY <1>1 DEF IInv, NetOK
  <2>2. ASSUME NEW m \in net' PROVE MsgOK(m)'
    BY <1>5, <2>1, MsgKeeps DEF IInv
  <2> QED
    BY <2>1, <2>2 DEF NetOK, Id, CommandId
<1>7. DrvsOK'
  BY <1>1, <1>5, DriversKeep
<1>8. LiveHeld'
  BY <1>1, <1>2, <1>3 DEF IInv, LiveHeld, Prepared, Terminal
<1>9. /\ PreparesSeen' /\ MarksOK' /\ CommittedPrepared'
      /\ CommitTsAfterPrepares' /\ AnswersAreFinal'
  BY <1>1 DEF IInv, PreparesSeen, MarksOK, CommittedPrepared, AllPrepared,
              Prepared, CommitTsAfterPrepares, AnswersAreFinal
<1>10. CommitIsWhole'
  <2>1. ASSUME NEW t \in Txns, state[t] = "Committed", NEW r \in writes[t]
        PROVE  intent'[t][r] = "held" \/ <<t, r>> \in applied
    <3>1. r \in Tablets /\ (intent[t][r] = "held" \/ <<t, r>> \in applied)
      BY <2>1, WritesAreTablets DEF IInv, CommitIsWhole
    <3> QED
      BY <3>1, <1>2, <1>3
  <2> QED
    BY <1>1, <2>1 DEF CommitIsWhole
<1>11. IntentsExclude'
  BY <1>2 DEF IInv, IntentsExclude
<1> QED
  BY <1>4, <1>6, <1>7, <1>8, <1>9, <1>10, <1>11 DEF IInv

\* The lease of a record is in no other part of the invariant: heartbeats and
\* the passing of time keep it, and so does a step that changes nothing.
LEMMA LeaseKeeps ==
  ASSUME IInv, TypeOK',
         UNCHANGED <<writes, state, commitTs, markTs, maxObserved, participant,
                     net, group, drv, answers, asked>>
  PROVE  IInv'
<1>1. Grows
  BY DEF Grows, participant
<1>2. NetOK'
  <2>1. \A m \in net' : MsgOK(m) /\ Id(m) \notin seen'
    BY DEF IInv, NetOK, group
  <2>2. ASSUME NEW m \in net' PROVE MsgOK(m)'
    BY <1>1, <2>1, MsgKeeps DEF IInv
  <2> QED
    BY <2>1, <2>2 DEF NetOK, Id, CommandId
<1>3. DrvsOK'
  BY <1>1, DriversKeep
<1>4. /\ PreparesSeen' /\ LiveHeld' /\ MarksOK' /\ CommittedPrepared'
      /\ CommitIsWhole' /\ CommitTsAfterPrepares' /\ IntentsExclude'
      /\ AnswersAreFinal'
  BY DEF IInv, PreparesSeen, LiveHeld, MarksOK, CommittedPrepared, AllPrepared,
         Prepared, CommitIsWhole, CommitTsAfterPrepares, IntentsExclude,
         AnswersAreFinal, participant, group
<1> QED
  BY <1>2, <1>3, <1>4 DEF IInv

-----------------------------------------------------------------------------
\* The invariant holds initially.
LEMMA InitIInv == Init => IInv
<1> SUFFICES ASSUME Init PROVE IInv
  OBVIOUS
<1>1. TypeOK
  BY DistTxnAssumption DEF Init, TypeOK, States, Terminal
<1>2. NetOK /\ DrvsOK
  BY DEF Init, NetOK, DrvsOK, DriverOK, PlainState
<1>3. PreparesSeen /\ LiveHeld /\ MarksOK
  BY DEF Init, PreparesSeen, LiveHeld, MarksOK, Prepared, Terminal
<1>4. /\ CommittedPrepared /\ CommitIsWhole /\ CommitTsAfterPrepares
      /\ IntentsExclude /\ AnswersAreFinal
  BY DEF Init, CommittedPrepared, CommitIsWhole, CommitTsAfterPrepares,
         IntentsExclude, AnswersAreFinal
<1> QED
  BY <1>1, <1>2, <1>3, <1>4 DEF IInv

\* Every step keeps the invariant.
LEMMA NextIInv == IInv /\ [Next]_vars => IInv'
<1> SUFFICES ASSUME IInv, [Next]_vars PROVE IInv'
  OBVIOUS
<1>1. CASE StatusGroup
  <2>1. ASSUME NEW m \in net,
               ApplyBegin(m) \/ ApplyMark(m) \/ ApplyCommit(m) \/ ApplyAbort(m)
        PROVE  IInv'
    BY <2>1, BeginKeeps, MarkKeeps, CommitKeeps, AbortKeeps
  <2>2. ASSUME NEW t \in Txns, ApplyHeartbeat(t) PROVE IInv'
    <3>1. TypeOK'
      BY <2>2, DistTxnAssumption
         DEF ApplyHeartbeat, IInv, TypeOK, participant
    <3> QED
      BY <2>2, <3>1, LeaseKeeps DEF ApplyHeartbeat
  <2>3. ASSUME NEW t \in Txns, Expire(t) PROVE IInv'
    <3>1. TypeOK'
      BY <2>3 DEF Expire, IInv, TypeOK, participant
    <3> QED
      BY <2>3, <3>1, LeaseKeeps DEF Expire
  <2> QED
    BY <1>1, <2>1, <2>2, <2>3 DEF StatusGroup
<1>2. CASE IntentGroup
  BY <1>2, ResolveKeeps, PersistKeeps, SweepKeeps DEF IntentGroup
<1>3. CASE \E d \in Drivers : Operation(d) \/ Continue(d)
  BY <1>3, OperationKeeps, ContinueKeeps
<1>4. CASE UNCHANGED vars
  <2>1. TypeOK'
    BY <1>4 DEF IInv, TypeOK, vars
  <2> QED
    BY <1>4, <2>1, LeaseKeeps DEF vars, participant, group
<1> QED
  BY <1>1, <1>2, <1>3, <1>4 DEF Next

\* The inductive invariant holds in every behaviour.
THEOREM IInvAlways == Spec => []IInv
BY InitIInv, NextIInv, PTL DEF Spec
-----------------------------------------------------------------------------
\* A committed transaction has all of its writes, at every participant staged or
\* in the engine, for any number of drivers that retry, recover, push and sweep.
THEOREM CommitIsWholeHolds == Spec => []CommitIsWhole
<1>1. IInv => CommitIsWhole
  BY DEF IInv
<1> QED
  BY <1>1, IInvAlways, PTL

\* What a driver answered is what the record says from then on.
THEOREM AnswersAreFinalHolds == Spec => []AnswersAreFinal
<1>1. IInv => AnswersAreFinal
  BY DEF IInv
<1> QED
  BY <1>1, IInvAlways, PTL

\* Two transactions never hold intents on one tablet's key.
THEOREM IntentsExcludeHolds == Spec => []IntentsExclude
<1>1. IInv => IntentsExclude
  BY DEF IInv
<1> QED
  BY <1>1, IInvAlways, PTL

\* Every participant resolves the way its record was decided, and no resolve
\* command on its way says otherwise: no group meets a conflicting decision.
THEOREM ResolutionsFollowRecordHolds == Spec => []ResolutionsFollowRecord
<1>1. ASSUME IInv PROVE ResolutionsFollowRecord
  <2>1. ASSUME NEW m \in net, m.kind = "Resolve"
        PROVE  m.decision = state[m.txn] /\ m.ts = commitTs[m.txn]
    BY <1>1, <2>1, MsgOfKind DEF IInv, NetOK, ResolveMsg, Resolve
  <2> QED
    BY <1>1, <2>1 DEF ResolutionsFollowRecord, IInv, LiveHeld
<1> QED
  BY <1>1, IInvAlways, PTL

\* A commit timestamp is later than every prepare and than all the record knows
\* to be observed; and the status group refuses a commit for its timestamp
\* (which uses up the commit's id) only when two requests of the transaction
\* disagree on what they observed.
THEOREM CommitTimestampsHold == Spec => []CommitTimestamps
<1>1. ASSUME IInv PROVE CommitTimestamps
  <2>1. ASSUME NEW m \in net, m.kind = "Commit", ~ValidCommitTs(m.txn, m.ts)
        PROVE  /\ \A p \in Tablets : markTs[m.txn][p] < m.ts
               /\ \E x, y \in asked[m.txn] : x < m.ts /\ m.ts <= y
    <3>1. CommitMsg(m)
      BY <1>1, <2>1, MsgOfKind DEF IInv, NetOK
    <3>2. /\ m.txn \in Txns /\ m.ts \in Nat /\ m.ts > 0
          /\ \A p \in writes[m.txn] : prepareTs[m.txn][p] < m.ts
          /\ \E x \in asked[m.txn] : x < m.ts
      BY <3>1, DistTxnAssumption DEF CommitMsg, Commit
    <3>3. \A p \in Tablets : markTs[m.txn][p] < m.ts
      BY <1>1, <3>2 DEF IInv, MarksOK
    <3>4. maxObserved[m.txn] \in Nat /\ m.ts <= maxObserved[m.txn]
      BY <1>1, <2>1, <3>2, <3>3 DEF IInv, TypeOK, ValidCommitTs
    <3>5. \A q \in writes[m.txn] : maxObserved[m.txn] # prepareTs[m.txn][q]
      <4>1. ASSUME NEW q \in writes[m.txn],
                   maxObserved[m.txn] = prepareTs[m.txn][q]
            PROVE  FALSE
        BY <3>2, <3>4, <4>1
      <4> QED
        BY <4>1
    <3>6. maxObserved[m.txn] \in asked[m.txn]
      BY <1>1, <3>2, <3>4, <3>5 DEF IInv, MarksOK
    <3> QED
      BY <3>2, <3>3, <3>4, <3>6
  <2> QED
    BY <1>1, <2>1 DEF CommitTimestamps, CommitRefusedOnlyIfObservedDiffer, IInv
<1> QED
  BY <1>1, IInvAlways, PTL

-----------------------------------------------------------------------------
\* A step that changes neither decisions, intents held, rows nor write sets is
\* invisible to AtomicCommit.
LEMMA Invisible ==
  ASSUME UNCHANGED <<writes, applied>>,
         \A t \in Txns : state'[t] # state[t] =>
             state[t] \notin Terminal /\ state'[t] \notin Terminal,
         \A t \in Txns, p \in Tablets :
             intent'[t][p] = "held" <=> intent[t][p] = "held"
  PROVE  UNCHANGED Atomic!avars
<1>1. Decision' = Decision
  BY DEF Decision
<1>2. Held' = Held
  BY DEF Held
<1> QED
  BY <1>1, <1>2 DEF Atomic!avars

\* A decision of the record is a decision of AtomicCommit.
LEMMA DecisionStep ==
  ASSUME TypeOK, NEW u \in Txns, state[u] \notin Terminal,
         NEW decided \in Terminal, state' = [state EXCEPT ![u] = decided],
         UNCHANGED <<writes, participant>>
  PROVE  /\ Decision[u] = "none"
         /\ Decision' = [Decision EXCEPT ![u] = decided]
         /\ UNCHANGED <<writes, Held, applied>>
<1>1. \A t \in Txns : state'[t] = IF t = u THEN decided ELSE state[t]
  BY DEF TypeOK
<1> QED
  BY <1>1 DEF Decision, Held, participant

\* Every step of the protocol is a step of AtomicCommit or invisible to it.
LEMMA StepRefines == IInv /\ [Next]_vars => [Atomic!AtomicNext]_(Atomic!avars)
<1> SUFFICES ASSUME IInv, [Next]_vars
             PROVE  Atomic!AtomicNext \/ UNCHANGED Atomic!avars
  OBVIOUS
<1>t. TypeOK
  BY DEF IInv
<1>1. ASSUME NEW m \in net, ApplyBegin(m) PROVE UNCHANGED Atomic!avars
  <2>1. m.txn \in Txns
    BY MsgOfKind DEF IInv, NetOK
  <2>2. \A t \in Txns : state'[t] # state[t] =>
             state[t] \notin Terminal /\ state'[t] \notin Terminal
    BY <1>1, <1>t, <2>1 DEF ApplyBegin, TypeOK, Terminal
  <2> QED
    BY <1>1, <2>2, Invisible DEF ApplyBegin, participant
<1>2. ASSUME NEW m \in net, ApplyMark(m) PROVE UNCHANGED Atomic!avars
  <2>1. m.txn \in Txns
    BY MsgOfKind DEF IInv, NetOK
  <2>2. \A t \in Txns : state'[t] # state[t] =>
             state[t] \notin Terminal /\ state'[t] \notin Terminal
    BY <1>2, <1>t, <2>1 DEF ApplyMark, TypeOK, Terminal, Live
  <2> QED
    BY <1>2, <2>2, Invisible DEF ApplyMark, participant
<1>3. ASSUME NEW m \in net, ApplyCommit(m)
      PROVE  Atomic!AtomicNext \/ UNCHANGED Atomic!avars
  <2>1. m.txn \in Txns /\ CommitMsg(m)
    BY <1>3, MsgOfKind DEF IInv, NetOK, ApplyCommit
  <2>2. CASE state' = state
    BY <1>3, <2>2, Invisible DEF ApplyCommit, participant
  <2>3. CASE /\ state[m.txn] \in Live
             /\ state' = [state EXCEPT ![m.txn] = "Committed"]
    <3>1. AllPrepared(m.txn) /\ state[m.txn] \notin Terminal
      BY <2>1, <2>3 DEF CommitMsg, Commit, Live, Terminal
    <3>2. \A p \in writes[m.txn] : <<m.txn, p>> \in Held
      BY <2>1, <3>1, <1>t, WritesAreTablets
         DEF IInv, LiveHeld, AllPrepared, Held
    <3>3. "Committed" \in Terminal /\ UNCHANGED <<writes, participant>>
      BY <1>3 DEF Terminal, ApplyCommit
    <3>4. /\ Decision[m.txn] = "none"
          /\ Decision' = [Decision EXCEPT ![m.txn] = "Committed"]
          /\ UNCHANGED <<writes, Held, applied>>
      BY <1>t, <2>1, <2>3, <3>1, <3>3, DecisionStep
    <3>5. Atomic!CommitTxn(m.txn)
      BY <3>2, <3>4 DEF Atomic!CommitTxn
    <3> QED
      BY <2>1, <3>5 DEF Atomic!AtomicNext
  <2> QED
    BY <1>3, <2>2, <2>3 DEF ApplyCommit
<1>4. ASSUME NEW m \in net, ApplyAbort(m)
      PROVE  Atomic!AtomicNext \/ UNCHANGED Atomic!avars
  <2>1. m.txn \in Txns
    BY MsgOfKind DEF IInv, NetOK
  <2>2. CASE state[m.txn] \notin Live
    <3>1. state' = state
      BY <1>4, <1>t, <2>2 DEF ApplyAbort, TypeOK
    <3> QED
      BY <1>4, <3>1, Invisible DEF ApplyAbort, participant
  <2>3. CASE state[m.txn] \in Live
    <3>1. /\ state' = [state EXCEPT ![m.txn] = "Aborted"]
          /\ state[m.txn] \notin Terminal /\ "Aborted" \in Terminal
          /\ UNCHANGED <<writes, participant>>
      BY <1>4, <2>3 DEF ApplyAbort, Live, Terminal
    <3>2. /\ Decision[m.txn] = "none"
          /\ Decision' = [Decision EXCEPT ![m.txn] = "Aborted"]
          /\ UNCHANGED <<writes, Held, applied>>
      BY <1>t, <2>1, <3>1, DecisionStep
    <3>3. Atomic!AbortTxn(m.txn)
      BY <3>2 DEF Atomic!AbortTxn
    <3> QED
      BY <2>1, <3>3 DEF Atomic!AtomicNext
  <2> QED
    BY <2>2, <2>3
<1>5. ASSUME NEW t \in Txns, ApplyHeartbeat(t) \/ Expire(t)
      PROVE  UNCHANGED Atomic!avars
  BY <1>5, Invisible DEF ApplyHeartbeat, Expire, participant
<1>6. ASSUME NEW m \in net, NEW valid \in BOOLEAN, ApplyPersist(m, valid)
      PROVE  Atomic!AtomicNext \/ UNCHANGED Atomic!avars
  <2>1. PICK u \in Txns, p \in Tablets : m.txn = u /\ m.tablet = p
    <3>1. PrepareMsg(m)
      BY <1>6, MsgOfKind DEF IInv, NetOK, ApplyPersist
    <3> QED
      BY <3>1, <1>t, WritesAreTablets DEF PrepareMsg, PersistIntents
  <2>2. CASE UNCHANGED intent
    BY <1>6, <2>2, Invisible DEF ApplyPersist, record
  <2>3. CASE /\ ~ConflictingHolder(u, p)
             /\ intent' = [intent EXCEPT ![u][p] = "held"]
    <3>1. \A t \in Txns, r \in Tablets :
             intent'[t][r] = IF t = u /\ r = p THEN "held" ELSE intent[t][r]
      <4>1. "held" \in Terminal \cup {"none", "held"}
        OBVIOUS
      <4>2. intent \in [Txns -> [Tablets -> Terminal \cup {"none", "held"}]]
        BY <1>t DEF TypeOK
      <4>3. intent' = [intent EXCEPT ![u][p] = "held"]
        BY <2>3
      <4> QED
        BY <4>1, <4>2, <4>3, NestedUpdate
    <3>2. Held' = Held \cup {<<u, p>>}
      BY <3>1 DEF Held
    <3>3. \A t \in Txns \ {u} : <<t, p>> \notin Held
      BY <2>3 DEF ConflictingHolder, Held
    <3>4. UNCHANGED <<writes, Decision, applied>>
      BY <1>6 DEF ApplyPersist, Decision, record
    <3>5. Atomic!Lock(u, p)
      BY <3>2, <3>3, <3>4 DEF Atomic!Lock
    <3> QED
      BY <3>5 DEF Atomic!AtomicNext
  <2> QED
    BY <1>6, <2>1, <2>2, <2>3 DEF ApplyPersist
<1>7. ASSUME NEW m \in net, ApplyResolve(m)
      PROVE  Atomic!AtomicNext \/ UNCHANGED Atomic!avars
  <2>1. PICK u \in Txns, p \in Tablets :
           /\ state[u] \in Terminal
           /\ m.txn = u /\ m.tablet = p /\ m.decision = state[u]
    <3>1. ResolveMsg(m)
      BY <1>7, MsgOfKind DEF IInv, NetOK, ApplyResolve
    <3> QED
      BY <3>1 DEF ResolveMsg, Resolve
  <2>2. /\ intent' = [intent EXCEPT ![u][p] = state[u]]
        /\ applied' = IF intent[u][p] = "held" /\ state[u] = "Committed"
                      THEN applied \cup {<<u, p>>} ELSE applied
        /\ UNCHANGED <<writes, state>>
    BY <1>7, <2>1 DEF ApplyResolve, record
  <2>3. \A t \in Txns, r \in Tablets :
           intent'[t][r] = IF t = u /\ r = p THEN state[u] ELSE intent[t][r]
    <3>1. state[u] \in Terminal \cup {"none", "held"}
      BY <2>1
    <3>2. intent \in [Txns -> [Tablets -> Terminal \cup {"none", "held"}]]
      BY <1>t DEF TypeOK
    <3>3. intent' = [intent EXCEPT ![u][p] = state[u]]
      BY <2>2
    <3> QED
      BY <3>1, <3>2, <3>3, NestedUpdate
  <2>4. state[u] # "held"
    BY <2>1 DEF Terminal
  <2>5. CASE intent[u][p] # "held"
    BY <2>2, <2>3, <2>4, <2>5, Invisible
  <2>6. CASE intent[u][p] = "held"
    <3>1. <<u, p>> \in Held /\ Held' = Held \ {<<u, p>>}
      BY <2>3, <2>4, <2>6 DEF Held
    <3>2. Decision[u] = state[u] /\ Decision[u] # "none" /\ Decision' = Decision
      BY <2>1, <2>2 DEF Decision, Terminal
    <3>3. Atomic!Leave(u, p)
      BY <2>2, <2>6, <3>1, <3>2 DEF Atomic!Leave
    <3> QED
      BY <3>3 DEF Atomic!AtomicNext
  <2> QED
    BY <2>5, <2>6
<1>8. ASSUME NEW u \in Txns, NEW p \in Tablets, ApplySweep(u, p)
      PROVE  UNCHANGED Atomic!avars
  <2>1. \A t \in Txns, r \in Tablets :
           intent'[t][r] = "held" <=> intent[t][r] = "held"
    BY <1>8, <1>t DEF ApplySweep, TypeOK, Terminal
  <2> QED
    BY <1>8, <2>1, Invisible DEF ApplySweep, record
<1>9. ASSUME NEW d \in Drivers, Operation(d) \/ Continue(d)
      PROVE  UNCHANGED Atomic!avars
  <2>1. UNCHANGED <<writes, record, participant>>
    BY <1>9 DEF Operation, Continue, StartCommit, StartAbort, RecoverRead,
                Rebroadcast, PushExpired, SweepOrphan, BeginDone, PrepareDone,
                MarkPrepared, PrepareFails, PreparesDone, MarkDone, MarkFails,
                DecideCommit, RecoverCommit, Finalize, GiveUp
  <2> QED
    BY <2>1, Invisible DEF record, participant
<1>10. CASE UNCHANGED vars
  BY <1>10, Invisible DEF vars
<1> QED
  BY <1>1, <1>2, <1>3, <1>4, <1>5, <1>6, <1>7, <1>8, <1>9, <1>10
     DEF Next, StatusGroup, IntentGroup

\* The replicated two-phase commit implements the atomic commit: one decision, a
\* commit only while every tablet is held, rows only from a tablet that was held.
THEOREM RefinesAtomicCommit == Spec => ImplementsAtomicCommit
<1>1. Init => Atomic!AtomicInit
  BY DistTxnAssumption DEF Init, Atomic!AtomicInit, Decision, Held, Terminal
<1> QED
  BY <1>1, StepRefines, IInvAlways, PTL
     DEF Spec, ImplementsAtomicCommit, Atomic!AtomicSpec
=============================================================================
