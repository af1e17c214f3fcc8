------------------------- MODULE LockManagerProofs -------------------------
(***************************************************************************)
(* Proofs about LockManager, for any transactions, keys and priorities.    *)
(***************************************************************************)
EXTENDS LockManager, FiniteSetTheorems, FunctionTheorems, WellFoundedInduction, TLAPS

Waiter == [txn : Txns, mode : Modes]

\* The fields of Inner have their types.
Typed(s) ==
    /\ s = [holders |-> s.holders, queue |-> s.queue, txnKeys |-> s.txnKeys,
            queuedWaiters |-> s.queuedWaiters, fates |-> s.fates]
    /\ s.holders \in [Keys -> [Txns -> Modes \cup {"none"}]]
    /\ s.queue \in [Keys -> Seq(Waiter)]
    /\ s.txnKeys \in [Txns -> SUBSET Keys]
    /\ s.fates \in [Txns -> {"none", "Deadlock", "Cancelled"}]

\* w says what every thread waits for.
Waits == [Txns -> {NoWait} \cup [key : Keys, mode : Modes]]

\* A queue entry is what its thread waits for, has no fate yet, is the only one
\* of its transaction, and asks for more than the transaction holds.
QueuesMatch(s, w) ==
    \A k \in Keys : \A i \in DOMAIN s.queue[k] :
        /\ w[s.queue[k][i].txn] = [key |-> k, mode |-> s.queue[k][i].mode]
        /\ s.fates[s.queue[k][i].txn] = "none"
        /\ Holds(s, k, s.queue[k][i].txn) => s.queue[k][i].mode = "Exclusive"
        /\ \A j \in DOMAIN s.queue[k] :
              s.queue[k][i].txn = s.queue[k][j].txn => i = j

\* Only a waiting thread has a fate.
FatesMatch(s, w) == \A t \in Txns : s.fates[t] # "none" => w[t] # NoWait

\* HoldersCompatible, ReleaseAllFindsAll and GrantsAreReal of any Inner.
Exclusion(s) ==
    \A k \in Keys : \A t, u \in Txns :
        t # u /\ Holds(s, k, t) /\ Holds(s, k, u) =>
            Compatible(s.holders[k][t], s.holders[k][u])

Tracked(s) ==
    \A t \in Txns : \A k \in Keys :
        Holds(s, k, t) \/ Queued(s, k, t) => k \in s.txnKeys[t]

Granted(s, w) ==
    \A t \in Txns :
        w[t] # NoWait /\ s.fates[t] = "none" /\ ~Queued(s, w[t].key, t) =>
            s.holders[w[t].key][t] \in {w[t].mode, "Exclusive"}

\* The transactions in some queue; queued_waiters counts them.
Members(s) == {t \in Txns : \E k \in Keys : Queued(s, k, t)}

Counted(s) == s.queuedWaiters = Cardinality(Members(s))

\* x counts the members of A less than s.
Fewer(s, x, A) == x.queuedWaiters = s.queuedWaiters - Cardinality(A)

\* What holds of Inner at every point of an operation.
Sound(s, w) ==
    /\ Typed(s)
    /\ w \in Waits
    /\ QueuesMatch(s, w)
    /\ FatesMatch(s, w)
    /\ Exclusion(s)
    /\ Tracked(s)
    /\ Granted(s, w)
    /\ Counted(s)

\* The queue of k needs nobody, or somebody is about to look at it.
Served(s, w, k) ==
    s.queue[k] # <<>> /\ Grantable(s, k, 1) =>
        \E t \in Txns : s.fates[t] # "none" /\ w[t].key = k

\* What holds of Inner once the queues were looked at.
Settled(s, w) == Sound(s, w) /\ \A k \in Keys : Served(s, w, k)

\* In no set of transactions does everybody wait for somebody of the set.
Closed(s, C) == \A t \in C : \E u \in C : Edge(s, t, u)

Acyclic(s) == \A C \in SUBSET Txns : C # {} => ~Closed(s, C)

\* What holds of Inner when the mutex is free.
Resting(s, w) == Settled(s, w) /\ Acyclic(s)

\* The inductive invariant.
IInv == Resting(inner, waiting)

-----------------------------------------------------------------------------
\* A non-empty set of naturals has a least member.
LEMMA HasMin ==
  ASSUME NEW S, S \subseteq Nat, S # {}
  PROVE  \E m \in S : \A n \in S : m <= n
<1>1. PICK L : L = OpToRel(<, Nat)
  OBVIOUS
<1>2. IsWellFoundedOn(L, Nat)
  BY <1>1, NatLessThanWellFounded
<1>3. PICK m \in S : \A n \in S : <<n, m>> \notin L
  BY <1>2, WFMin
<1>4. ASSUME NEW n \in S PROVE ~(n < m)
  BY <1>1, <1>3 DEF OpToRel
<1> QED BY <1>3, <1>4

\* The recursive function of Without exists, so it satisfies its equation.
LEMMA WithoutRecursion ==
  ASSUME NEW q \in Seq(Waiter), NEW T
  PROVE  \E f : /\ f = [i \in 0 .. Len(q) |->
                          IF i = 0 THEN <<>>
                          ELSE IF q[i].txn \in T THEN f[i - 1]
                          ELSE Append(f[i - 1], q[i])]
                /\ Without(q, T) = f[Len(q)]
<1> DEFINE Next1(i, x) == IF q[i].txn \in T THEN x ELSE Append(x, q[i])
           Rec(n, f) == f = [i \in 0 .. n |-> IF i = 0 THEN <<>> ELSE Next1(i, f[i - 1])]
           Bad == {n \in 0 .. Len(q) : ~ \E f : Rec(n, f)}
<1>0. Len(q) \in Nat
  OBVIOUS
<1>1. Bad = {}
  <2>1. SUFFICES ASSUME Bad # {} PROVE FALSE
    OBVIOUS
  <2>2. PICK m \in Bad : \A n \in Bad : m <= n
    <3>1. Bad \subseteq Nat
      BY <1>0
    <3> HIDE DEF Bad
    <3> QED BY <2>1, <3>1, HasMin
  <2>3. m \in Nat /\ m <= Len(q) /\ ~ \E f : Rec(m, f)
    BY <1>0
  <2>4. m # 0
    <3>1. Rec(0, [i \in 0 .. 0 |-> <<>>])
      OBVIOUS
    <3> HIDE DEF Rec
    <3> QED BY <2>3, <3>1
  <2>5. PICK f : Rec(m - 1, f)
    <3>1. m - 1 \in 0 .. Len(q) /\ ~(m <= m - 1)
      BY <1>0, <2>3, <2>4
    <3>2. m - 1 \notin Bad
      BY <3>1, <2>2
    <3> QED BY <3>1, <3>2
  <2> HIDE DEF Next1
  <2> DEFINE g == [i \in 0 .. m |-> IF i <= m - 1 THEN f[i] ELSE Next1(m, f[m - 1])]
  <2>6. g = [i \in 0 .. m |-> IF i = 0 THEN <<>> ELSE Next1(i, g[i - 1])]
    <3>1. ASSUME NEW i \in 0 .. m
          PROVE  g[i] = IF i = 0 THEN <<>> ELSE Next1(i, g[i - 1])
      <4>1. CASE i = 0
        BY <2>3, <2>4, <2>5, <4>1
      <4>2. CASE i # 0 /\ i <= m - 1
        <5>1. f[i] = Next1(i, f[i - 1])
          BY <2>3, <2>5, <4>2
        <5>2. g[i] = f[i] /\ g[i - 1] = f[i - 1]
          BY <2>3, <4>2
        <5> QED BY <4>2, <5>1, <5>2
      <4>3. CASE i = m
        <5>1. g[i] = Next1(m, f[m - 1]) /\ g[m - 1] = f[m - 1]
          BY <2>3, <2>4, <4>3
        <5> QED BY <2>4, <4>3, <5>1
      <4> QED BY <2>3, <4>1, <4>2, <4>3
    <3> QED BY <3>1
  <2>7. Rec(m, g)
    BY <2>6
  <2> HIDE DEF Rec, g
  <2> QED BY <2>3, <2>7
<1>2. \E f : Rec(Len(q), f)
  <2> HIDE DEF Rec
  <2>1. Len(q) \in 0 .. Len(q)
    BY <1>0
  <2> QED BY <1>1, <2>1
<1>3. Without(q, T) =
        (CHOOSE f : f = [i \in 0 .. Len(q) |->
                          IF i = 0 THEN <<>>
                          ELSE IF q[i].txn \in T THEN f[i - 1]
                          ELSE Append(f[i - 1], q[i])])[Len(q)]
  BY DEF Without
<1>4. Rec(Len(q), CHOOSE f : Rec(Len(q), f))
  <2> HIDE DEF Rec
  <2> QED BY <1>2, Zenon
<1> QED BY <1>3, <1>4

\* Without keeps the entries of the other transactions, and only them.
LEMMA WithoutFacts ==
  ASSUME NEW q \in Seq(Waiter), NEW T,
         \A i, j \in DOMAIN q : q[i].txn = q[j].txn => i = j
  PROVE  \E r \in Seq(Waiter) :
           /\ Without(q, T) = r
           /\ \A i \in DOMAIN r : r[i].txn \notin T /\ \E j \in DOMAIN q : q[j] = r[i]
           /\ \A j \in DOMAIN q : q[j].txn \notin T => \E i \in DOMAIN r : r[i] = q[j]
           /\ \A i, j \in DOMAIN r : r[i].txn = r[j].txn => i = j
<1>0. Len(q) \in Nat /\ DOMAIN q = 1 .. Len(q) /\ \A i \in 1 .. Len(q) : q[i] \in Waiter
  OBVIOUS
<1>1. PICK f : /\ f = [i \in 0 .. Len(q) |->
                          IF i = 0 THEN <<>>
                          ELSE IF q[i].txn \in T THEN f[i - 1]
                          ELSE Append(f[i - 1], q[i])]
               /\ Without(q, T) = f[Len(q)]
  BY WithoutRecursion
<1>2. /\ f[0] = <<>>
      /\ \A i \in 1 .. Len(q) : q[i].txn \in T => f[i] = f[i - 1]
      /\ \A i \in 1 .. Len(q) : q[i].txn \notin T => f[i] = Append(f[i - 1], q[i])
  <2>1. ASSUME NEW i \in 0 .. Len(q)
        PROVE  f[i] = IF i = 0 THEN <<>>
                      ELSE IF q[i].txn \in T THEN f[i - 1]
                      ELSE Append(f[i - 1], q[i])
    BY <1>1, Zenon
  <2>2. 0 \in 0 .. Len(q) /\ \A i \in 1 .. Len(q) : i \in 0 .. Len(q) /\ i # 0
    BY <1>0
  <2> QED BY <2>1, <2>2
<1> DEFINE Kept(n, r) ==
             /\ r \in Seq(Waiter)
             /\ \A i \in 1 .. Len(r) : r[i].txn \notin T /\ \E j \in 1 .. n : q[j] = r[i]
             /\ \A j \in 1 .. n : q[j].txn \notin T => \E i \in 1 .. Len(r) : r[i] = q[j]
             /\ \A i, j \in 1 .. Len(r) : r[i].txn = r[j].txn => i = j
           Bad == {n \in 0 .. Len(q) : ~Kept(n, f[n])}
<1>3. Kept(0, f[0])
  BY <1>2
<1>4. ASSUME NEW n \in 1 .. Len(q), Kept(n - 1, f[n - 1]) PROVE Kept(n, f[n])
  <2>1. PICK r : r = f[n - 1]
    OBVIOUS
  <2>2. Kept(n - 1, r)
    BY <1>4, <2>1
  <2>3. n \in Nat /\ n <= Len(q) /\ n >= 1 /\ q[n] \in Waiter
    BY <1>0
  <2>4. CASE q[n].txn \in T
    <3>1. f[n] = r
      BY <1>2, <2>1, <2>4
    <3>2. Kept(n, r)
      BY <2>2, <2>3, <2>4
    <3> QED BY <3>1, <3>2
  <2>5. CASE q[n].txn \notin T
    <3>1. f[n] = Append(r, q[n])
      BY <1>2, <2>1, <2>5
    <3>2. PICK a : a = Append(r, q[n])
      OBVIOUS
    <3>3. /\ a \in Seq(Waiter) /\ Len(a) = Len(r) + 1 /\ Len(r) \in Nat
          /\ \A i \in 1 .. Len(r) : a[i] = r[i]
          /\ a[Len(r) + 1] = q[n]
      BY <2>2, <2>3, <3>2
    <3>4. ASSUME NEW i \in 1 .. Len(a)
          PROVE  a[i].txn \notin T /\ \E j \in 1 .. n : q[j] = a[i]
      <4>1. CASE i = Len(r) + 1
        BY <2>2, <2>5, <3>3, <4>1
      <4>2. CASE i \in 1 .. Len(r)
        BY <2>2, <2>3, <3>3, <4>2
      <4> QED BY <3>3, <4>1, <4>2
    <3>5. ASSUME NEW j \in 1 .. n, q[j].txn \notin T
          PROVE  \E i \in 1 .. Len(a) : a[i] = q[j]
      <4>1. CASE j = n
        BY <3>3, <4>1
      <4>2. CASE j \in 1 .. n - 1
        <5>1. PICK i \in 1 .. Len(r) : r[i] = q[j]
          BY <2>2, <3>5, <4>2
        <5> QED BY <3>3, <5>1
      <4> QED BY <2>3, <4>1, <4>2
    <3>6. ASSUME NEW i \in 1 .. Len(r) PROVE a[i].txn # a[Len(r) + 1].txn
      <4>1. PICK j \in 1 .. n - 1 : q[j] = r[i]
        BY <2>2
      <4>2. j \in DOMAIN q /\ n \in DOMAIN q /\ j # n
        BY <1>0, <2>3
      <4>3. q[j].txn # q[n].txn
        BY <4>2
      <4> QED BY <3>3, <4>1, <4>3
    <3>7. ASSUME NEW i \in 1 .. Len(a), NEW j \in 1 .. Len(a), a[i].txn = a[j].txn
          PROVE  i = j
      <4>1. (i \in 1 .. Len(r) \/ i = Len(r) + 1) /\ (j \in 1 .. Len(r) \/ j = Len(r) + 1)
        BY <3>3
      <4>2. CASE i \in 1 .. Len(r) /\ j \in 1 .. Len(r)
        BY <2>2, <3>3, <3>7, <4>2
      <4> QED BY <3>6, <3>7, <4>1, <4>2
    <3>8. Kept(n, a)
      BY <3>3, <3>4, <3>5, <3>7
    <3> HIDE DEF Kept
    <3> QED BY <3>1, <3>2, <3>8
  <2> QED BY <2>4, <2>5
<1> HIDE DEF Kept
<1>5. Bad = {}
  <2>1. SUFFICES ASSUME Bad # {} PROVE FALSE
    OBVIOUS
  <2>2. PICK m \in Bad : \A n \in Bad : m <= n
    <3>1. Bad \subseteq Nat
      BY <1>0
    <3> HIDE DEF Bad
    <3> QED BY <2>1, <3>1, HasMin
  <2>3. m \in 1 .. Len(q)
    BY <1>0, <1>3
  <2>4. m - 1 \in 0 .. Len(q) /\ ~(m <= m - 1)
    BY <1>0, <2>3
  <2>5. Kept(m - 1, f[m - 1])
    BY <2>2, <2>4
  <2> QED BY <1>4, <2>3, <2>5
<1>6. Kept(Len(q), f[Len(q)])
  <2>1. Len(q) \in 0 .. Len(q)
    BY <1>0
  <2> QED BY <1>5, <2>1
<1>7. PICK r : r = f[Len(q)]
  OBVIOUS
<1>8. /\ r \in Seq(Waiter)
      /\ \A i \in 1 .. Len(r) : r[i].txn \notin T /\ \E j \in 1 .. Len(q) : q[j] = r[i]
      /\ \A j \in 1 .. Len(q) : q[j].txn \notin T => \E i \in 1 .. Len(r) : r[i] = q[j]
      /\ \A i, j \in 1 .. Len(r) : r[i].txn = r[j].txn => i = j
  BY <1>6, <1>7 DEF Kept
<1>9. DOMAIN r = 1 .. Len(r)
  BY <1>8
<1>10. /\ r \in Seq(Waiter)
       /\ Without(q, T) = r
       /\ \A i \in DOMAIN r : r[i].txn \notin T /\ \E j \in DOMAIN q : q[j] = r[i]
       /\ \A j \in DOMAIN q : q[j].txn \notin T => \E i \in DOMAIN r : r[i] = q[j]
       /\ \A i, j \in DOMAIN r : r[i].txn = r[j].txn => i = j
  BY ONLY <1>0, <1>1, <1>7, <1>8, <1>9, Zenon
<1> QED BY ONLY <1>10, Zenon

\* A non-empty finite set of naturals has a greatest member.
LEMMA HasMax ==
  ASSUME NEW S, S \subseteq Nat, S # {}, IsFiniteSet(S)
  PROVE  \E m \in S : \A n \in S : n <= m
<1> DEFINE Top(A) == \E m \in A : \A n \in A : n <= m
           Bad == {n \in Nat : \E A \in SUBSET Nat :
                     IsFiniteSet(A) /\ Cardinality(A) = n /\ A # {} /\ ~Top(A)}
<1>1. Bad = {}
  <2>1. SUFFICES ASSUME Bad # {} PROVE FALSE
    OBVIOUS
  <2>2. PICK c \in Bad : \A n \in Bad : c <= n
    <3>1. Bad \subseteq Nat
      OBVIOUS
    <3> HIDE DEF Bad
    <3> QED BY <2>1, <3>1, HasMin
  <2>3. PICK A \in SUBSET Nat : IsFiniteSet(A) /\ Cardinality(A) = c /\ A # {} /\ ~Top(A)
    OBVIOUS
  <2>4. PICK x \in A : TRUE
    BY <2>3
  <2>5. PICK B : B = A \ {x}
    OBVIOUS
  <2>6. IsFiniteSet(B) /\ Cardinality(B) = c - 1 /\ B \in SUBSET Nat /\ c \in Nat
    BY <2>3, <2>4, <2>5, FS_RemoveElement
  <2>7. B # {}
    <3>1. ASSUME B = {} PROVE A = {x}
      BY <3>1, <2>4, <2>5
    <3> QED BY <3>1, <2>3
  <2>8. c - 1 \in Nat /\ ~(c <= c - 1)
    BY <2>6, <2>7, FS_EmptySet, FS_CardinalityType
  <2>9. Top(B)
    <3> HIDE DEF Top
    <3> QED BY <2>2, <2>6, <2>7, <2>8
  <2>10. PICK m \in B : \A n \in B : n <= m
    BY <2>9
  <2>11. m \in Nat /\ x \in Nat /\ m \in A /\ \A n \in A : n \in B \/ n = x
    BY <2>4, <2>5
  <2>12. CASE x <= m
    BY <2>3, <2>10, <2>11, <2>12
  <2>13. CASE m <= x
    <3>1. ASSUME NEW n \in A PROVE n <= x
      BY <2>6, <2>10, <2>11, <2>13
    <3> QED BY <2>3, <3>1
  <2> QED BY <2>11, <2>12, <2>13
<1>2. Cardinality(S) \in Nat
  BY FS_CardinalityType
<1> HIDE DEF Top
<1>3. Top(S)
  BY <1>1, <1>2
<1> QED BY <1>3 DEF Top

\* choose_victim picks a member of the cycle.
LEMMA VictimInCycle ==
  ASSUME NEW C \in SUBSET Txns, C # {}
  PROVE  Victim(C) \in C
<1>1. PICK p \in {Priority[t] : t \in C} : \A n \in {Priority[t] : t \in C} : p <= n
  <2>1. {Priority[t] : t \in C} \subseteq Nat /\ {Priority[t] : t \in C} # {}
    BY LockAssumption
  <2> QED BY <2>1, HasMin
<1>2. PICK A : A = {t \in C : Priority[t] = p}
  OBVIOUS
<1>3. A # {} /\ A \subseteq Nat /\ A \in SUBSET Txns
  BY <1>1, <1>2, LockAssumption
<1>4. IsFiniteSet(A)
  BY <1>3, LockAssumption, FS_Subset
<1>5. PICK v \in A : \A t \in A : t <= v
  BY <1>3, <1>4, HasMax
<1>6. ASSUME NEW t \in C
      PROVE  Priority[v] < Priority[t] \/ (Priority[v] = Priority[t] /\ t <= v)
  <2>1. Priority[t] \in Nat /\ p \in Nat /\ p <= Priority[t] /\ Priority[v] = p
    BY <1>1, <1>2, LockAssumption
  <2>2. CASE Priority[t] = p
    BY <1>2, <1>5, <2>1, <2>2
  <2> QED BY <2>1, <2>2
<1>7. v \in C
  BY <1>2
<1> QED BY <1>6, <1>7 DEF Victim

-----------------------------------------------------------------------------
\* r is q without the entries of D, whatever the order.
Thinned(q, r, D) ==
    /\ \A i \in DOMAIN r : r[i].txn \notin D /\ \E j \in DOMAIN q : q[j] = r[i]
    /\ \A j \in DOMAIN q : q[j].txn \notin D => \E i \in DOMAIN r : r[i] = q[j]
    /\ \A i, j \in DOMAIN r : r[i].txn = r[j].txn => i = j

\* A wait is not NoWait.
LEMMA WaitIsNotNoWait ==
  ASSUME NEW k, NEW m
  PROVE  [key |-> k, mode |-> m] # NoWait
<1>1. DOMAIN [key |-> k, mode |-> m] = {"key", "mode"} /\ DOMAIN NoWait = {"key"}
  BY DEF NoWait
<1> QED BY <1>1

\* The queues of a sound Inner: entry by entry.
LEMMA QueueFacts ==
  ASSUME NEW s, NEW w, Sound(s, w), NEW k \in Keys
  PROVE  /\ s.queue[k] \in Seq(Waiter)
         /\ \A i, j \in DOMAIN s.queue[k] : s.queue[k][i].txn = s.queue[k][j].txn => i = j
         /\ \A i \in DOMAIN s.queue[k] : s.queue[k][i].txn \in Txns /\ s.queue[k][i].mode \in Modes
<1>1. s.queue[k] \in Seq(Waiter)
  BY DEF Sound, Typed
<1>2. \A i \in DOMAIN s.queue[k] : s.queue[k][i] \in Waiter
  BY <1>1
<1>3. \A i \in DOMAIN s.queue[k] : s.queue[k][i].txn \in Txns /\ s.queue[k][i].mode \in Modes
  BY <1>2 DEF Waiter
<1>4. \A i, j \in DOMAIN s.queue[k] : s.queue[k][i].txn = s.queue[k][j].txn => i = j
  BY DEF Sound, QueuesMatch
<1> QED BY <1>1, <1>3, <1>4

\* A queued transaction waits for the key it is queued at, so it is queued at
\* no other, and it has no fate.
LEMMA QueuedFacts ==
  ASSUME NEW s, NEW w, Sound(s, w), NEW k \in Keys, NEW t, Queued(s, k, t)
  PROVE  /\ t \in Txns /\ w[t] # NoWait /\ w[t].key = k /\ s.fates[t] = "none"
         /\ k \in s.txnKeys[t]
<1>1. PICK i \in DOMAIN s.queue[k] : s.queue[k][i].txn = t
  BY DEF Queued
<1>2. w[t] = [key |-> k, mode |-> s.queue[k][i].mode] /\ s.fates[t] = "none"
  BY <1>1 DEF Sound, QueuesMatch
<1>3. w[t] # NoWait /\ w[t].key = k
  BY <1>2, WaitIsNotNoWait
<1>4. t \in Txns
  BY <1>1, QueueFacts
<1>5. k \in s.txnKeys[t]
  BY <1>4 DEF Sound, Tracked
<1> QED BY <1>2, <1>3, <1>4, <1>5

\* The queued transactions are finitely many.
LEMMA MembersFinite ==
  ASSUME NEW s
  PROVE  Members(s) \in SUBSET Txns /\ IsFiniteSet(Members(s)) /\ Cardinality(Members(s)) \in Nat
<1>1. Members(s) \in SUBSET Txns
  BY DEF Members
<1> QED BY <1>1, LockAssumption, FS_Subset, FS_CardinalityType

\* Taking finitely many members away leaves so many fewer.
LEMMA CountWithout ==
  ASSUME NEW A, IsFiniteSet(A), NEW D
  PROVE  Cardinality(A \ D) = Cardinality(A) - Cardinality(A \cap D)
<1>1. PICK B, C : B = A \ D /\ C = A \cap D
  OBVIOUS
<1>2. B \in SUBSET A /\ C \in SUBSET A /\ B \cup C = A /\ B \cap C = {}
  BY <1>1
<1>3. /\ IsFiniteSet(B) /\ IsFiniteSet(C)
      /\ Cardinality(A) \in Nat /\ Cardinality(B) \in Nat /\ Cardinality(C) \in Nat
  BY <1>2, FS_Subset, FS_CardinalityType
<1>4. Cardinality(B \cup C) = Cardinality(B) + Cardinality(C) - Cardinality(B \cap C)
  BY <1>3, FS_Union
<1>5. Cardinality(A) = Cardinality(B) + Cardinality(C) - 0
  BY <1>2, <1>4, FS_EmptySet
<1> QED BY <1>1, <1>3, <1>5

\* The count stays right while as many leave as are subtracted.
LEMMA StillCounted ==
  ASSUME NEW s, Counted(s), NEW x, NEW D, Members(x) = Members(s) \ D,
         Fewer(s, x, Members(s) \cap D)
  PROVE  Counted(x)
BY MembersFinite, CountWithout DEF Counted, Fewer

\* The transactions D leave their queues, each with a fate or at the end of its
\* wait: s becomes x and what the threads wait for, w, becomes v.
Leave(s, w, x, v, D) ==
    /\ Typed(x) /\ v \in Waits
    /\ x.holders = s.holders
    /\ Fewer(s, x, Members(s) \cap D)
    /\ \A k \in Keys : Thinned(s.queue[k], x.queue[k], D)
    /\ \A t \in Txns : t \notin D => x.fates[t] = s.fates[t] /\ v[t] = w[t]
    /\ \A t \in Txns : t \in D =>
          \/ x.fates[t] # "none" /\ v[t] # NoWait
          \/ x.fates[t] = "none" /\ v[t] = NoWait
    /\ \A t \in Txns : \A k \in Keys : k \in s.txnKeys[t] =>
          k \in x.txnKeys[t] \/ (t \in D /\ ~Holds(s, k, t))

\* Transactions that leave their queues so leave a sound Inner.
LEMMA LeaveSound ==
  ASSUME NEW s, NEW w, NEW x, NEW v, NEW D, Sound(s, w), Leave(s, w, x, v, D)
  PROVE  Sound(x, v)
<1> USE DEF Leave
<1>1. \A k \in Keys : \A t : Holds(x, k, t) <=> Holds(s, k, t)
  BY DEF Holds
<1>2. ASSUME NEW k \in Keys, NEW i \in DOMAIN x.queue[k]
      PROVE  /\ x.queue[k][i].txn \notin D /\ x.queue[k][i].txn \in Txns
             /\ \E j \in DOMAIN s.queue[k] : s.queue[k][j] = x.queue[k][i]
  BY QueueFacts DEF Thinned
<1>3. QueuesMatch(x, v)
  <2>1. SUFFICES ASSUME NEW k \in Keys, NEW i \in DOMAIN x.queue[k]
                 PROVE  /\ v[x.queue[k][i].txn] = [key |-> k, mode |-> x.queue[k][i].mode]
                        /\ x.fates[x.queue[k][i].txn] = "none"
                        /\ Holds(x, k, x.queue[k][i].txn) => x.queue[k][i].mode = "Exclusive"
                        /\ \A j \in DOMAIN x.queue[k] :
                              x.queue[k][i].txn = x.queue[k][j].txn => i = j
    BY DEF QueuesMatch
  <2>2. PICK j \in DOMAIN s.queue[k] : s.queue[k][j] = x.queue[k][i]
    BY <1>2
  <2>3. /\ w[s.queue[k][j].txn] = [key |-> k, mode |-> s.queue[k][j].mode]
        /\ s.fates[s.queue[k][j].txn] = "none"
        /\ Holds(s, k, s.queue[k][j].txn) => s.queue[k][j].mode = "Exclusive"
    BY DEF Sound, QueuesMatch
  <2>4. x.queue[k][i].txn \notin D /\ x.queue[k][i].txn \in Txns
    BY <1>2
  <2>5. \A h \in DOMAIN x.queue[k] : x.queue[k][i].txn = x.queue[k][h].txn => i = h
    BY DEF Thinned
  <2> QED BY <1>1, <2>2, <2>3, <2>4, <2>5
<1>4. FatesMatch(x, v)
  BY DEF Sound, FatesMatch
<1>5. Exclusion(x)
  BY <1>1 DEF Sound, Exclusion
<1>6. ASSUME NEW k \in Keys, NEW t, Queued(x, k, t)
      PROVE  Queued(s, k, t) /\ t \notin D
  BY <1>2, <1>6 DEF Queued
<1>7. Tracked(x)
  <2>1. SUFFICES ASSUME NEW t \in Txns, NEW k \in Keys, Holds(x, k, t) \/ Queued(x, k, t)
                 PROVE  k \in x.txnKeys[t]
    BY DEF Tracked
  <2>2. k \in s.txnKeys[t]
    BY <1>1, <1>6, <2>1 DEF Sound, Tracked
  <2> QED BY <1>1, <1>6, <2>1, <2>2
<1>8. Granted(x, v)
  <2>1. SUFFICES ASSUME NEW t \in Txns, v[t] # NoWait, x.fates[t] = "none",
                        ~Queued(x, v[t].key, t)
                 PROVE  x.holders[v[t].key][t] \in {v[t].mode, "Exclusive"}
    BY DEF Granted
  <2>2. t \notin D /\ v[t] = w[t] /\ s.fates[t] = "none"
    BY <2>1
  <2>3. w[t].key \in Keys
    BY <2>1, <2>2 DEF Sound, Waits
  <2>4. ~Queued(s, w[t].key, t)
    <3>1. SUFFICES ASSUME NEW j \in DOMAIN s.queue[w[t].key],
                          s.queue[w[t].key][j].txn = t
                   PROVE  FALSE
      BY DEF Queued
    <3>2. \E i \in DOMAIN x.queue[w[t].key] :
             x.queue[w[t].key][i] = s.queue[w[t].key][j]
      BY <2>2, <2>3, <3>1 DEF Thinned
    <3> QED BY <2>1, <2>2, <3>1, <3>2 DEF Queued
  <2> QED BY <2>1, <2>2, <2>4 DEF Sound, Granted
<1>9. Counted(x)
  <2>1. ASSUME NEW k \in Keys, NEW t, Queued(s, k, t), t \notin D
        PROVE  Queued(x, k, t)
    BY <2>1 DEF Thinned, Queued
  <2>2. Members(x) = Members(s) \ D
    BY <1>6, <2>1 DEF Members
  <2> QED BY <2>2, StillCounted DEF Sound
<1> QED BY <1>3, <1>4, <1>5, <1>7, <1>8, <1>9 DEF Sound

-----------------------------------------------------------------------------
\* Untrack only takes a key from one transaction that has nothing on it.
LEMMA UntrackFields ==
  ASSUME NEW s, Typed(s), NEW k \in Keys, NEW t \in Txns, NEW x, x = Untrack(s, k, t)
  PROVE  /\ Typed(x) /\ x.holders = s.holders /\ x.queue = s.queue /\ x.fates = s.fates
         /\ x.queuedWaiters = s.queuedWaiters
         /\ \A u \in Txns : \A j \in Keys : j \in s.txnKeys[u] =>
               j \in x.txnKeys[u] \/ (u = t /\ j = k /\ ~Holds(s, k, t) /\ ~Queued(s, k, t))
<1>1. CASE Holds(s, k, t) \/ Queued(s, k, t)
  BY <1>1 DEF Untrack
<1>2. CASE ~(Holds(s, k, t) \/ Queued(s, k, t))
  <2>1. x = [s EXCEPT !.txnKeys[t] = @ \ {k}]
    BY <1>2 DEF Untrack
  <2>2. /\ x.holders = s.holders /\ x.queue = s.queue /\ x.fates = s.fates
        /\ x.queuedWaiters = s.queuedWaiters
        /\ x.txnKeys = [s.txnKeys EXCEPT ![t] = @ \ {k}]
    BY <2>1 DEF Typed
  <2>3. x = [holders |-> x.holders, queue |-> x.queue, txnKeys |-> x.txnKeys,
             queuedWaiters |-> x.queuedWaiters, fates |-> x.fates]
    BY <2>1 DEF Typed
  <2>4. Typed(x)
    BY <2>2, <2>3 DEF Typed
  <2>5. \A u \in Txns : x.txnKeys[u] = IF u = t THEN s.txnKeys[t] \ {k} ELSE s.txnKeys[u]
    BY <2>2 DEF Typed
  <2> QED BY <1>2, <2>2, <2>4, <2>5
<1> QED BY <1>1, <1>2

\* x is s after t left the queue of k.
Removed(s, x, k, t) ==
    /\ Typed(x) /\ x.holders = s.holders /\ x.fates = s.fates
    /\ Fewer(s, x, {t})
    /\ \A j \in Keys : j # k => x.queue[j] = s.queue[j]
    /\ \A j \in Keys : Thinned(s.queue[j], x.queue[j], {t})
    /\ \A u \in Txns : \A j \in Keys : j \in s.txnKeys[u] =>
          j \in x.txnKeys[u] \/ (u = t /\ ~Holds(s, j, t))

\* remove_waiter takes one transaction out of one queue.
LEMMA RemoveFields ==
  ASSUME NEW s, NEW w, Sound(s, w), NEW k \in Keys, NEW t \in Txns, Queued(s, k, t),
         NEW x, x = RemoveWaiter(s, k, t)
  PROVE  Removed(s, x, k, t)
<1>0. Typed(s)
  BY DEF Sound
<1>1. PICK r \in Seq(Waiter) :
        Without(s.queue[k], {t}) = r /\ Thinned(s.queue[k], r, {t})
  <2>1. /\ s.queue[k] \in Seq(Waiter)
        /\ \A i, j \in DOMAIN s.queue[k] : s.queue[k][i].txn = s.queue[k][j].txn => i = j
    BY QueueFacts
  <2> QED BY <2>1, WithoutFacts DEF Thinned
<1>2. PICK y : y = [s EXCEPT !.queue[k] = Without(@, {t}), !.queuedWaiters = @ - 1]
  OBVIOUS
<1>3. x = Untrack(y, k, t)
  BY <1>2 DEF RemoveWaiter
<1>4. /\ y.holders = s.holders /\ y.fates = s.fates /\ y.txnKeys = s.txnKeys
      /\ y.queue = [s.queue EXCEPT ![k] = r]
      /\ y.queuedWaiters = s.queuedWaiters - 1
  BY <1>0, <1>1, <1>2 DEF Typed
<1>5. y = [holders |-> y.holders, queue |-> y.queue, txnKeys |-> y.txnKeys,
           queuedWaiters |-> y.queuedWaiters, fates |-> y.fates]
  BY <1>0, <1>2 DEF Typed
<1>6. Typed(y)
  BY <1>0, <1>4, <1>5 DEF Typed
<1>7. y.queue[k] = r /\ \A j \in Keys : j # k => y.queue[j] = s.queue[j]
  BY <1>0, <1>4 DEF Typed
<1>8. ASSUME NEW j \in Keys PROVE Thinned(s.queue[j], y.queue[j], {t})
  <2>1. CASE j = k
    BY <1>1, <1>7, <2>1
  <2>2. CASE j # k
    <3>1. ~Queued(s, j, t)
      BY <2>2, QueuedFacts
    <3>2. \A i \in DOMAIN s.queue[j] : s.queue[j][i].txn # t
      BY <3>1 DEF Queued
    <3>3. \A h, i \in DOMAIN s.queue[j] : s.queue[j][h].txn = s.queue[j][i].txn => h = i
      BY QueueFacts
    <3>4. Thinned(s.queue[j], s.queue[j], {t})
      BY <3>2, <3>3 DEF Thinned
    <3> QED BY <1>7, <2>2, <3>4
  <2> QED BY <2>1, <2>2
<1>9. \A j : Holds(y, j, t) <=> Holds(s, j, t)
  BY <1>4 DEF Holds
<1>10. /\ Typed(x) /\ x.holders = y.holders /\ x.queue = y.queue /\ x.fates = y.fates
       /\ x.queuedWaiters = y.queuedWaiters
       /\ \A u \in Txns : \A j \in Keys : j \in y.txnKeys[u] =>
             j \in x.txnKeys[u] \/ (u = t /\ j = k /\ ~Holds(y, k, t) /\ ~Queued(y, k, t))
  BY <1>3, <1>6, UntrackFields
<1>11. Fewer(s, x, {t})
  BY <1>4, <1>10, FS_Singleton DEF Fewer
<1> QED BY <1>4, <1>7, <1>8, <1>9, <1>10, <1>11 DEF Removed

\* A queue stays served while neither it, nor the holders of its key, nor any
\* fate it counts on is taken away.
LEMMA ServedKept ==
  ASSUME NEW s, NEW x, NEW w, NEW v, NEW k, Served(s, w, k),
         x.queue[k] = s.queue[k], x.holders[k] = s.holders[k],
         \A t \in Txns : s.fates[t] # "none" /\ w[t].key = k =>
            x.fates[t] # "none" /\ v[t].key = k
  PROVE  Served(x, v, k)
<1>1. Grantable(x, k, 1) => Grantable(s, k, 1)
  BY DEF Grantable, Holds
<1> QED BY <1>1 DEF Served

\* Dooming a waiter keeps Inner settled: the victim itself will serve its queue.
LEMMA DoomSettled ==
  ASSUME NEW s, NEW w, Settled(s, w), NEW k \in Keys, NEW t, Queued(s, k, t)
  PROVE  Settled(Doom(s, t), w)
<1>0. Sound(s, w)
  BY DEF Settled
<1>1. t \in Txns /\ w[t] # NoWait
  BY <1>0, QueuedFacts
<1>2. PICK d \in Keys : d = CHOOSE j \in Keys : Queued(s, j, t)
  OBVIOUS
<1>3. Queued(s, d, t)
  BY <1>2
<1>4. PICK y : y = RemoveWaiter(s, d, t)
  OBVIOUS
<1>5. /\ Typed(y) /\ y.holders = s.holders /\ y.fates = s.fates
      /\ Fewer(s, y, {t})
      /\ \A j \in Keys : j # d => y.queue[j] = s.queue[j]
      /\ \A j \in Keys : Thinned(s.queue[j], y.queue[j], {t})
      /\ \A u \in Txns : \A j \in Keys : j \in s.txnKeys[u] =>
            j \in y.txnKeys[u] \/ (u = t /\ ~Holds(s, j, t))
  <2>1. Removed(s, y, d, t)
    BY <1>0, <1>1, <1>3, <1>4, RemoveFields
  <2> QED BY <2>1 DEF Removed
<1>6. PICK x : x = Doom(s, t)
  OBVIOUS
<1>7. x = [y EXCEPT !.fates[t] = "Deadlock"]
  BY <1>2, <1>4, <1>6 DEF Doom
<1>8. /\ x.holders = s.holders /\ x.queue = y.queue /\ x.txnKeys = y.txnKeys
      /\ x.fates = [s.fates EXCEPT ![t] = "Deadlock"]
      /\ x.queuedWaiters = y.queuedWaiters
  BY <1>5, <1>7 DEF Typed
<1>9. Typed(x)
  <2>1. x = [holders |-> x.holders, queue |-> x.queue, txnKeys |-> x.txnKeys,
             queuedWaiters |-> x.queuedWaiters, fates |-> x.fates]
    BY <1>5, <1>7 DEF Typed
  <2>2. x.fates \in [Txns -> {"none", "Deadlock", "Cancelled"}]
    <3>1. s.fates \in [Txns -> {"none", "Deadlock", "Cancelled"}]
      BY <1>0 DEF Sound, Typed
    <3> QED BY <1>8, <3>1
  <2> QED BY <1>5, <1>8, <2>1, <2>2 DEF Typed
<1>10. x.fates[t] = "Deadlock" /\ \A u \in Txns : u # t => x.fates[u] = s.fates[u]
  BY <1>0, <1>1, <1>8 DEF Sound, Typed
<1>11. Sound(x, w)
  <2>1. w \in Waits
    BY <1>0 DEF Sound
  <2>0. PICK D : D = {t}
    OBVIOUS
  <2>2. \A u \in Txns : u \notin D => x.fates[u] = s.fates[u] /\ w[u] = w[u]
    BY <1>10, <2>0
  <2>3. \A u \in Txns : u \in D => x.fates[u] # "none" /\ w[u] # NoWait
    BY <1>1, <1>10, <2>0
  <2>4. \A j \in Keys : Thinned(s.queue[j], x.queue[j], D)
    BY <1>5, <1>8, <2>0
  <2>5. \A u \in Txns : \A j \in Keys : j \in s.txnKeys[u] =>
           j \in x.txnKeys[u] \/ (u \in D /\ ~Holds(s, j, u))
    BY <1>5, <1>8, <2>0
  <2>6. Fewer(s, x, Members(s) \cap D)
    <3>1. Members(s) \cap D = {t}
      BY <1>1, <1>3, <2>0 DEF Members
    <3>2. Fewer(s, x, {t})
      BY <1>5, <1>8 DEF Fewer
    <3> QED BY <3>1, <3>2
  <2>7. Leave(s, w, x, w, D)
    BY <1>8, <1>9, <2>1, <2>2, <2>3, <2>4, <2>5, <2>6 DEF Leave
  <2> QED BY <1>0, <2>7, LeaveSound
<1>12. ASSUME NEW j \in Keys PROVE Served(x, w, j)
  <2>1. CASE j = d
    <3>1. w[t].key = d
      BY <1>0, <1>3, QueuedFacts
    <3> QED BY <1>1, <1>10, <2>1, <3>1 DEF Served
  <2>2. CASE j # d
    <3>1. Served(s, w, j)
      BY DEF Settled
    <3>2. x.queue[j] = s.queue[j] /\ x.holders[j] = s.holders[j]
      BY <1>5, <1>8, <2>2
    <3>3. \A u \in Txns : s.fates[u] # "none" => x.fates[u] # "none"
      BY <1>10
    <3> QED BY <3>1, <3>2, <3>3, ServedKept
  <2> QED BY <2>1, <2>2
<1> QED BY <1>6, <1>11, <1>12 DEF Settled

\* The victim is one waiter less.
LEMMA DoomCounts ==
  ASSUME NEW s, NEW w, Sound(s, w), NEW k \in Keys, NEW t, Queued(s, k, t)
  PROVE  Cardinality(Members(Doom(s, t))) = Cardinality(Members(s)) - 1
<1>1. t \in Txns
  BY QueuedFacts
<1>2. PICK d \in Keys : d = CHOOSE j \in Keys : Queued(s, j, t)
  OBVIOUS
<1>3. Queued(s, d, t)
  BY <1>2
<1>4. PICK y : y = RemoveWaiter(s, d, t)
  OBVIOUS
<1>5. Removed(s, y, d, t)
  BY <1>1, <1>3, <1>4, RemoveFields
<1>6. PICK x : x = Doom(s, t)
  OBVIOUS
<1>7. x.queue = y.queue
  <2>1. x = [y EXCEPT !.fates[t] = "Deadlock"]
    BY <1>2, <1>4, <1>6 DEF Doom
  <2> QED BY <1>5, <2>1 DEF Removed, Typed
<1>8. ASSUME NEW j \in Keys PROVE Thinned(s.queue[j], x.queue[j], {t})
  BY <1>5, <1>7 DEF Removed
<1>9. ASSUME NEW j \in Keys, NEW u PROVE Queued(x, j, u) <=> Queued(s, j, u) /\ u # t
  <2>1. Thinned(s.queue[j], x.queue[j], {t})
    BY <1>8
  <2> QED BY <2>1 DEF Thinned, Queued
<1>10. Members(x) = Members(s) \ {t} /\ t \in Members(s)
  BY <1>1, <1>9 DEF Members
<1>11. PICK S : S = Members(s) /\ IsFiniteSet(S)
  BY MembersFinite
<1>12. Cardinality(S \ {t}) = Cardinality(S) - 1
  BY <1>10, <1>11, FS_RemoveElement
<1> QED BY <1>6, <1>10, <1>11, <1>12

\* One turn of detect_deadlocks keeps Inner settled.
LEMMA BreakSettled ==
  ASSUME NEW s, NEW w, Settled(s, w), NEW x \in Break(s)
  PROVE  Settled(x, w)
<1>1. CASE x = s
  BY <1>1
<1>2. CASE \E C \in Cycles(s) : x = Doom(s, Victim(C))
  <2>1. PICK C \in Cycles(s) : x = Doom(s, Victim(C))
    BY <1>2
  <2>2. /\ C \in SUBSET Txns /\ C # {}
        /\ \A t \in C : \E u \in C :
              <<t, u>> \in {p \in Txns \X Txns : Edge(s, p[1], p[2])}
    BY DEF Cycles
  <2>3. PICK v \in C : v = Victim(C)
    BY <2>2, VictimInCycle
  <2>4. PICK u \in C : <<v, u>> \in {p \in Txns \X Txns : Edge(s, p[1], p[2])}
    BY <2>2
  <2>5. Edge(s, v, u)
    BY <2>4
  <2>6. PICK k \in Keys : Queued(s, k, v)
    BY <2>5 DEF Edge, Queued
  <2> QED BY <2>1, <2>3, <2>6, DoomSettled
<1> QED BY <1>1, <1>2 DEF Break

\* The turns of detect_deadlocks as a function that exists.
LEMMA DetectRecursion ==
  ASSUME NEW s, NEW N, N = Cardinality(Txns)
  PROVE  \E f : /\ f = [n \in 0 .. N |->
                          IF n = 0 THEN {s} ELSE UNION {Break(x) : x \in f[n - 1]}]
                /\ DetectDeadlocks(s) = f[N]
<1> DEFINE Turn(S) == UNION {Break(x) : x \in S}
           Rec(n, f) == f = [i \in 0 .. n |-> IF i = 0 THEN {s} ELSE Turn(f[i - 1])]
           Bad == {n \in 0 .. N : ~ \E f : Rec(n, f)}
<1>0. N \in Nat
  BY LockAssumption, FS_CardinalityType
<1>1. Bad = {}
  <2>1. SUFFICES ASSUME Bad # {} PROVE FALSE
    OBVIOUS
  <2>2. PICK m \in Bad : \A n \in Bad : m <= n
    <3>1. Bad \subseteq Nat
      BY <1>0
    <3> HIDE DEF Bad
    <3> QED BY <2>1, <3>1, HasMin
  <2>3. m \in Nat /\ m <= N /\ ~ \E f : Rec(m, f)
    BY <1>0
  <2> HIDE DEF Turn
  <2>4. m # 0
    <3>1. Rec(0, [i \in 0 .. 0 |-> {s}])
      OBVIOUS
    <3> HIDE DEF Rec
    <3> QED BY <2>3, <3>1
  <2>5. PICK f : Rec(m - 1, f)
    <3>1. m - 1 \in 0 .. N /\ ~(m <= m - 1)
      BY <1>0, <2>3, <2>4
    <3>2. m - 1 \notin Bad
      BY <3>1, <2>2
    <3> HIDE DEF Rec
    <3> QED BY <3>1, <3>2
  <2> DEFINE g == [i \in 0 .. m |-> IF i <= m - 1 THEN f[i] ELSE Turn(f[m - 1])]
  <2>6. g = [i \in 0 .. m |-> IF i = 0 THEN {s} ELSE Turn(g[i - 1])]
    <3>1. ASSUME NEW i \in 0 .. m
          PROVE  g[i] = IF i = 0 THEN {s} ELSE Turn(g[i - 1])
      <4>1. CASE i = 0
        BY <2>3, <2>4, <2>5, <4>1
      <4>2. CASE i # 0 /\ i <= m - 1
        <5>0. i \in 0 .. m - 1
          BY <2>3, <4>2
        <5>1. f[i] = Turn(f[i - 1])
          BY <2>5, <4>2, <5>0, Zenon
        <5>2. g[i] = f[i] /\ g[i - 1] = f[i - 1]
          BY <2>3, <4>2
        <5> QED BY <4>2, <5>1, <5>2
      <4>3. CASE i = m
        <5>1. g[i] = Turn(f[m - 1]) /\ g[m - 1] = f[m - 1]
          BY <2>3, <2>4, <4>3
        <5> QED BY <2>4, <4>3, <5>1
      <4> QED BY <2>3, <4>1, <4>2, <4>3
    <3> QED BY <3>1
  <2>7. Rec(m, g)
    BY <2>6
  <2> HIDE DEF Rec, g
  <2> QED BY <2>3, <2>7
<1>2. \E f : Rec(N, f)
  <2> HIDE DEF Rec
  <2>1. N \in 0 .. N
    BY <1>0
  <2> QED BY <1>1, <2>1
<1>3. DetectDeadlocks(s) =
        (CHOOSE f : f = [n \in 0 .. N |->
            IF n = 0 THEN {s} ELSE UNION {Break(x) : x \in f[n - 1]}])[N]
  BY DEF DetectDeadlocks
<1>4. Rec(N, CHOOSE f : Rec(N, f))
  <2> HIDE DEF Rec
  <2> QED BY <1>2, Zenon
<1> QED BY <1>3, <1>4

\* The remainder of a smaller number is the number.
LEMMA ModSmall ==
  ASSUME NEW m \in Nat, NEW i \in Nat, i < m
  PROVE  i % m = i
<1>1. i = m * (i \div m) + (i % m) /\ 0 <= i % m /\ i % m < m /\ i \div m \in Int /\ i % m \in Int
  OBVIOUS
<1>2. PICK q \in Int, r \in Int : i = m * q + r /\ 0 <= r /\ r < m /\ r = i % m
  BY <1>1
<1>3. ~(q >= 1)
  <2>1. SUFFICES ASSUME q >= 1 PROVE FALSE
    OBVIOUS
  <2>2. m * q >= m
    BY <2>1
  <2> QED BY <1>2, <2>2
<1>4. ~(q <= -1)
  <2>1. SUFFICES ASSUME q <= -1 PROVE FALSE
    OBVIOUS
  <2>2. m * q <= -m
    BY <2>1
  <2> QED BY <1>2, <2>2
<1>5. q = 0
  BY <1>3, <1>4
<1> QED BY <1>2, <1>5

\* A set in which everybody waits for somebody contains a cycle that find_cycle
\* can return: a longest path cannot leave itself.
LEMMA ClosedHasCycle ==
  ASSUME NEW s, NEW C \in SUBSET Txns, C # {}, Closed(s, C)
  PROVE  Cycles(s) # {}
<1> DEFINE Path(n, c) ==
             /\ c \in [1 .. n -> C]
             /\ \A i, j \in 1 .. n : c[i] = c[j] => i = j
             /\ \A i \in 1 .. n - 1 : Edge(s, c[i], c[i + 1])
           Lens == {n \in Nat : n >= 1 /\ \E c : Path(n, c)}
<1>1. IsFiniteSet(C) /\ Cardinality(C) \in Nat
  BY LockAssumption, FS_Subset, FS_CardinalityType
<1>2. ASSUME NEW n \in Nat, NEW c, Path(n, c) PROVE n <= Cardinality(C)
  <2>1. c \in Injection(1 .. n, C)
    BY <1>2, Fun_IsInj
  <2>2. Cardinality(1 .. n) <= Cardinality(C)
    BY <1>1, <2>1, FS_Injection
  <2>3. Cardinality(1 .. n) = n
    BY FS_Interval
  <2> QED BY <2>2, <2>3
<1>3. PICK n \in Lens : \A m \in Lens : m <= n
  <2>1. Lens # {}
    <3>1. PICK t \in C : TRUE
      OBVIOUS
    <3>2. Path(1, [i \in 1 .. 1 |-> t])
      OBVIOUS
    <3> HIDE DEF Path
    <3>3. 1 \in Lens
      BY <3>2
    <3> QED BY <3>3
  <2>2. Lens \in SUBSET Nat /\ \A m \in Lens : m <= Cardinality(C)
    <3> HIDE DEF Path
    <3> QED BY <1>2
  <2> HIDE DEF Lens
  <2>3. IsFiniteSet(Lens)
    BY <1>1, <2>2, FS_BoundedSetOfNaturals
  <2> QED BY <2>1, <2>2, <2>3, HasMax
<1>4. n \in Nat /\ n >= 1 /\ n + 1 \in Nat /\ ~(n + 1 <= n)
  OBVIOUS
<1>5. PICK c : Path(n, c)
  <2> HIDE DEF Path
  <2> QED OBVIOUS
<1>6. PICK u \in C : Edge(s, c[n], u)
  <2>1. c[n] \in C
    BY <1>4, <1>5
  <2> QED BY <2>1 DEF Closed
<1>7. PICK p \in 1 .. n : c[p] = u
  <2>1. SUFFICES ASSUME \A i \in 1 .. n : c[i] # u PROVE FALSE
    OBVIOUS
  <2>2. PICK d : d = [i \in 1 .. n + 1 |-> IF i <= n THEN c[i] ELSE u]
    OBVIOUS
  <2>3. /\ \A i \in 1 .. n : d[i] = c[i] /\ i \in 1 .. n + 1
        /\ d[n + 1] = u
        /\ \A i \in 1 .. n + 1 : i \in 1 .. n \/ i = n + 1
    BY <1>4, <2>2
  <2>4. d \in [1 .. n + 1 -> C]
    BY <1>4, <1>5, <2>2
  <2>5. ASSUME NEW i \in 1 .. n + 1, NEW j \in 1 .. n + 1, d[i] = d[j] PROVE i = j
    BY <1>5, <2>1, <2>3, <2>5
  <2>6. ASSUME NEW i \in 1 .. (n + 1) - 1 PROVE Edge(s, d[i], d[i + 1])
    <3>1. CASE i = n
      BY <1>4, <1>6, <2>3, <3>1
    <3>2. CASE i # n
      <4>1. i \in 1 .. n - 1 /\ i \in 1 .. n /\ i + 1 \in 1 .. n
        BY <1>4, <3>2
      <4> QED BY <1>5, <2>3, <4>1
    <3> QED BY <3>1, <3>2
  <2>7. Path(n + 1, d)
    BY <2>4, <2>5, <2>6
  <2> HIDE DEF Path
  <2>8. n + 1 \in Lens
    BY <1>4, <2>7
  <2> HIDE DEF Lens
  <2> QED BY <1>3, <1>4, <2>8
<1>8. PICK m \in Nat : m = n - p + 1 /\ m >= 1
  BY <1>4
<1>9. PICK d, D : d = [i \in 1 .. m |-> c[(p + i) - 1]] /\ D = {c[(p + i) - 1] : i \in 1 .. m}
  OBVIOUS
<1>10. \A i \in 1 .. m : (p + i) - 1 \in 1 .. n /\ d[i] = c[(p + i) - 1]
  BY <1>4, <1>8, <1>9
<1>11. d \in [1 .. m -> D] /\ D \in SUBSET C /\ D # {}
  BY <1>4, <1>5, <1>8, <1>9, <1>10
<1>12. ASSUME NEW i \in 1 .. m, NEW j \in 1 .. m, d[i] = d[j] PROVE i = j
  <2>1. (p + i) - 1 = (p + j) - 1
    BY <1>5, <1>10, <1>12
  <2> QED BY <1>4, <1>8, <2>1
<1>13. ASSUME NEW i \in 1 .. m
       PROVE  (i % m) + 1 \in 1 .. m /\ Edge(s, d[i], d[(i % m) + 1])
  <2>1. CASE i = m
    <3>1. (i % m) + 1 = 1
      BY <1>8, <2>1
    <3>2. (p + m) - 1 = n /\ (p + 1) - 1 = p /\ 1 \in 1 .. m
      BY <1>4, <1>8
    <3>3. d[i] = c[n] /\ d[1] = u
      BY <1>7, <1>10, <2>1, <3>2
    <3> QED BY <1>6, <3>1, <3>2, <3>3
  <2>2. CASE i < m
    <3>1. (i % m) + 1 = i + 1
      <4>1. i \in Nat
        OBVIOUS
      <4>2. i % m = i
        BY <2>2, <4>1, ModSmall, Zenon
      <4> QED BY <4>2, Zenon
    <3>2. i + 1 \in 1 .. m /\ (p + i) - 1 \in 1 .. n - 1 /\ (p + (i + 1)) - 1 = ((p + i) - 1) + 1
      BY <1>4, <1>8, <2>2
    <3>3. Edge(s, c[(p + i) - 1], c[((p + i) - 1) + 1])
      BY <1>5, <3>2
    <3>4. d[i] = c[(p + i) - 1] /\ d[i + 1] = c[((p + i) - 1) + 1]
      BY <1>10, <3>2
    <3> QED BY <3>1, <3>2, <3>3, <3>4
  <2> QED BY <1>8, <2>1, <2>2
<1>14. Cardinality(D) = m
  <2>1. \A t \in D : \E i \in 1 .. m : d[i] = t
    BY <1>9, <1>10
  <2>2. d \in Bijection(1 .. m, D)
    BY <1>11, <1>12, <2>1, Fun_IsBij
  <2>3. ExistsBijection(1 .. m, D)
    BY <2>2, Fun_ExistsBij
  <2> QED BY <2>3, FS_CountingElements
<1>15. d \in SetToSeqs(D)
  BY <1>11, <1>12, <1>14 DEF SetToSeqs
<1>16. DOMAIN d = 1 .. m /\ Len(d) = m
  BY <1>11
<1>17. PICK E : E = {q \in Txns \X Txns : Edge(s, q[1], q[2])}
  OBVIOUS
<1>18. ASSUME NEW i \in 1 .. m PROVE <<d[i], d[(i % m) + 1]>> \in E
  BY <1>11, <1>13, <1>17
<1>19. D \in (SUBSET Txns) \ {{}} /\ \A t \in D : \E v \in D : <<t, v>> \in E
  <2>1. ASSUME NEW t \in D PROVE \E v \in D : <<t, v>> \in E
    <3>1. PICK i \in 1 .. m : d[i] = t
      BY <1>9, <1>10
    <3>2. d[(i % m) + 1] \in D
      BY <1>11, <1>13
    <3> QED BY <1>18, <3>1, <3>2
  <2> QED BY <1>11, <2>1
<1>20. D \in Cycles(s)
  <2>1. \A i \in DOMAIN d : <<d[i], d[(i % Len(d)) + 1]>> \in E
    BY <1>16, <1>18
  <2> QED BY <1>15, <1>17, <1>19, <2>1 DEF Cycles
<1> QED BY <1>20

\* Without a queued transaction nobody waits for anybody.
LEMMA EmptyAcyclic ==
  ASSUME NEW s, Members(s) = {}
  PROVE  Acyclic(s)
BY DEF Acyclic, Closed, Edge, Members, Queued

\* One turn of detect_deadlocks takes a waiter out of its queue unless there is
\* no cycle left, and then it changes nothing.
LEMMA BreakCounts ==
  ASSUME NEW s, NEW w, Settled(s, w), NEW x \in Break(s)
  PROVE  \/ Acyclic(s) /\ x = s
         \/ ~Acyclic(s) /\ Cardinality(Members(x)) = Cardinality(Members(s)) - 1
<1>0. Sound(s, w)
  BY DEF Settled
<1>1. ASSUME NEW C \in Cycles(s)
      PROVE  C \in SUBSET Txns /\ C # {} /\ Closed(s, C)
  <2>1. /\ C \in SUBSET Txns /\ C # {}
        /\ \A t \in C : \E u \in C :
              <<t, u>> \in {q \in Txns \X Txns : Edge(s, q[1], q[2])}
    BY DEF Cycles
  <2> QED BY <2>1 DEF Closed
<1>2. ASSUME s.queuedWaiters = 0 \/ Cycles(s) = {} PROVE Acyclic(s)
  <2>1. CASE s.queuedWaiters = 0
    <3>1. Members(s) = {}
      BY <1>0, <2>1, MembersFinite, FS_EmptySet DEF Sound, Counted
    <3> QED BY <3>1, EmptyAcyclic
  <2>2. CASE Cycles(s) = {}
    BY <2>2, ClosedHasCycle DEF Acyclic
  <2> QED BY <1>2, <2>1, <2>2
<1>3. CASE s.queuedWaiters = 0 \/ Cycles(s) = {}
  BY <1>2, <1>3 DEF Break
<1>4. CASE ~(s.queuedWaiters = 0 \/ Cycles(s) = {})
  <2>1. PICK C \in Cycles(s) : x = Doom(s, Victim(C))
    BY <1>4 DEF Break
  <2>2. ~Acyclic(s)
    BY <1>1 DEF Acyclic
  <2>3. PICK v \in C : v = Victim(C)
    BY <1>1, VictimInCycle
  <2>4. PICK k \in Keys : Queued(s, k, v)
    BY <1>1 DEF Closed, Edge, Queued
  <2>5. Cardinality(Members(x)) = Cardinality(Members(s)) - 1
    BY <1>0, <2>1, <2>3, <2>4, DoomCounts
  <2> QED BY <2>2, <2>5
<1> QED BY <1>3, <1>4

\* detect_deadlocks keeps Inner settled, whichever cycles it finds, and leaves
\* none: every turn takes a waiter, and there are no more than transactions.
LEMMA DetectSettled ==
  ASSUME NEW s, NEW w, Settled(s, w), NEW x \in DetectDeadlocks(s)
  PROVE  Resting(x, w)
<1>0. PICK N \in Nat : N = Cardinality(Txns)
  BY LockAssumption, FS_CardinalityType
<1>1. PICK f : /\ f = [n \in 0 .. N |->
                        IF n = 0 THEN {s} ELSE UNION {Break(y) : y \in f[n - 1]}]
               /\ DetectDeadlocks(s) = f[N]
  BY <1>0, DetectRecursion
<1>2. ASSUME NEW n \in 0 .. N
      PROVE  f[n] = IF n = 0 THEN {s} ELSE UNION {Break(y) : y \in f[n - 1]}
  BY <1>1, Zenon
<1>3. 0 \in 0 .. N /\ N \in 0 .. N
  BY <1>0
<1>4. ASSUME NEW y PROVE Cardinality(Members(y)) \in Nat /\ Cardinality(Members(y)) <= N
  BY <1>0, MembersFinite, LockAssumption, FS_Subset
<1> DEFINE Good(n, y) == /\ Settled(y, w)
                         /\ Acyclic(y) \/ Cardinality(Members(y)) + n <= N
           Bad == {n \in 0 .. N : \E y \in f[n] : ~Good(n, y)}
<1>5. Bad = {}
  <2>1. SUFFICES ASSUME Bad # {} PROVE FALSE
    OBVIOUS
  <2>2. PICK m \in Bad : \A n \in Bad : m <= n
    <3>1. Bad \subseteq Nat
      BY <1>0
    <3> HIDE DEF Bad
    <3> QED BY <2>1, <3>1, HasMin
  <2>3. PICK y \in f[m] : ~Good(m, y)
    OBVIOUS
  <2>4. m # 0
    <3>1. SUFFICES ASSUME m = 0 PROVE FALSE
      OBVIOUS
    <3>2. y = s
      BY <1>2, <1>3, <2>3, <3>1
    <3>3. Cardinality(Members(s)) + 0 <= N
      BY <1>0, <1>4
    <3> QED BY <2>3, <3>1, <3>2, <3>3
  <2>5. m - 1 \in 0 .. N /\ ~(m <= m - 1)
    BY <1>0, <2>4
  <2>6. f[m] = UNION {Break(z) : z \in f[m - 1]}
    BY <1>2, <2>4
  <2>7. PICK z \in f[m - 1] : y \in Break(z)
    BY <2>3, <2>6
  <2>8. Good(m - 1, z)
    <3> HIDE DEF Good
    <3> QED BY <2>2, <2>5
  <2>9. Settled(z, w) /\ Settled(y, w)
    BY <2>7, <2>8, BreakSettled
  <2>10. CASE Acyclic(z) /\ y = z
    BY <2>3, <2>9, <2>10
  <2>11. CASE ~Acyclic(z) /\ Cardinality(Members(y)) = Cardinality(Members(z)) - 1
    <3>1. Cardinality(Members(z)) + (m - 1) <= N
      BY <2>8, <2>11
    <3>2. Cardinality(Members(y)) + m <= N
      BY <1>0, <1>4, <2>11, <3>1
    <3> QED BY <2>3, <2>9, <3>2
  <2> QED BY <2>7, <2>9, <2>10, <2>11, BreakCounts
<1>6. Good(N, x)
  <2> HIDE DEF Good
  <2> QED BY <1>1, <1>3, <1>5
<1>7. ASSUME Cardinality(Members(x)) + N <= N PROVE Acyclic(x)
  <2>1. Cardinality(Members(x)) = 0
    BY <1>0, <1>4, <1>7
  <2>2. Members(x) = {}
    BY <2>1, MembersFinite, FS_EmptySet
  <2> QED BY <2>2, EmptyAcyclic
<1> QED BY <1>6, <1>7 DEF Resting

-----------------------------------------------------------------------------
\* process_key, first half: purged waiters leave their queue with a fate.
LEMMA PurgeSound ==
  ASSUME NEW s, NEW w, Sound(s, w), NEW K, K \subseteq Keys, NEW x, x = Purge(s, K)
  PROVE  /\ Sound(x, w) /\ x.holders = s.holders
         /\ \A k \in Keys : k \notin K => x.queue[k] = s.queue[k]
         /\ \A t \in Txns : s.fates[t] # "none" => x.fates[t] # "none"
<1>0. Typed(s) /\ w \in Waits
  BY DEF Sound
<1>1. PICK D : D = {t \in expired : \E k \in K : Queued(s, k, t)}
  OBVIOUS
<1>2. x = [s EXCEPT
       !.queue = [k \in Keys |-> IF k \in K THEN Without(s.queue[k], D) ELSE s.queue[k]],
       !.queuedWaiters = s.queuedWaiters - Cardinality(D),
       !.fates = [t \in Txns |-> IF t \in D /\ s.fates[t] = "none"
                                THEN "Cancelled" ELSE s.fates[t]],
       !.txnKeys = [t \in Txns |-> IF t \notin D THEN s.txnKeys[t]
                      ELSE s.txnKeys[t] \ {k \in K : Queued(s, k, t) /\ ~Holds(s, k, t)}]]
  BY <1>1 DEF Purge
<1>3. /\ x.holders = s.holders
      /\ x.queue = [k \in Keys |-> IF k \in K THEN Without(s.queue[k], D) ELSE s.queue[k]]
      /\ x.fates = [t \in Txns |-> IF t \in D /\ s.fates[t] = "none"
                                  THEN "Cancelled" ELSE s.fates[t]]
      /\ x.txnKeys = [t \in Txns |-> IF t \notin D THEN s.txnKeys[t]
                      ELSE s.txnKeys[t] \ {k \in K : Queued(s, k, t) /\ ~Holds(s, k, t)}]
      /\ x.queuedWaiters = s.queuedWaiters - Cardinality(D)
  BY <1>0, <1>2 DEF Typed
<1>4. x = [holders |-> x.holders, queue |-> x.queue, txnKeys |-> x.txnKeys,
           queuedWaiters |-> x.queuedWaiters, fates |-> x.fates]
  BY <1>0, <1>2 DEF Typed
<1>5. ASSUME NEW k \in Keys
      PROVE  x.queue[k] \in Seq(Waiter) /\ Thinned(s.queue[k], x.queue[k], D)
  <2>1. /\ s.queue[k] \in Seq(Waiter)
        /\ \A i, j \in DOMAIN s.queue[k] : s.queue[k][i].txn = s.queue[k][j].txn => i = j
    BY QueueFacts
  <2>2. CASE k \in K
    <3>1. PICK r \in Seq(Waiter) : Without(s.queue[k], D) = r /\ Thinned(s.queue[k], r, D)
      BY <2>1, WithoutFacts DEF Thinned
    <3> QED BY <1>3, <2>2, <3>1
  <2>3. CASE k \notin K
    <3>1. ASSUME NEW i \in DOMAIN s.queue[k], s.queue[k][i].txn \in D PROVE FALSE
      <4>1. PICK j \in K : Queued(s, j, s.queue[k][i].txn)
        BY <1>1, <3>1
      <4>2. Queued(s, k, s.queue[k][i].txn)
        BY DEF Queued
      <4> QED BY <2>3, <4>1, <4>2, QueuedFacts
    <3>2. Thinned(s.queue[k], s.queue[k], D)
      BY <2>1, <3>1 DEF Thinned
    <3> QED BY <1>3, <2>1, <2>3, <3>2
  <2> QED BY <2>2, <2>3
<1>6. Typed(x)
  <2>1. x.queue \in [Keys -> Seq(Waiter)]
    BY <1>3, <1>5
  <2>2. x.fates \in [Txns -> {"none", "Deadlock", "Cancelled"}]
    BY <1>0, <1>3 DEF Typed
  <2>3. x.txnKeys \in [Txns -> SUBSET Keys]
    BY <1>0, <1>3 DEF Typed
  <2> QED BY <1>0, <1>3, <1>4, <2>1, <2>2, <2>3 DEF Typed
<1>7. ASSUME NEW t \in Txns, t \in D PROVE x.fates[t] # "none" /\ w[t] # NoWait
  <2>1. PICK k \in K : Queued(s, k, t)
    BY <1>1, <1>7
  <2>2. w[t] # NoWait /\ s.fates[t] = "none"
    BY <2>1, QueuedFacts
  <2> QED BY <1>3, <1>7, <2>2
<1>8. \A t \in Txns : t \notin D => x.fates[t] = s.fates[t] /\ w[t] = w[t]
  BY <1>3
<1>9. ASSUME NEW t \in Txns, NEW k \in Keys, k \in s.txnKeys[t]
      PROVE  k \in x.txnKeys[t] \/ (t \in D /\ ~Holds(s, k, t))
  BY <1>3, <1>9
<1>10. Leave(s, w, x, w, D)
  <2>1. ASSUME NEW t \in D PROVE t \in Members(s)
    <3>1. PICK k \in K : Queued(s, k, t)
      BY <1>1
    <3> QED BY <3>1, QueuedFacts DEF Members
  <2>2. Members(s) \cap D = D
    BY <2>1
  <2>3. Fewer(s, x, Members(s) \cap D)
    BY <1>3, <2>2 DEF Fewer
  <2> QED BY <1>0, <1>3, <1>5, <1>6, <1>7, <1>8, <1>9, <2>3 DEF Leave
<1>11. Sound(x, w)
  BY <1>10, LeaveSound
<1>12. \A k \in Keys : k \notin K => x.queue[k] = s.queue[k]
  BY <1>3
<1> QED BY <1>3, <1>7, <1>8, <1>11, <1>12

\* The prefix that process_key grants exists.
LEMMA PrefixFacts ==
  ASSUME NEW s, NEW w, Sound(s, w), NEW k \in Keys
  PROVE  \E n \in 0 .. Len(s.queue[k]) :
           /\ Prefix(s, k) = n
           /\ \A i \in 1 .. n : Grantable(s, k, i)
           /\ n < Len(s.queue[k]) => ~Grantable(s, k, n + 1)
<1>0. PICK l \in Nat : l = Len(s.queue[k])
  BY QueueFacts
<1> DEFINE Ends == {n \in 0 .. l : n < l => ~Grantable(s, k, n + 1)}
<1>1. PICK n \in Ends : \A m \in Ends : n <= m
  <2>1. Ends \subseteq Nat
    BY <1>0
  <2>2. l \in Ends
    BY <1>0
  <2> HIDE DEF Ends
  <2> QED BY <2>1, <2>2, HasMin
<1>2. n \in 0 .. l /\ (n < l => ~Grantable(s, k, n + 1))
  OBVIOUS
<1>3. ASSUME NEW i \in 1 .. n PROVE Grantable(s, k, i)
  <2>1. i - 1 \in 0 .. l /\ ~(n <= i - 1) /\ (i - 1) + 1 = i
    BY <1>0, <1>2
  <2>2. i - 1 \notin Ends
    BY <1>1, <2>1
  <2>3. ~((i - 1) < l => ~Grantable(s, k, (i - 1) + 1))
    BY <2>1, <2>2
  <2> QED BY <2>1, <2>3
<1>4. \E m \in 0 .. l : /\ \A i \in 1 .. m : Grantable(s, k, i)
                        /\ m < l => ~Grantable(s, k, m + 1)
  BY <1>2, <1>3
<1>5. Prefix(s, k) = CHOOSE m \in 0 .. l :
        /\ \A i \in 1 .. m : Grantable(s, k, i)
        /\ m < l => ~Grantable(s, k, m + 1)
  BY <1>0 DEF Prefix
<1> QED BY <1>0, <1>4, <1>5

\* x has granted the first n waiters of k: they hold the mode they asked for,
\* an upgrade too, and the others of the queue move up.
FrontGranted(s, x, k, n) ==
    /\ n \in 0 .. Len(s.queue[k])
    /\ Len(x.queue[k]) = Len(s.queue[k]) - n
    /\ \A i \in 1 .. Len(x.queue[k]) : x.queue[k][i] = s.queue[k][n + i]
    /\ \A i \in 1 .. n : x.holders[k][s.queue[k][i].txn] = s.queue[k][i].mode
    /\ \A t \in Txns : (\A i \in 1 .. n : s.queue[k][i].txn # t) =>
          x.holders[k][t] = s.holders[k][t]
    /\ \A i \in 1 .. n : Grantable(s, k, i)

\* What GrantedMode gives the transactions of the prefix, and the others.
LEMMA GrantedModeFacts ==
  ASSUME NEW s, NEW w, Sound(s, w), NEW k \in Keys,
         NEW n \in 0 .. Len(s.queue[k]), Prefix(s, k) = n
  PROVE  /\ \A i \in 1 .. n : GrantedMode(s, k, s.queue[k][i].txn) = s.queue[k][i].mode
         /\ \A t \in Txns : (\A i \in 1 .. n : s.queue[k][i].txn # t) =>
               GrantedMode(s, k, t) = s.holders[k][t]
<1>0. /\ DOMAIN s.queue[k] = 1 .. Len(s.queue[k]) /\ Len(s.queue[k]) \in Nat
      /\ \A i, j \in DOMAIN s.queue[k] : s.queue[k][i].txn = s.queue[k][j].txn => i = j
  BY QueueFacts
<1>1. ASSUME NEW i \in 1 .. n
      PROVE  GrantedMode(s, k, s.queue[k][i].txn) = s.queue[k][i].mode
  <2>1. i \in DOMAIN s.queue[k] /\ \A j \in 1 .. n : j \in DOMAIN s.queue[k]
    BY <1>0
  <2>2. {j \in 1 .. n : s.queue[k][j].txn = s.queue[k][i].txn} = {i}
    BY <1>0, <2>1
  <2>3. (CHOOSE j \in {i} : TRUE) = i /\ {i} # {}
    OBVIOUS
  <2>4. Holds(s, k, s.queue[k][i].txn) => s.queue[k][i].mode = "Exclusive"
    BY <2>1 DEF Sound, QueuesMatch
  <2> QED BY <2>2, <2>3, <2>4 DEF GrantedMode
<1>2. ASSUME NEW t \in Txns, \A i \in 1 .. n : s.queue[k][i].txn # t
      PROVE  GrantedMode(s, k, t) = s.holders[k][t]
  <2>1. {i \in 1 .. n : s.queue[k][i].txn = t} = {}
    BY <1>2
  <2> QED BY <2>1 DEF GrantedMode
<1> QED BY <1>1, <1>2

\* The queue positions that process_key grants.
Fronts(s, K) == UNION {{k} \X (1 .. Prefix(s, k)) : k \in K}

\* The fields of Inner after the grants of process_key.
LEMMA GrantFields ==
  ASSUME NEW s, NEW w, Sound(s, w), NEW K, K \subseteq Keys, NEW x, x = Grant(s, K)
  PROVE  /\ Typed(x) /\ x.fates = s.fates /\ x.txnKeys = s.txnKeys
         /\ \A k \in Keys : k \notin K =>
               x.queue[k] = s.queue[k] /\ x.holders[k] = s.holders[k]
         /\ Fewer(s, x, Fronts(s, K))
         /\ \A k \in Keys : \E n : FrontGranted(s, x, k, n)
               /\ (k \in K /\ n < Len(s.queue[k]) => ~Grantable(s, k, n + 1))
               /\ n = IF k \in K THEN Prefix(s, k) ELSE 0
<1>0. Typed(s)
  BY DEF Sound
<1>1. PICK c : c = s.queuedWaiters - Cardinality(Fronts(s, K))
  OBVIOUS
<1>2. x = [s EXCEPT
       !.holders = [k \in Keys |-> IF k \notin K THEN s.holders[k]
                      ELSE [t \in Txns |-> GrantedMode(s, k, t)]],
       !.queue = [k \in Keys |-> IF k \notin K THEN s.queue[k]
                    ELSE SubSeq(s.queue[k], Prefix(s, k) + 1, Len(s.queue[k]))],
       !.queuedWaiters = c]
  BY <1>1 DEF Grant, Fronts
<1>3. /\ x.holders = [k \in Keys |-> IF k \notin K THEN s.holders[k]
                      ELSE [t \in Txns |-> GrantedMode(s, k, t)]]
      /\ x.queue = [k \in Keys |-> IF k \notin K THEN s.queue[k]
                    ELSE SubSeq(s.queue[k], Prefix(s, k) + 1, Len(s.queue[k]))]
      /\ x.fates = s.fates /\ x.txnKeys = s.txnKeys /\ x.queuedWaiters = c
  BY <1>0, <1>2 DEF Typed
<1>4. x = [holders |-> x.holders, queue |-> x.queue, txnKeys |-> x.txnKeys,
           queuedWaiters |-> x.queuedWaiters, fates |-> x.fates]
  BY <1>0, <1>2 DEF Typed
<1>5. ASSUME NEW k \in Keys
      PROVE  /\ x.queue[k] \in Seq(Waiter)
             /\ x.holders[k] \in [Txns -> Modes \cup {"none"}]
             /\ \E n : FrontGranted(s, x, k, n)
                   /\ (k \in K /\ n < Len(s.queue[k]) => ~Grantable(s, k, n + 1))
                   /\ n = IF k \in K THEN Prefix(s, k) ELSE 0
  <2>0. /\ s.queue[k] \in Seq(Waiter) /\ Len(s.queue[k]) \in Nat
        /\ DOMAIN s.queue[k] = 1 .. Len(s.queue[k])
        /\ \A i \in DOMAIN s.queue[k] : s.queue[k][i].txn \in Txns /\ s.queue[k][i].mode \in Modes
        /\ s.holders[k] \in [Txns -> Modes \cup {"none"}]
    BY <1>0, QueueFacts DEF Typed
  <2>1. CASE k \notin K
    <3>1. x.queue[k] = s.queue[k] /\ x.holders[k] = s.holders[k]
      BY <1>3, <2>1
    <3>2. FrontGranted(s, x, k, 0)
      BY <2>0, <3>1 DEF FrontGranted
    <3> QED BY <2>0, <2>1, <3>1, <3>2
  <2>2. CASE k \in K
    <3>1. PICK n \in 0 .. Len(s.queue[k]) :
             /\ Prefix(s, k) = n
             /\ \A i \in 1 .. n : Grantable(s, k, i)
             /\ n < Len(s.queue[k]) => ~Grantable(s, k, n + 1)
      BY PrefixFacts
    <3>2. x.queue[k] = SubSeq(s.queue[k], n + 1, Len(s.queue[k]))
      BY <1>3, <2>2, <3>1
    <3>3. /\ x.queue[k] \in Seq(Waiter) /\ Len(x.queue[k]) = Len(s.queue[k]) - n
          /\ \A i \in 1 .. Len(x.queue[k]) : x.queue[k][i] = s.queue[k][n + i]
      BY <2>0, <3>2
    <3>4. \A t \in Txns : x.holders[k][t] = GrantedMode(s, k, t)
      BY <1>3, <2>2
    <3>5. /\ \A i \in 1 .. n : GrantedMode(s, k, s.queue[k][i].txn) = s.queue[k][i].mode
          /\ \A t \in Txns : (\A i \in 1 .. n : s.queue[k][i].txn # t) =>
                GrantedMode(s, k, t) = s.holders[k][t]
      BY <3>1, GrantedModeFacts
    <3>6. \A i \in 1 .. n : i \in DOMAIN s.queue[k]
      BY <2>0
    <3>7. \A i \in 1 .. n : x.holders[k][s.queue[k][i].txn] = s.queue[k][i].mode
      BY <2>0, <3>4, <3>5, <3>6
    <3>8. FrontGranted(s, x, k, n)
      BY <3>1, <3>3, <3>4, <3>5, <3>7 DEF FrontGranted
    <3>9. ASSUME NEW t \in Txns PROVE GrantedMode(s, k, t) \in Modes \cup {"none"}
      <4>1. CASE \E i \in 1 .. n : s.queue[k][i].txn = t
        <5>1. PICK i \in 1 .. n : s.queue[k][i].txn = t
          BY <4>1
        <5>2. GrantedMode(s, k, t) = s.queue[k][i].mode
          BY <3>5, <5>1
        <5> QED BY <2>0, <3>6, <5>2
      <4>2. CASE \A i \in 1 .. n : s.queue[k][i].txn # t
        BY <2>0, <3>5, <4>2
      <4> QED BY <4>1, <4>2
    <3>10. x.holders[k] = [t \in Txns |-> GrantedMode(s, k, t)]
      BY <1>3, <2>2
    <3> QED BY <2>2, <3>1, <3>3, <3>8, <3>9, <3>10
  <2> QED BY <2>1, <2>2
<1>6. x.holders \in [Keys -> [Txns -> Modes \cup {"none"}]] /\ x.queue \in [Keys -> Seq(Waiter)]
  BY <1>3, <1>5
<1>7. Typed(x)
  BY <1>0, <1>3, <1>4, <1>6 DEF Typed
<1>8. \A k \in Keys : k \notin K => x.queue[k] = s.queue[k] /\ x.holders[k] = s.holders[k]
  BY <1>3
<1>9. Fewer(s, x, Fronts(s, K))
  BY <1>1, <1>3 DEF Fewer
<1> QED BY <1>3, <1>5, <1>7, <1>8, <1>9

\* What a grant of the first waiters of k changes for one transaction.
LEMMA FrontFacts ==
  ASSUME NEW s, NEW w, Sound(s, w), NEW x, Typed(x), NEW k \in Keys, NEW n, FrontGranted(s, x, k, n),
         NEW t \in Txns
  PROVE  /\ Queued(x, k, t) => Queued(s, k, t) /\ x.holders[k][t] = s.holders[k][t]
         /\ Queued(s, k, t) => Queued(x, k, t) \/ x.holders[k][t] = w[t].mode
         /\ ~Queued(s, k, t) => x.holders[k][t] = s.holders[k][t]
         /\ Holds(s, k, t) => x.holders[k][t] \in {s.holders[k][t], "Exclusive"}
<1>0. /\ DOMAIN s.queue[k] = 1 .. Len(s.queue[k]) /\ Len(s.queue[k]) \in Nat
      /\ \A i, j \in DOMAIN s.queue[k] : s.queue[k][i].txn = s.queue[k][j].txn => i = j
  BY QueueFacts
<1>1. DOMAIN x.queue[k] = 1 .. Len(x.queue[k]) /\ Len(x.queue[k]) \in Nat
  BY DEF Typed
<1>2. n \in Nat /\ n <= Len(s.queue[k]) /\ Len(x.queue[k]) = Len(s.queue[k]) - n
  BY <1>0 DEF FrontGranted
<1>3. ASSUME Queued(x, k, t)
      PROVE  Queued(s, k, t) /\ x.holders[k][t] = s.holders[k][t]
  <2>1. PICK i \in 1 .. Len(x.queue[k]) : x.queue[k][i].txn = t
    BY <1>1, <1>3 DEF Queued
  <2>2. n + i \in DOMAIN s.queue[k] /\ s.queue[k][n + i].txn = t
    <3>1. n + i \in DOMAIN s.queue[k]
      BY <1>0, <1>2, <2>1
    <3>2. x.queue[k][i] = s.queue[k][n + i]
      BY <2>1 DEF FrontGranted
    <3> QED BY <2>1, <3>1, <3>2
  <2>3. ASSUME NEW j \in 1 .. n PROVE s.queue[k][j].txn # t
    <3>1. j \in DOMAIN s.queue[k] /\ j # n + i
      BY <1>0, <1>2, <2>1
    <3> QED BY <1>0, <2>2, <3>1
  <2> QED BY <2>2, <2>3 DEF FrontGranted, Queued
<1>4. ASSUME Queued(s, k, t)
      PROVE  Queued(x, k, t) \/ x.holders[k][t] = w[t].mode
  <2>1. PICK i \in 1 .. Len(s.queue[k]) : s.queue[k][i].txn = t
    BY <1>0, <1>4 DEF Queued
  <2>2. CASE i <= n
    <3>1. i \in 1 .. n
      BY <1>0, <1>2, <2>2
    <3>2. x.holders[k][t] = s.queue[k][i].mode
      BY <2>1, <3>1 DEF FrontGranted
    <3>3. i \in DOMAIN s.queue[k]
      BY <1>0
    <3>4. w[s.queue[k][i].txn] = [key |-> k, mode |-> s.queue[k][i].mode]
      BY <3>3 DEF Sound, QueuesMatch
    <3> QED BY <2>1, <3>2, <3>4
  <2>3. CASE n < i
    <3>1. i - n \in 1 .. Len(x.queue[k]) /\ n + (i - n) = i
      BY <1>0, <1>2, <2>3
    <3>2. x.queue[k][i - n].txn = t
      BY <2>1, <3>1 DEF FrontGranted
    <3> QED BY <1>1, <3>1, <3>2 DEF Queued
  <2> QED BY <1>2, <2>2, <2>3
<1>5. ASSUME ~Queued(s, k, t) PROVE x.holders[k][t] = s.holders[k][t]
  <2>1. \A i \in 1 .. n : i \in DOMAIN s.queue[k]
    BY <1>0, <1>2
  <2> QED BY <1>5, <2>1 DEF FrontGranted, Queued
<1>6. ASSUME Holds(s, k, t) PROVE x.holders[k][t] \in {s.holders[k][t], "Exclusive"}
  <2>1. CASE \E i \in 1 .. n : s.queue[k][i].txn = t
    <3>1. PICK i \in 1 .. n : s.queue[k][i].txn = t
      BY <2>1
    <3>2. i \in DOMAIN s.queue[k]
      BY <1>0, <1>2
    <3>3. s.queue[k][i].mode = "Exclusive"
      BY <1>6, <3>1, <3>2 DEF Sound, QueuesMatch
    <3> QED BY <3>1, <3>3 DEF FrontGranted
  <2>2. CASE \A i \in 1 .. n : s.queue[k][i].txn # t
    BY <2>2 DEF FrontGranted
  <2> QED BY <2>1, <2>2
<1> QED BY <1>3, <1>4, <1>5, <1>6

\* The waiters process_key grants exclude neither the holders nor each other.
LEMMA FrontExcludes ==
  ASSUME NEW s, NEW w, Sound(s, w), NEW x, NEW k \in Keys, NEW n, FrontGranted(s, x, k, n),
         NEW t \in Txns, NEW u \in Txns, t # u, Holds(x, k, t), Holds(x, k, u)
  PROVE  Compatible(x.holders[k][t], x.holders[k][u])
<1> DEFINE At(i, v) == s.queue[k][i].txn = v
           Old(v) == \A i \in 1 .. n : ~At(i, v)
<1>0. /\ DOMAIN s.queue[k] = 1 .. Len(s.queue[k]) /\ Len(s.queue[k]) \in Nat
      /\ n \in Nat /\ n <= Len(s.queue[k])
  BY QueueFacts DEF FrontGranted
<1>1. ASSUME NEW v \in Txns, Old(v) PROVE x.holders[k][v] = s.holders[k][v]
  BY <1>1 DEF FrontGranted
<1>2. ASSUME NEW i \in 1 .. n, NEW v \in Txns, NEW a \in Txns, a # v,
             At(i, v), Old(a), Holds(x, k, a)
      PROVE  x.holders[k][v] = "Shared" /\ x.holders[k][a] = "Shared"
  <2>1. Holds(s, k, a) /\ x.holders[k][a] = s.holders[k][a]
    BY <1>1, <1>2 DEF Holds
  <2>2. Grantable(s, k, i) /\ x.holders[k][v] = s.queue[k][i].mode
    BY <1>2 DEF FrontGranted
  <2> QED BY <1>2, <2>1, <2>2 DEF Grantable, Compatible
<1>3. ASSUME NEW i \in 1 .. n, NEW j \in 1 .. n, j < i, NEW v, NEW a, At(i, v), At(j, a)
      PROVE  x.holders[k][v] = "Shared" /\ x.holders[k][a] = "Shared"
  <2>1. Grantable(s, k, i) /\ j \in 1 .. i - 1
    BY <1>0, <1>3 DEF FrontGranted
  <2>2. x.holders[k][v] = s.queue[k][i].mode /\ x.holders[k][a] = s.queue[k][j].mode
    BY <1>3 DEF FrontGranted
  <2> QED BY <2>1, <2>2 DEF Grantable, Compatible
<1>4. CASE Old(t) /\ Old(u)
  <2>1. x.holders[k][t] = s.holders[k][t] /\ x.holders[k][u] = s.holders[k][u]
    BY <1>1, <1>4
  <2> QED BY <2>1 DEF Sound, Exclusion, Holds
<1>5. CASE ~Old(t) /\ Old(u)
  BY <1>2, <1>5 DEF Compatible
<1>6. CASE Old(t) /\ ~Old(u)
  BY <1>2, <1>6 DEF Compatible
<1>7. CASE ~Old(t) /\ ~Old(u)
  <2>1. PICK i \in 1 .. n, j \in 1 .. n : At(i, t) /\ At(j, u)
    BY <1>7
  <2>2. i \in Int /\ j \in Int /\ i # j
    BY <2>1
  <2>3. i < j \/ j < i
    BY <2>2
  <2> HIDE DEF At
  <2> QED BY <1>3, <2>1, <2>3 DEF Compatible
<1> QED BY <1>4, <1>5, <1>6, <1>7

\* A queue whose prefix was granted is served: the next waiter is excluded by a
\* holder that stayed, or by one that was granted before it.
LEMMA FrontServed ==
  ASSUME NEW s, NEW w, Sound(s, w), NEW x, Typed(x), NEW k \in Keys, NEW n, FrontGranted(s, x, k, n),
         n < Len(s.queue[k]) => ~Grantable(s, k, n + 1), x.queue[k] # <<>>
  PROVE  ~Grantable(x, k, 1)
<1>0. /\ DOMAIN s.queue[k] = 1 .. Len(s.queue[k]) /\ Len(s.queue[k]) \in Nat
      /\ \A i, j \in DOMAIN s.queue[k] : s.queue[k][i].txn = s.queue[k][j].txn => i = j
      /\ \A i \in DOMAIN s.queue[k] : s.queue[k][i].txn \in Txns /\ s.queue[k][i].mode \in Modes
  BY QueueFacts
<1>1. n \in Nat /\ n <= Len(s.queue[k]) /\ Len(x.queue[k]) = Len(s.queue[k]) - n
  BY <1>0 DEF FrontGranted
<1>2. Len(x.queue[k]) # 0
  BY DEF Typed
<1>3. n < Len(s.queue[k]) /\ n + 1 \in DOMAIN s.queue[k]
  BY <1>0, <1>1, <1>2
<1>4. x.queue[k][1] = s.queue[k][n + 1]
  BY <1>0, <1>1, <1>2 DEF FrontGranted
<1>5. PICK v : v = s.queue[k][n + 1]
  OBVIOUS
<1>6. \/ \E t \in Txns \ {v.txn} : Holds(s, k, t) /\ ~Compatible(v.mode, s.holders[k][t])
      \/ \E j \in 1 .. (n + 1) - 1 : ~Compatible(v.mode, s.queue[k][j].mode)
  BY <1>3, <1>5 DEF Grantable
<1>7. SUFFICES \E t \in Txns \ {v.txn} : Holds(x, k, t) /\ ~Compatible(v.mode, x.holders[k][t])
  BY <1>4, <1>5 DEF Grantable
<1>8. CASE \E t \in Txns \ {v.txn} : Holds(s, k, t) /\ ~Compatible(v.mode, s.holders[k][t])
  <2>1. PICK t \in Txns \ {v.txn} : Holds(s, k, t) /\ ~Compatible(v.mode, s.holders[k][t])
    BY <1>8
  <2>2. x.holders[k][t] \in {s.holders[k][t], "Exclusive"}
    BY <2>1, FrontFacts
  <2> QED BY <2>1, <2>2 DEF Holds, Compatible
<1>9. CASE \E j \in 1 .. (n + 1) - 1 : ~Compatible(v.mode, s.queue[k][j].mode)
  <2>1. PICK j \in 1 .. n : ~Compatible(v.mode, s.queue[k][j].mode)
    BY <1>1, <1>9
  <2>2. j \in DOMAIN s.queue[k] /\ j # n + 1
    BY <1>0, <1>1
  <2>3. PICK t : t = s.queue[k][j].txn
    OBVIOUS
  <2>4. t \in Txns \ {v.txn} /\ s.queue[k][j].mode \in Modes
    BY <1>0, <1>3, <1>5, <2>2, <2>3
  <2>5. x.holders[k][t] = s.queue[k][j].mode
    BY <2>3 DEF FrontGranted
  <2> QED BY <2>1, <2>4, <2>5 DEF Holds, Modes
<1> QED BY <1>6, <1>8, <1>9

\* Those who leave a queue by a grant are the ones at its front.
LEMMA FrontLeaves ==
  ASSUME NEW s, NEW w, Sound(s, w), NEW x, Typed(x), NEW k \in Keys, NEW n,
         FrontGranted(s, x, k, n), NEW t
  PROVE  Queued(x, k, t) <=> Queued(s, k, t) /\ \A i \in 1 .. n : s.queue[k][i].txn # t
<1>0. /\ DOMAIN s.queue[k] = 1 .. Len(s.queue[k]) /\ Len(s.queue[k]) \in Nat
      /\ \A i, j \in DOMAIN s.queue[k] : s.queue[k][i].txn = s.queue[k][j].txn => i = j
  BY QueueFacts
<1>1. DOMAIN x.queue[k] = 1 .. Len(x.queue[k]) /\ Len(x.queue[k]) \in Nat
  BY DEF Typed
<1>2. n \in Nat /\ n <= Len(s.queue[k]) /\ Len(x.queue[k]) = Len(s.queue[k]) - n
  BY <1>0 DEF FrontGranted
<1>3. ASSUME NEW j \in 1 .. Len(x.queue[k]), x.queue[k][j].txn = t
      PROVE  Queued(s, k, t) /\ \A i \in 1 .. n : s.queue[k][i].txn # t
  <2>1. n + j \in DOMAIN s.queue[k] /\ s.queue[k][n + j].txn = t
    BY <1>0, <1>2, <1>3 DEF FrontGranted
  <2>2. ASSUME NEW i \in 1 .. n PROVE s.queue[k][i].txn # t
    <3>1. i \in DOMAIN s.queue[k] /\ i # n + j
      BY <1>0, <1>2
    <3> QED BY <1>0, <2>1, <3>1
  <2> QED BY <2>1, <2>2 DEF Queued
<1>4. ASSUME NEW i \in 1 .. Len(s.queue[k]), s.queue[k][i].txn = t, i \notin 1 .. n
      PROVE  Queued(x, k, t)
  <2>1. i - n \in 1 .. Len(x.queue[k]) /\ n + (i - n) = i
    BY <1>0, <1>2, <1>4
  <2>2. x.queue[k][i - n].txn = t
    BY <1>4, <2>1 DEF FrontGranted
  <2> QED BY <1>1, <2>1, <2>2 DEF Queued
<1>5. Queued(x, k, t) => Queued(s, k, t) /\ \A i \in 1 .. n : s.queue[k][i].txn # t
  BY <1>1, <1>3 DEF Queued
<1>6. Queued(s, k, t) /\ (\A i \in 1 .. n : s.queue[k][i].txn # t) => Queued(x, k, t)
  BY <1>0, <1>4 DEF Queued
<1> QED BY <1>5, <1>6

\* process_key subtracts from queued_waiters what it grants.
LEMMA GrantCounted ==
  ASSUME NEW s, NEW w, Sound(s, w), NEW K, K \subseteq Keys, NEW x, x = Grant(s, K)
  PROVE  Counted(x)
<1>1. PICK P : P = Fronts(s, K)
  OBVIOUS
<1>2. /\ Typed(x)
      /\ Fewer(s, x, P)
      /\ \A k \in Keys : FrontGranted(s, x, k, IF k \in K THEN Prefix(s, k) ELSE 0)
  BY <1>1, GrantFields
<1>3. /\ \A p \in P : p = <<p[1], p[2]>> /\ p[1] \in K /\ p[2] \in 1 .. Prefix(s, p[1])
      /\ \A k \in K : \A i \in 1 .. Prefix(s, k) : <<k, i>> \in P
  BY <1>1 DEF Fronts
<1>4. ASSUME NEW p \in P
      PROVE  p[1] \in Keys /\ p[2] \in DOMAIN s.queue[p[1]]
  <2>1. FrontGranted(s, x, p[1], Prefix(s, p[1])) /\ p[1] \in Keys
    BY <1>2, <1>3
  <2>2. /\ DOMAIN s.queue[p[1]] = 1 .. Len(s.queue[p[1]]) /\ Len(s.queue[p[1]]) \in Nat
        /\ Prefix(s, p[1]) \in 0 .. Len(s.queue[p[1]])
    BY <2>1, QueueFacts DEF FrontGranted
  <2> QED BY <1>3, <2>1, <2>2
<1> DEFINE Of(p) == s.queue[p[1]][p[2]].txn
<1>5. PICK G, f : G = {Of(p) : p \in P} /\ f = [p \in P |-> Of(p)]
  OBVIOUS
<1>6. ASSUME NEW p \in P PROVE Queued(s, p[1], Of(p)) /\ Of(p) \in Members(s)
  <2>1. Queued(s, p[1], Of(p))
    BY <1>4 DEF Queued
  <2> QED BY <1>4, <2>1, QueuedFacts DEF Members
<1>7. ASSUME NEW p \in P, NEW q \in P, Of(p) = Of(q) PROVE p = q
  <2>1. p[1] = q[1]
    <3>1. PICK t : t = Of(p)
      OBVIOUS
    <3>2. Queued(s, p[1], t) /\ Queued(s, q[1], t)
      BY <1>6, <1>7, <3>1
    <3>3. w[t].key = p[1] /\ w[t].key = q[1]
      BY <1>4, <3>2, QueuedFacts
    <3> QED BY <3>3
  <2>2. p[2] = q[2]
    BY <1>4, <1>7, <2>1, QueueFacts
  <2> QED BY <1>3, <2>1, <2>2
<1>8. f \in Bijection(P, G)
  <2>1. f \in [P -> G] /\ \A p \in P : f[p] = Of(p)
    BY <1>5
  <2>2. \A p, q \in P : f[p] = f[q] => p = q
    BY <1>7, <2>1
  <2>3. \A t \in G : \E p \in P : f[p] = t
    BY <1>5, <2>1
  <2> HIDE DEF Of
  <2> QED BY <2>1, <2>2, <2>3, Fun_IsBij
<1>9. G \in SUBSET Members(s)
  BY <1>5, <1>6
<1>10. Cardinality(P) = Cardinality(G)
  <2>1. IsFiniteSet(G)
    BY <1>9, MembersFinite, FS_Subset
  <2>2. ExistsBijection(G, P)
    <3>1. ExistsBijection(P, G)
      BY <1>8, Fun_ExistsBij
    <3> QED BY <3>1, Fun_ExistsBijSymmetric
  <2> QED BY <2>1, <2>2, FS_Bijection
<1>11. Members(x) = Members(s) \ G
  <2>1. ASSUME NEW t \in Members(x) PROVE t \in Members(s) \ G
    <3>1. PICK k \in Keys : Queued(x, k, t)
      BY DEF Members
    <3>2. PICK n : n = (IF k \in K THEN Prefix(s, k) ELSE 0) /\ FrontGranted(s, x, k, n)
      BY <1>2
    <3>3. Queued(s, k, t) /\ \A i \in 1 .. n : s.queue[k][i].txn # t
      BY <1>2, <3>1, <3>2, FrontLeaves
    <3>4. ASSUME NEW p \in P, Of(p) = t PROVE FALSE
      <4>1. p[1] = k
        BY <1>4, <1>6, <3>3, <3>4, QueuedFacts
      <4>2. p[1] \in K /\ p[2] \in 1 .. n
        BY <1>3, <3>2, <4>1
      <4> QED BY <3>3, <3>4, <4>1, <4>2
    <3> QED BY <1>5, <3>3, <3>4 DEF Members
  <2>2. ASSUME NEW t \in Members(s) \ G PROVE t \in Members(x)
    <3>1. PICK k \in Keys : Queued(s, k, t)
      BY DEF Members
    <3>2. PICK n : n = (IF k \in K THEN Prefix(s, k) ELSE 0) /\ FrontGranted(s, x, k, n)
      BY <1>2
    <3>3. ASSUME NEW i \in 1 .. n PROVE s.queue[k][i].txn # t
      <4>1. k \in K /\ i \in 1 .. Prefix(s, k)
        BY <3>2
      <4>2. <<k, i>> \in P /\ Of(<<k, i>>) = s.queue[k][i].txn
        BY <1>3, <4>1
      <4>3. Of(<<k, i>>) \in G
        BY <1>5, <4>2
      <4> QED BY <4>2, <4>3
    <3>4. Queued(x, k, t)
      BY <1>2, <3>1, <3>2, <3>3, FrontLeaves
    <3> QED BY <3>4 DEF Members
  <2> QED BY <2>1, <2>2
<1>12. Members(s) \cap G = G
  BY <1>9
<1>13. Fewer(s, x, Members(s) \cap G)
  BY <1>2, <1>10, <1>12 DEF Fewer
<1> QED BY <1>11, <1>13, StillCounted DEF Sound

\* process_key, second half: the grants leave a sound Inner whose queues are
\* served.
LEMMA GrantSound ==
  ASSUME NEW s, NEW w, Sound(s, w), NEW K, K \subseteq Keys, NEW x, x = Grant(s, K)
  PROVE  /\ Sound(x, w) /\ \A k \in K : Served(x, w, k)
         /\ x.fates = s.fates
         /\ \A k \in Keys : k \notin K =>
               x.queue[k] = s.queue[k] /\ x.holders[k] = s.holders[k]
<1>1. /\ Typed(x) /\ x.fates = s.fates /\ x.txnKeys = s.txnKeys
      /\ \A k \in Keys : k \notin K =>
            x.queue[k] = s.queue[k] /\ x.holders[k] = s.holders[k]
      /\ \A k \in Keys : \E n : FrontGranted(s, x, k, n)
            /\ (k \in K /\ n < Len(s.queue[k]) => ~Grantable(s, k, n + 1))
            /\ n = IF k \in K THEN Prefix(s, k) ELSE 0
  BY GrantFields
<1>2. w \in Waits
  BY DEF Sound
<1>3. QueuesMatch(x, w)
  <2>1. SUFFICES ASSUME NEW k \in Keys, NEW i \in DOMAIN x.queue[k]
                 PROVE  /\ w[x.queue[k][i].txn] = [key |-> k, mode |-> x.queue[k][i].mode]
                        /\ x.fates[x.queue[k][i].txn] = "none"
                        /\ Holds(x, k, x.queue[k][i].txn) => x.queue[k][i].mode = "Exclusive"
                        /\ \A j \in DOMAIN x.queue[k] :
                              x.queue[k][i].txn = x.queue[k][j].txn => i = j
    BY DEF QueuesMatch
  <2>2. PICK n : FrontGranted(s, x, k, n)
    BY <1>1
  <2>3. /\ DOMAIN x.queue[k] = 1 .. Len(x.queue[k]) /\ Len(x.queue[k]) \in Nat
        /\ DOMAIN s.queue[k] = 1 .. Len(s.queue[k]) /\ Len(s.queue[k]) \in Nat
    BY <1>1, QueueFacts DEF Typed
  <2>4. n \in Nat /\ n <= Len(s.queue[k]) /\ Len(x.queue[k]) = Len(s.queue[k]) - n
    BY <2>2, <2>3 DEF FrontGranted
  <2>5. ASSUME NEW j \in DOMAIN x.queue[k]
        PROVE  n + j \in DOMAIN s.queue[k] /\ x.queue[k][j] = s.queue[k][n + j]
    <3>1. n + j \in DOMAIN s.queue[k] /\ j \in 1 .. Len(x.queue[k])
      BY <2>3, <2>4
    <3> QED BY <2>2, <3>1 DEF FrontGranted
  <2>6. /\ w[s.queue[k][n + i].txn] = [key |-> k, mode |-> s.queue[k][n + i].mode]
        /\ s.fates[s.queue[k][n + i].txn] = "none"
        /\ Holds(s, k, s.queue[k][n + i].txn) => s.queue[k][n + i].mode = "Exclusive"
    BY <2>5 DEF Sound, QueuesMatch
  <2>7. x.queue[k][i].txn \in Txns /\ Queued(x, k, x.queue[k][i].txn)
    BY <2>5, QueueFacts DEF Queued
  <2>8. Holds(x, k, x.queue[k][i].txn) => Holds(s, k, x.queue[k][i].txn)
    BY <1>1, <2>2, <2>7, FrontFacts DEF Holds
  <2>9. ASSUME NEW j \in DOMAIN x.queue[k], x.queue[k][i].txn = x.queue[k][j].txn
        PROVE  i = j
    <3>1. n + i = n + j
      BY <2>5, <2>9, QueueFacts
    <3> QED BY <2>3, <2>4, <3>1
  <2> QED BY <1>1, <2>5, <2>6, <2>8, <2>9
<1>4. FatesMatch(x, w)
  BY <1>1 DEF Sound, FatesMatch
<1>5. Exclusion(x)
  BY <1>1, FrontExcludes DEF Exclusion
<1>6. Tracked(x)
  <2>1. SUFFICES ASSUME NEW t \in Txns, NEW k \in Keys, Holds(x, k, t) \/ Queued(x, k, t)
                 PROVE  k \in x.txnKeys[t]
    BY DEF Tracked
  <2>2. PICK n : FrontGranted(s, x, k, n)
    BY <1>1
  <2>3. Holds(s, k, t) \/ Queued(s, k, t)
    BY <1>1, <2>1, <2>2, FrontFacts DEF Holds
  <2> QED BY <1>1, <2>3 DEF Sound, Tracked
<1>7. Granted(x, w)
  <2>1. SUFFICES ASSUME NEW t \in Txns, w[t] # NoWait, x.fates[t] = "none",
                        ~Queued(x, w[t].key, t)
                 PROVE  x.holders[w[t].key][t] \in {w[t].mode, "Exclusive"}
    BY DEF Granted
  <2>2. PICK k \in Keys : k = w[t].key
    BY <1>2, <2>1 DEF Waits
  <2>3. PICK n : FrontGranted(s, x, k, n)
    BY <1>1
  <2>4. CASE Queued(s, k, t)
    BY <1>1, <2>1, <2>2, <2>3, <2>4, FrontFacts
  <2>5. CASE ~Queued(s, k, t)
    <3>1. x.holders[k][t] = s.holders[k][t]
      BY <1>1, <2>3, <2>5, FrontFacts
    <3>2. s.holders[k][t] \in {w[t].mode, "Exclusive"}
      BY <1>1, <2>1, <2>2, <2>5 DEF Sound, Granted
    <3> QED BY <2>2, <3>1, <3>2
  <2> QED BY <2>4, <2>5
<1>8. ASSUME NEW k \in K PROVE Served(x, w, k)
  <2>1. k \in Keys
    OBVIOUS
  <2>2. PICK n : FrontGranted(s, x, k, n) /\ (n < Len(s.queue[k]) => ~Grantable(s, k, n + 1))
    BY <1>1, <2>1
  <2>3. x.queue[k] # <<>> => ~Grantable(x, k, 1)
    BY <1>1, <2>1, <2>2, FrontServed
  <2> QED BY <2>3 DEF Served
<1>9. Sound(x, w)
  BY <1>1, <1>2, <1>3, <1>4, <1>5, <1>6, <1>7, GrantCounted DEF Sound
<1> QED BY <1>1, <1>8, <1>9

\* process_key of every key whose queue may need it settles Inner.
LEMMA ProcessSettled ==
  ASSUME NEW s, NEW w, Sound(s, w), NEW K, K \subseteq Keys,
         \A k \in Keys : k \notin K => Served(s, w, k)
  PROVE  Settled(ProcessKeys(s, K), w)
<1>1. PICK y : y = Purge(s, K)
  OBVIOUS
<1>2. /\ Sound(y, w) /\ y.holders = s.holders
      /\ \A k \in Keys : k \notin K => y.queue[k] = s.queue[k]
      /\ \A t \in Txns : s.fates[t] # "none" => y.fates[t] # "none"
  BY <1>1, PurgeSound
<1>3. PICK x : x = Grant(y, K)
  OBVIOUS
<1>4. /\ Sound(x, w) /\ \A k \in K : Served(x, w, k)
      /\ x.fates = y.fates
      /\ \A k \in Keys : k \notin K =>
            x.queue[k] = y.queue[k] /\ x.holders[k] = y.holders[k]
  BY <1>2, <1>3, GrantSound
<1>5. ASSUME NEW k \in Keys, k \notin K PROVE Served(x, w, k)
  <2>1. Served(s, w, k)
    BY <1>5
  <2>2. x.queue[k] = s.queue[k] /\ x.holders[k] = s.holders[k]
    BY <1>2, <1>4, <1>5
  <2>3. \A t \in Txns : s.fates[t] # "none" /\ w[t].key = k =>
           x.fates[t] # "none" /\ w[t].key = k
    BY <1>2, <1>4
  <2> QED BY <2>1, <2>2, <2>3, ServedKept
<1>6. x = ProcessKeys(s, K)
  BY <1>1, <1>3 DEF ProcessKeys
<1> QED BY <1>4, <1>5, <1>6 DEF Settled

\* The wait-for graph depends on holders and queues only.
LEMMA EdgesKept ==
  ASSUME NEW s, NEW x, Acyclic(s), x.queue = s.queue, x.holders = s.holders
  PROVE  Acyclic(x)
<1>1. ASSUME NEW t, NEW u, Edge(x, t, u) PROVE Edge(s, t, u)
  BY <1>1 DEF Edge, Excludes, Holds
<1> QED BY <1>1 DEF Acyclic, Closed

\* Untrack keeps Inner settled.
LEMMA UntrackSettled ==
  ASSUME NEW s, NEW w, Settled(s, w), NEW k \in Keys, NEW t \in Txns, NEW x,
         x = Untrack(s, k, t)
  PROVE  Settled(x, w)
<1>0. Sound(s, w) /\ Typed(s)
  BY DEF Settled, Sound
<1>1. /\ Typed(x) /\ x.holders = s.holders /\ x.queue = s.queue /\ x.fates = s.fates
      /\ x.queuedWaiters = s.queuedWaiters
      /\ \A u \in Txns : \A j \in Keys : j \in s.txnKeys[u] =>
            j \in x.txnKeys[u] \/ (u = t /\ j = k /\ ~Holds(s, k, t) /\ ~Queued(s, k, t))
  BY <1>0, UntrackFields
<1>2. \A j \in Keys : \A u : (Holds(x, j, u) <=> Holds(s, j, u)) /\ (Queued(x, j, u) <=> Queued(s, j, u))
  BY <1>1 DEF Holds, Queued
<1>3. QueuesMatch(x, w)
  BY <1>0, <1>1, <1>2 DEF Sound, QueuesMatch
<1>4. FatesMatch(x, w) /\ Exclusion(x)
  BY <1>0, <1>1, <1>2 DEF Sound, FatesMatch, Exclusion
<1>5. Tracked(x)
  BY <1>0, <1>1, <1>2 DEF Sound, Tracked
<1>6. Granted(x, w)
  BY <1>0, <1>1 DEF Sound, Granted, Queued
<1>7. Sound(x, w)
  <2>1. Counted(x)
    BY <1>0, <1>1, <1>2 DEF Sound, Counted, Members
  <2> QED BY <1>0, <1>1, <1>3, <1>4, <1>5, <1>6, <2>1 DEF Sound
<1>8. ASSUME NEW j \in Keys PROVE Served(x, w, j)
  BY <1>1, ServedKept DEF Settled
<1> QED BY <1>7, <1>8 DEF Settled

\* acquire after a failed wait, or release, settles Inner: it serves the queue
\* of its key and breaks the cycles.
LEMMA LeaveQueueSettled ==
  ASSUME NEW s, NEW w, Sound(s, w), NEW k \in Keys, NEW t \in Txns,
         \A j \in Keys : j # k => Served(s, w, j), NEW x \in LeaveQueue(s, k, t)
  PROVE  Resting(x, w)
<1>1. PICK K : K = {k}
  OBVIOUS
<1>2. PICK y : y = ProcessKeys(s, K)
  OBVIOUS
<1>3. Settled(y, w)
  BY <1>1, <1>2, ProcessSettled
<1>4. PICK z \in DetectDeadlocks(y) : x = Untrack(z, k, t)
  BY <1>1, <1>2 DEF LeaveQueue
<1>5. Resting(z, w)
  BY <1>3, DetectSettled
<1>6. Settled(x, w)
  BY <1>4, <1>5, UntrackSettled DEF Resting
<1>7. x.queue = z.queue /\ x.holders = z.holders
  BY <1>4, <1>5, UntrackFields DEF Resting, Settled, Sound
<1>8. Acyclic(x)
  BY <1>5, <1>7, EdgesKept DEF Resting
<1> QED BY <1>6, <1>8 DEF Resting

-----------------------------------------------------------------------------
\* At first nobody holds or waits for anything.
LEMMA InitIInv == Init => IInv
<1> SUFFICES ASSUME Init PROVE IInv
  OBVIOUS
<1>1. PICK s : s = inner
  OBVIOUS
<1>2. PICK w : w = waiting
  OBVIOUS
<1>3. /\ s = [holders |-> [k \in Keys |-> [t \in Txns |-> "none"]],
              queue |-> [k \in Keys |-> <<>>],
              txnKeys |-> [t \in Txns |-> {}],
              queuedWaiters |-> 0,
              fates |-> [t \in Txns |-> "none"]]
      /\ w = [t \in Txns |-> NoWait]
  BY <1>1, <1>2 DEF Init
<1>4. Typed(s) /\ w \in Waits
  <2>1. <<>> \in Seq(Waiter)
    OBVIOUS
  <2> QED BY <1>3, <2>1 DEF Typed, Waits
<1>5. \A k \in Keys : s.queue[k] = <<>> /\ \A t \in Txns : s.holders[k][t] = "none"
  BY <1>3
<1>6. \A k \in Keys, t \in Txns : ~Holds(s, k, t) /\ ~Queued(s, k, t)
  BY <1>5 DEF Holds, Queued
<1>7. QueuesMatch(s, w) /\ \A k \in Keys : Served(s, w, k)
  BY <1>5 DEF QueuesMatch, Served
<1>8. FatesMatch(s, w) /\ Granted(s, w)
  BY <1>3 DEF FatesMatch, Granted
<1>9. Exclusion(s) /\ Tracked(s)
  BY <1>6 DEF Exclusion, Tracked
<1>10. Counted(s)
  <2>1. Members(s) = {}
    BY <1>6 DEF Members
  <2> QED BY <1>3, <2>1, FS_EmptySet DEF Counted
<1>11. Settled(s, w)
  BY <1>4, <1>7, <1>8, <1>9, <1>10 DEF Settled, Sound
<1>12. Acyclic(s)
  <2>1. Members(s) = {}
    BY <1>6 DEF Members
  <2> QED BY <2>1, EmptyAcyclic
<1> QED BY <1>1, <1>2, <1>11, <1>12 DEF IInv, Resting

\* A running transaction is in no queue and has no fate.
LEMMA RunningFacts ==
  ASSUME NEW s, NEW w, Sound(s, w), NEW t \in Txns, w[t] = NoWait
  PROVE  s.fates[t] = "none" /\ \A k \in Keys : ~Queued(s, k, t)
<1>1. s.fates[t] = "none"
  BY DEF Sound, FatesMatch
<1>2. \A k \in Keys : ~Queued(s, k, t)
  BY QueuedFacts
<1> QED BY <1>1, <1>2

\* acquire, granted at once.
LEMMA AcquireFreeIInv ==
  ASSUME IInv, NEW t \in Txns, NEW k \in Keys, NEW m \in Modes, AcquireFree(t, k, m)
  PROVE  IInv'
<1>1. PICK s, w, x : s = inner /\ w = waiting /\ x = inner'
  OBVIOUS
<1>2. /\ Settled(s, w) /\ Sound(s, w) /\ Typed(s) /\ w \in Waits
      /\ w[t] = NoWait /\ Acyclic(s)
      /\ s.queue[k] = <<>>
      /\ \A u \in Txns \ {t} : Holds(s, k, u) => Compatible(m, s.holders[k][u])
      /\ x = [s EXCEPT !.holders[k][t] = m, !.txnKeys[t] = @ \cup {k}]
      /\ waiting' = w
  BY <1>1 DEF IInv, Resting, Settled, Sound, AcquireFree, Running, Free
<1>3. /\ x.holders = [s.holders EXCEPT ![k][t] = m] /\ x.queue = s.queue
      /\ x.txnKeys = [s.txnKeys EXCEPT ![t] = @ \cup {k}] /\ x.fates = s.fates
      /\ x.queuedWaiters = s.queuedWaiters
  BY <1>2 DEF Typed
<1>4. x = [holders |-> x.holders, queue |-> x.queue, txnKeys |-> x.txnKeys,
           queuedWaiters |-> x.queuedWaiters, fates |-> x.fates]
  BY <1>2 DEF Typed
<1>5. Typed(x)
  BY <1>2, <1>3, <1>4 DEF Typed
<1>6. /\ x.holders[k][t] = m
      /\ \A u \in Txns : u # t => x.holders[k][u] = s.holders[k][u]
      /\ \A j \in Keys : j # k => x.holders[j] = s.holders[j]
  BY <1>2, <1>3 DEF Typed
<1>7. \A u \in Txns : \A j \in Keys : j \in x.txnKeys[u] <=>
        j \in s.txnKeys[u] \/ (u = t /\ j = k)
  BY <1>2, <1>3 DEF Typed
<1>8. QueuesMatch(x, w)
  <2>1. SUFFICES ASSUME NEW j \in Keys, NEW i \in DOMAIN s.queue[j]
                 PROVE  /\ w[s.queue[j][i].txn] = [key |-> j, mode |-> s.queue[j][i].mode]
                        /\ s.fates[s.queue[j][i].txn] = "none"
                        /\ Holds(x, j, s.queue[j][i].txn) => s.queue[j][i].mode = "Exclusive"
                        /\ \A h \in DOMAIN s.queue[j] :
                              s.queue[j][i].txn = s.queue[j][h].txn => i = h
    BY <1>3 DEF QueuesMatch
  <2>2. j # k
    BY <1>2
  <2>3. Holds(x, j, s.queue[j][i].txn) <=> Holds(s, j, s.queue[j][i].txn)
    BY <1>6, <2>2 DEF Holds
  <2> QED BY <1>2, <2>3 DEF Sound, QueuesMatch
<1>9. FatesMatch(x, w)
  BY <1>2, <1>3 DEF Sound, FatesMatch
<1>10. Exclusion(x)
  <2>1. ASSUME NEW j \in Keys, NEW u \in Txns, NEW v \in Txns, u # v, Holds(x, j, u), Holds(x, j, v)
        PROVE  Compatible(x.holders[j][u], x.holders[j][v])
    <3>1. CASE j # k \/ (u # t /\ v # t)
      <4>1. x.holders[j][u] = s.holders[j][u] /\ x.holders[j][v] = s.holders[j][v]
        BY <1>6, <3>1
      <4> QED BY <1>2, <2>1, <4>1 DEF Sound, Exclusion, Holds
    <3>2. CASE j = k /\ u = t
      BY <1>2, <1>6, <2>1, <3>2 DEF Holds
    <3>3. CASE j = k /\ v = t
      BY <1>2, <1>6, <2>1, <3>3 DEF Holds, Compatible
    <3> QED BY <3>1, <3>2, <3>3
  <2> QED BY <2>1 DEF Exclusion
<1>11. Tracked(x)
  <2>1. ASSUME NEW u \in Txns, NEW j \in Keys, Holds(x, j, u) \/ Queued(x, j, u), ~(u = t /\ j = k)
        PROVE  Holds(s, j, u) \/ Queued(s, j, u)
    BY <1>3, <1>6, <2>1 DEF Holds, Queued
  <2> QED BY <1>2, <1>7, <2>1 DEF Sound, Tracked
<1>12. Granted(x, w)
  <2>1. SUFFICES ASSUME NEW u \in Txns, w[u] # NoWait, x.fates[u] = "none",
                        ~Queued(x, w[u].key, u)
                 PROVE  x.holders[w[u].key][u] \in {w[u].mode, "Exclusive"}
    BY DEF Granted
  <2>2. u # t /\ w[u].key \in Keys
    BY <1>2, <2>1 DEF Waits
  <2>3. x.holders[w[u].key][u] = s.holders[w[u].key][u]
    BY <1>6, <2>2
  <2>4. s.fates[u] = "none" /\ ~Queued(s, w[u].key, u)
    BY <1>3, <2>1 DEF Queued
  <2>5. Granted(s, w)
    BY <1>2 DEF Sound
  <2> QED BY <2>1, <2>3, <2>4, <2>5 DEF Granted
<1>13. ASSUME NEW j \in Keys PROVE Served(x, w, j)
  <2>1. CASE j = k
    BY <1>2, <1>3, <2>1 DEF Served
  <2>2. CASE j # k
    <3>1. x.queue[j] = s.queue[j] /\ x.holders[j] = s.holders[j]
      BY <1>3, <1>6, <2>2
    <3>2. Served(s, w, j) /\ \A u \in Txns : s.fates[u] # "none" => x.fates[u] # "none"
      BY <1>2, <1>3 DEF Settled
    <3> QED BY <3>1, <3>2, ServedKept
  <2> QED BY <2>1, <2>2
<1>14. Settled(x, w)
  <2>1. Counted(x)
    BY <1>2, <1>3 DEF Sound, Counted, Members, Queued
  <2> QED BY <1>2, <1>5, <1>8, <1>9, <1>10, <1>11, <1>12, <1>13, <2>1 DEF Settled, Sound
<1>15. ASSUME NEW a, NEW b, Edge(x, a, b) PROVE Edge(s, a, b)
  <2>0. PICK j \in Keys : \E i \in DOMAIN x.queue[j] :
           /\ x.queue[j][i].txn = a /\ b # a
           /\ \/ Excludes(x, j, i, b)
              \/ \E h \in 1 .. i - 1 :
                   /\ x.queue[j][h].txn = b
                   /\ ~Compatible(x.queue[j][i].mode, x.queue[j][h].mode)
    BY <1>15 DEF Edge
  <2>1. PICK i \in DOMAIN x.queue[j] :
           /\ x.queue[j][i].txn = a /\ b # a
           /\ \/ Excludes(x, j, i, b)
              \/ \E h \in 1 .. i - 1 :
                   /\ x.queue[j][h].txn = b
                   /\ ~Compatible(x.queue[j][i].mode, x.queue[j][h].mode)
    BY <2>0
  <2>2. j # k
    BY <1>2, <1>3
  <2>3. x.queue[j] = s.queue[j] /\ x.holders[j] = s.holders[j]
    BY <1>3, <1>6, <2>2
  <2>4. Excludes(x, j, i, b) => Excludes(s, j, i, b)
    BY <2>3 DEF Excludes, Holds
  <2> QED BY <2>1, <2>3, <2>4 DEF Edge
<1>16. Acyclic(x)
  BY <1>2, <1>15 DEF Acyclic, Closed
<1> QED BY <1>1, <1>2, <1>14, <1>16 DEF IInv, Resting

\* The queued state of AcquireWait, and what the threads wait for when t begins
\* or ends a wait.
Enqueued(s, t, k, m) ==
    [s EXCEPT !.queue[k] = Append(@, [txn |-> t, mode |-> m]),
              !.queuedWaiters = @ + 1,
              !.txnKeys[t] = @ \cup {k}]

Awaits(w, t, k, m) == [w EXCEPT ![t] = [key |-> k, mode |-> m]]

Ended(w, t) == [w EXCEPT ![t] = NoWait]

\* Joining the end of a queue keeps Inner settled: a request that finds the
\* queue empty is not free, so it cannot be granted either.
LEMMA EnqueueSettled ==
  ASSUME NEW s, NEW w, Settled(s, w), NEW t \in Txns, NEW k \in Keys, NEW m \in Modes,
         w[t] = NoWait,
         Holds(s, k, t) => s.holders[k][t] = "Shared" /\ m = "Exclusive",
         s.queue[k] = <<>> => \E u \in Txns \ {t} :
            Holds(s, k, u) /\ (~Compatible(m, s.holders[k][u]) \/ Holds(s, k, t)),
         NEW x, x = Enqueued(s, t, k, m), NEW v, v = Awaits(w, t, k, m)
  PROVE  Settled(x, v)
<1>0. Sound(s, w) /\ Typed(s) /\ w \in Waits
  BY DEF Settled, Sound
<1>1. /\ x.holders = s.holders /\ x.fates = s.fates
      /\ x.queue = [s.queue EXCEPT ![k] = Append(@, [txn |-> t, mode |-> m])]
      /\ x.txnKeys = [s.txnKeys EXCEPT ![t] = @ \cup {k}]
      /\ x.queuedWaiters = s.queuedWaiters + 1
  BY <1>0 DEF Typed, Enqueued
<1>2. x = [holders |-> x.holders, queue |-> x.queue, txnKeys |-> x.txnKeys,
           queuedWaiters |-> x.queuedWaiters, fates |-> x.fates]
  BY <1>0 DEF Typed, Enqueued
<1>3. PICK e \in Waiter : e = [txn |-> t, mode |-> m] /\ e.txn = t /\ e.mode = m
  <2>1. [txn |-> t, mode |-> m] \in Waiter
    BY DEF Waiter
  <2>2. [txn |-> t, mode |-> m].txn = t /\ [txn |-> t, mode |-> m].mode = m
    OBVIOUS
  <2> QED BY <2>1, <2>2, Zenon
<1>4. PICK l \in Nat : l = Len(s.queue[k]) /\ DOMAIN s.queue[k] = 1 .. l
  BY <1>0, QueueFacts
<1>5. /\ x.queue[k] = Append(s.queue[k], e) /\ s.queue[k] \in Seq(Waiter)
      /\ \A j \in Keys : j # k => x.queue[j] = s.queue[j]
  BY <1>0, <1>1, <1>3 DEF Typed
<1>6. /\ x.queue[k] \in Seq(Waiter) /\ DOMAIN x.queue[k] = 1 .. l + 1
      /\ \A i \in 1 .. l : x.queue[k][i] = s.queue[k][i]
      /\ x.queue[k][l + 1] = e
  BY <1>4, <1>5
<1>7. Typed(x)
  <2>1. x.queue \in [Keys -> Seq(Waiter)]
    BY <1>0, <1>1, <1>5, <1>6 DEF Typed
  <2>2. x.txnKeys \in [Txns -> SUBSET Keys]
    BY <1>0, <1>1 DEF Typed
  <2> QED BY <1>0, <1>1, <1>2, <2>1, <2>2 DEF Typed
<1>8. v \in Waits /\ v[t] = [key |-> k, mode |-> m] /\ \A u \in Txns : u # t => v[u] = w[u]
  BY <1>0 DEF Waits, Awaits
<1>9. s.fates[t] = "none" /\ \A j \in Keys : ~Queued(s, j, t)
  BY <1>0, RunningFacts
<1>10. \A j \in Keys : \A u : Holds(x, j, u) <=> Holds(s, j, u)
  BY <1>1 DEF Holds
<1>11. ASSUME NEW j \in Keys, NEW i \in DOMAIN s.queue[j]
       PROVE  /\ s.queue[j][i].txn \in Txns /\ s.queue[j][i].txn # t
              /\ v[s.queue[j][i].txn] = [key |-> j, mode |-> s.queue[j][i].mode]
              /\ x.fates[s.queue[j][i].txn] = "none"
              /\ Holds(x, j, s.queue[j][i].txn) => s.queue[j][i].mode = "Exclusive"
  <2>1. s.queue[j][i].txn \in Txns /\ s.queue[j][i].txn # t
    BY <1>0, <1>9, QueueFacts DEF Queued
  <2>2. /\ w[s.queue[j][i].txn] = [key |-> j, mode |-> s.queue[j][i].mode]
        /\ s.fates[s.queue[j][i].txn] = "none"
        /\ Holds(s, j, s.queue[j][i].txn) => s.queue[j][i].mode = "Exclusive"
    BY <1>0 DEF Sound, QueuesMatch
  <2> QED BY <1>1, <1>8, <1>10, <2>1, <2>2
<1>12. QueuesMatch(x, v)
  <2>1. SUFFICES ASSUME NEW j \in Keys, NEW i \in DOMAIN x.queue[j]
                 PROVE  /\ v[x.queue[j][i].txn] = [key |-> j, mode |-> x.queue[j][i].mode]
                        /\ x.fates[x.queue[j][i].txn] = "none"
                        /\ Holds(x, j, x.queue[j][i].txn) => x.queue[j][i].mode = "Exclusive"
                        /\ \A h \in DOMAIN x.queue[j] :
                              x.queue[j][i].txn = x.queue[j][h].txn => i = h
    BY DEF QueuesMatch
  <2>2. \A a, b \in DOMAIN s.queue[j] : s.queue[j][a].txn = s.queue[j][b].txn => a = b
    BY <1>0, QueueFacts
  <2>3. CASE j # k
    <3>1. x.queue[j] = s.queue[j]
      BY <1>5, <2>3
    <3>2. i \in DOMAIN s.queue[j]
      BY <3>1
    <3> QED BY <1>11, <2>2, <3>1, <3>2
  <2>4. CASE j = k /\ i \in 1 .. l
    <3>1. i \in DOMAIN s.queue[k] /\ x.queue[k][i] = s.queue[k][i]
      BY <1>4, <1>6, <2>4
    <3>2. ASSUME NEW h \in DOMAIN x.queue[k], x.queue[k][i].txn = x.queue[k][h].txn
          PROVE  i = h
      <4>0. s.queue[k][i].txn # t
        BY <1>11, <3>1
      <4>1. h # l + 1
        BY <1>3, <1>6, <3>1, <3>2, <4>0
      <4>2. h \in 1 .. l
        BY <1>6, <4>1
      <4> QED BY <1>4, <1>6, <2>2, <2>4, <3>1, <3>2, <4>2
    <3> QED BY <1>11, <2>4, <3>1, <3>2
  <2>5. CASE j = k /\ i = l + 1
    <3>1. x.queue[k][i] = e
      BY <1>6, <2>5
    <3>2. ASSUME NEW h \in DOMAIN x.queue[k], x.queue[k][i].txn = x.queue[k][h].txn
          PROVE  i = h
      <4>0. h \in 1 .. l => h \in DOMAIN s.queue[k] /\ x.queue[k][h] = s.queue[k][h]
        BY <1>4, <1>6
      <4>1. h \in 1 .. l => s.queue[k][h].txn # t
        BY <1>11, <4>0
      <4>2. ~(h \in 1 .. l)
        BY <1>3, <3>1, <3>2, <4>0, <4>1
      <4> QED BY <1>6, <2>5, <4>2
    <3> QED BY <1>1, <1>3, <1>8, <1>9, <1>10, <2>5, <3>1, <3>2
  <2> QED BY <1>4, <1>6, <2>3, <2>4, <2>5
<1>13. FatesMatch(x, v)
  BY <1>0, <1>1, <1>8, <1>9 DEF Sound, FatesMatch
<1>14. Exclusion(x)
  BY <1>0, <1>1, <1>10 DEF Sound, Exclusion
<1>15. ASSUME NEW j \in Keys, NEW u \in Txns, u # t
       PROVE  Queued(x, j, u) <=> Queued(s, j, u)
  <2>1. CASE j # k
    BY <1>5, <2>1 DEF Queued
  <2>2. CASE j = k
    <3>1. Queued(x, k, u) => Queued(s, k, u)
      <4>1. SUFFICES ASSUME NEW i \in DOMAIN x.queue[k], x.queue[k][i].txn = u
                     PROVE  Queued(s, k, u)
        BY DEF Queued
      <4>2. i # l + 1
        BY <1>3, <1>6, <1>15, <4>1
      <4>3. i \in 1 .. l
        BY <1>6, <4>2
      <4> QED BY <1>4, <1>6, <4>1, <4>3 DEF Queued
    <3>2. Queued(s, k, u) => Queued(x, k, u)
      <4>1. SUFFICES ASSUME NEW i \in 1 .. l, s.queue[k][i].txn = u
                     PROVE  Queued(x, k, u)
        BY <1>4 DEF Queued
      <4>2. i \in DOMAIN x.queue[k] /\ x.queue[k][i].txn = u
        BY <1>6, <4>1
      <4> QED BY <4>2 DEF Queued
    <3> QED BY <2>2, <3>1, <3>2
  <2> QED BY <2>1, <2>2
<1>16. Queued(x, k, t) /\ \A j \in Keys : j # k => ~Queued(x, j, t)
  <2>1. l + 1 \in DOMAIN x.queue[k] /\ x.queue[k][l + 1].txn = t
    BY <1>3, <1>6
  <2> QED BY <1>5, <1>9, <2>1 DEF Queued
<1>17. Tracked(x)
  <2>1. SUFFICES ASSUME NEW u \in Txns, NEW j \in Keys, Holds(x, j, u) \/ Queued(x, j, u)
                 PROVE  j \in x.txnKeys[u]
    BY DEF Tracked
  <2>2. j \in x.txnKeys[u] <=> j \in s.txnKeys[u] \/ (u = t /\ j = k)
    BY <1>0, <1>1 DEF Typed
  <2>3. ~(u = t /\ j = k) => Holds(s, j, u) \/ Queued(s, j, u)
    BY <1>10, <1>15, <1>16, <2>1
  <2> QED BY <1>0, <2>2, <2>3 DEF Sound, Tracked
<1>18. Granted(x, v)
  <2>1. SUFFICES ASSUME NEW u \in Txns, v[u] # NoWait, x.fates[u] = "none",
                        ~Queued(x, v[u].key, u)
                 PROVE  x.holders[v[u].key][u] \in {v[u].mode, "Exclusive"}
    BY DEF Granted
  <2>2. u # t
    BY <1>8, <1>16, <2>1
  <2>3. v[u] = w[u] /\ w[u].key \in Keys
    BY <1>0, <1>8, <2>1, <2>2 DEF Waits
  <2> QED BY <1>0, <1>1, <1>15, <2>1, <2>2, <2>3 DEF Sound, Granted
<1>19. \A u \in Txns : s.fates[u] # "none" => x.fates[u] # "none" /\ v[u] = w[u]
  BY <1>1, <1>8, <1>9
<1>20. ASSUME NEW j \in Keys PROVE Served(x, v, j)
  <2>0. Served(s, w, j)
    BY DEF Settled
  <2>1. CASE j # k
    <3>1. x.queue[j] = s.queue[j] /\ x.holders[j] = s.holders[j]
      BY <1>1, <1>5, <2>1
    <3>2. \A u \in Txns : s.fates[u] # "none" /\ w[u].key = j =>
             x.fates[u] # "none" /\ v[u].key = j
      BY <1>19
    <3> QED BY <2>0, <3>1, <3>2, ServedKept
  <2>2. CASE j = k /\ l # 0
    <3>1. 1 \in 1 .. l /\ s.queue[k] # <<>>
      BY <1>4, <2>2
    <3>2. x.queue[k][1] = s.queue[k][1]
      BY <1>6, <3>1
    <3>3. Grantable(x, k, 1) => Grantable(s, k, 1)
      BY <1>1, <1>10, <3>2 DEF Grantable
    <3>4. Grantable(s, k, 1) => \E u \in Txns : s.fates[u] # "none" /\ w[u].key = k
      BY <2>0, <2>2, <3>1 DEF Served
    <3> QED BY <1>19, <2>2, <3>3, <3>4 DEF Served
  <2>3. CASE j = k /\ l = 0
    <3>1. s.queue[k] = <<>> /\ x.queue[k][1] = e
      BY <1>4, <1>5, <1>6, <2>3
    <3>2. PICK u \in Txns \ {t} :
             Holds(s, k, u) /\ (~Compatible(m, s.holders[k][u]) \/ Holds(s, k, t))
      BY <3>1
    <3>3. ~Compatible(m, s.holders[k][u])
      BY <3>2 DEF Compatible
    <3>4. Holds(x, k, u) /\ x.holders[k][u] = s.holders[k][u]
      BY <1>1, <1>10, <3>2
    <3>5. ~Grantable(x, k, 1)
      BY <1>3, <3>1, <3>3, <3>4 DEF Grantable
    <3> QED BY <2>3, <3>5 DEF Served
  <2> QED BY <2>1, <2>2, <2>3
<1>21. Counted(x)
  <2>1. Members(x) = Members(s) \cup {t} /\ t \notin Members(s)
    BY <1>9, <1>15, <1>16 DEF Members
  <2>2. Cardinality(Members(x)) = Cardinality(Members(s)) + 1
    BY <2>1, MembersFinite, FS_AddElement
  <2> QED BY <1>0, <1>1, <2>2 DEF Sound, Counted
<1> QED BY <1>7, <1>8, <1>12, <1>13, <1>14, <1>17, <1>18, <1>20, <1>21 DEF Settled, Sound

\* wait_for_grant takes the fate of t and its wait ends: only the queue t left
\* may now need to be served.
LEMMA ForgetSound ==
  ASSUME NEW s, NEW v, Settled(s, v), NEW t \in Txns, s.fates[t] # "none",
         NEW w, w = Ended(v, t), NEW x, x = Forget(s, t)
  PROVE  Sound(x, w) /\ \A j \in Keys : j # v[t].key => Served(x, w, j)
<1>0. Sound(s, v) /\ Typed(s) /\ v \in Waits
  BY DEF Settled, Sound
<1>1. /\ x.holders = s.holders /\ x.queue = s.queue /\ x.txnKeys = s.txnKeys
      /\ x.fates = [s.fates EXCEPT ![t] = "none"] /\ x.queuedWaiters = s.queuedWaiters
      /\ x = [holders |-> x.holders, queue |-> x.queue, txnKeys |-> x.txnKeys,
              queuedWaiters |-> x.queuedWaiters, fates |-> x.fates]
  BY <1>0 DEF Typed, Forget
<1>2. Typed(x)
  BY <1>0, <1>1 DEF Typed
<1>3. w \in Waits /\ w[t] = NoWait /\ \A u \in Txns : u # t => w[u] = v[u]
  BY <1>0 DEF Waits, Ended
<1>4. x.fates[t] = "none" /\ \A u \in Txns : u # t => x.fates[u] = s.fates[u]
  BY <1>0, <1>1 DEF Typed
<1>5. PICK D : D = {t}
  OBVIOUS
<1>6. ASSUME NEW j \in Keys PROVE Thinned(s.queue[j], x.queue[j], D)
  <2>1. ~Queued(s, j, t)
    BY <1>0, QueuedFacts
  <2>2. \A i \in DOMAIN s.queue[j] : s.queue[j][i].txn # t
    BY <2>1 DEF Queued
  <2>3. \A h, i \in DOMAIN s.queue[j] : s.queue[j][h].txn = s.queue[j][i].txn => h = i
    BY <1>0, QueueFacts
  <2>4. x.queue[j] = s.queue[j]
    BY <1>1
  <2> QED BY <1>5, <2>2, <2>3, <2>4 DEF Thinned
<1>7. Leave(s, v, x, w, D)
  <2>1. \A u \in Txns : u \notin D => x.fates[u] = s.fates[u] /\ w[u] = v[u]
    BY <1>3, <1>4, <1>5
  <2>2. \A u \in Txns : u \in D => x.fates[u] = "none" /\ w[u] = NoWait
    BY <1>3, <1>4, <1>5
  <2>3. Members(s) \cap D = {}
    BY <1>0, <1>5, QueuedFacts DEF Members
  <2>4. Fewer(s, x, Members(s) \cap D)
    <3>1. s.queuedWaiters \in Nat
      BY <1>0, MembersFinite DEF Sound, Counted
    <3>2. Cardinality(Members(s) \cap D) = 0
      BY <2>3, FS_EmptySet
    <3> QED BY <1>1, <3>1, <3>2 DEF Fewer
  <2> QED BY <1>1, <1>2, <1>3, <1>6, <2>1, <2>2, <2>4 DEF Leave
<1>8. Sound(x, w)
  BY <1>0, <1>7, LeaveSound
<1>9. ASSUME NEW j \in Keys, j # v[t].key PROVE Served(x, w, j)
  <2>1. Served(s, v, j)
    BY DEF Settled
  <2>2. x.queue[j] = s.queue[j] /\ x.holders[j] = s.holders[j]
    BY <1>1
  <2>3. \A u \in Txns : s.fates[u] # "none" /\ v[u].key = j =>
           x.fates[u] # "none" /\ w[u].key = j
    BY <1>3, <1>4, <1>9
  <2> QED BY <2>1, <2>2, <2>3, ServedKept
<1> QED BY <1>8, <1>9

\* acquire, queued: the thread waits, or is the victim itself and returns.
LEMMA AcquireWaitIInv ==
  ASSUME IInv, NEW t \in Txns, NEW k \in Keys, NEW m \in Modes, AcquireWait(t, k, m)
  PROVE  IInv'
<1>1. PICK s, w, y : s = inner /\ w = waiting /\ y = inner'
  OBVIOUS
<1>2. PICK q, v : q = Enqueued(s, t, k, m) /\ v = Awaits(w, t, k, m)
  OBVIOUS
<1>3. /\ Settled(s, w) /\ Sound(s, w) /\ Typed(s) /\ w \in Waits /\ w[t] = NoWait
      /\ ~(s.holders[k][t] = "Exclusive")
      /\ ~(s.holders[k][t] = "Shared" /\ m = "Shared")
      /\ s.queue[k] = <<>> => \E u \in Txns \ {t} :
            Holds(s, k, u) /\ (~Compatible(m, s.holders[k][u]) \/ Holds(s, k, t))
  BY <1>1 DEF IInv, Resting, Settled, Sound, AcquireWait, Running, Covered, Free
<1>4. PICK x \in DetectDeadlocks(q) :
         \/ y = x /\ waiting' = v
         \/ x.fates[t] # "none" /\ y \in LeaveQueue(Forget(x, t), k, t) /\ waiting' = w
  BY <1>1, <1>2 DEF AcquireWait, Enqueued, Awaits
<1>5. Holds(s, k, t) => s.holders[k][t] = "Shared" /\ m = "Exclusive"
  <2>1. s.holders[k][t] \in {"Shared", "Exclusive", "none"} /\ m \in {"Shared", "Exclusive"}
    BY <1>3 DEF Typed, Modes
  <2> QED BY <1>3, <2>1 DEF Holds
<1>6. Settled(q, v)
  BY <1>2, <1>3, <1>5, EnqueueSettled
<1>7. Resting(x, v) /\ Settled(x, v)
  BY <1>4, <1>6, DetectSettled DEF Resting
<1>8. CASE y = x /\ waiting' = v
  BY <1>1, <1>7, <1>8 DEF IInv
<1>9. CASE x.fates[t] # "none" /\ y \in LeaveQueue(Forget(x, t), k, t) /\ waiting' = w
  <2>1. v[t].key = k /\ w = Ended(v, t)
    BY <1>2, <1>3 DEF Awaits, Ended, Waits
  <2>2. PICK f : f = Forget(x, t)
    OBVIOUS
  <2>3. Sound(f, w) /\ \A j \in Keys : j # k => Served(f, w, j)
    BY <1>7, <1>9, <2>1, <2>2, ForgetSound
  <2>4. Resting(y, w)
    BY <1>9, <2>2, <2>3, LeaveQueueSettled
  <2> QED BY <1>1, <1>9, <2>4 DEF IInv
<1> QED BY <1>4, <1>8, <1>9

\* wait_for_grant returns Ok.
LEMMA WaitGrantedIInv ==
  ASSUME IInv, NEW t \in Txns, WaitGranted(t)
  PROVE  IInv'
<1>1. PICK s, w, v : s = inner /\ w = waiting /\ v = waiting'
  OBVIOUS
<1>2. /\ Settled(s, w) /\ Sound(s, w) /\ Typed(s) /\ w \in Waits /\ w[t] # NoWait
      /\ s.fates[t] = "none" /\ ~Queued(s, w[t].key, t) /\ Acyclic(s)
      /\ v = [w EXCEPT ![t] = NoWait] /\ inner' = s
  BY <1>1 DEF IInv, Resting, Settled, Sound, WaitGranted, Running
<1>3. v \in Waits /\ v[t] = NoWait /\ \A u \in Txns : u # t => v[u] = w[u]
  BY <1>2 DEF Waits
<1>4. \A u \in Txns : s.fates[u] # "none" => v[u] = w[u]
  BY <1>2, <1>3
<1>5. QueuesMatch(s, v)
  <2>1. ASSUME NEW k \in Keys, NEW i \in DOMAIN s.queue[k]
        PROVE  v[s.queue[k][i].txn] = w[s.queue[k][i].txn]
    <3>1. Queued(s, k, s.queue[k][i].txn)
      BY DEF Queued
    <3>2. s.queue[k][i].txn \in Txns /\ w[s.queue[k][i].txn].key = k
      BY <1>2, <3>1, QueuedFacts
    <3>3. s.queue[k][i].txn # t
      BY <1>2, <3>1, <3>2
    <3> QED BY <1>3, <3>2, <3>3
  <2>2. QueuesMatch(s, w)
    BY <1>2 DEF Sound
  <2> QED BY <2>1, <2>2 DEF QueuesMatch
<1>6. FatesMatch(s, v)
  BY <1>2, <1>4 DEF Sound, FatesMatch
<1>7. Granted(s, v)
  BY <1>2, <1>3 DEF Sound, Granted
<1>8. Sound(s, v)
  BY <1>2, <1>3, <1>5, <1>6, <1>7 DEF Sound
<1>9. ASSUME NEW k \in Keys PROVE Served(s, v, k)
  <2>1. Served(s, w, k)
    BY <1>2 DEF Settled
  <2> QED BY <1>4, <2>1 DEF Served
<1>10. Resting(s, v)
  BY <1>2, <1>8, <1>9 DEF Settled, Resting
<1> QED BY <1>1, <1>2, <1>10 DEF IInv

\* wait_for_grant returns the recorded fate.
LEMMA WaitDoomedIInv ==
  ASSUME IInv, NEW t \in Txns, WaitDoomed(t)
  PROVE  IInv'
<1>1. PICK s, w, v, y : s = inner /\ w = waiting /\ v = waiting' /\ y = inner'
  OBVIOUS
<1>2. /\ Settled(s, w) /\ w \in Waits /\ w[t] # NoWait
      /\ s.fates[t] # "none"
      /\ y \in LeaveQueue(Forget(s, t), w[t].key, t)
      /\ v = Ended(w, t)
  BY <1>1 DEF IInv, Resting, Settled, Sound, WaitDoomed, Running, StopWaiting, Ended
<1>3. PICK f : f = Forget(s, t)
  OBVIOUS
<1>4. PICK k \in Keys : k = w[t].key
  BY <1>2 DEF Waits
<1>5. Sound(f, v) /\ \A j \in Keys : j # k => Served(f, v, j)
  BY <1>2, <1>3, <1>4, ForgetSound
<1>6. Resting(y, v)
  BY <1>2, <1>3, <1>4, <1>5, LeaveQueueSettled
<1> QED BY <1>1, <1>6 DEF IInv

\* wait_for_grant removes its own dead request.
LEMMA WaitCancelledIInv ==
  ASSUME IInv, NEW t \in Txns, WaitCancelled(t)
  PROVE  IInv'
<1>1. PICK s, w, v, y : s = inner /\ w = waiting /\ v = waiting' /\ y = inner'
  OBVIOUS
<1>2. /\ Settled(s, w) /\ Sound(s, w) /\ w \in Waits /\ w[t] # NoWait
      /\ s.fates[t] = "none" /\ Queued(s, w[t].key, t)
      /\ y \in LeaveQueue(RemoveWaiter(s, w[t].key, t), w[t].key, t)
      /\ v = [w EXCEPT ![t] = NoWait]
  BY <1>1 DEF IInv, Resting, Settled, Sound, WaitCancelled, Running, StopWaiting
<1>3. v \in Waits /\ v[t] = NoWait /\ \A u \in Txns : u # t => v[u] = w[u]
  BY <1>2 DEF Waits
<1>4. PICK k \in Keys : k = w[t].key
  BY <1>2 DEF Waits
<1>5. PICK x, D : x = RemoveWaiter(s, k, t) /\ D = {t}
  OBVIOUS
<1>6. /\ Typed(x) /\ x.holders = s.holders /\ x.fates = s.fates
      /\ Fewer(s, x, {t})
      /\ \A j \in Keys : j # k => x.queue[j] = s.queue[j]
      /\ \A j \in Keys : Thinned(s.queue[j], x.queue[j], {t})
      /\ \A u \in Txns : \A j \in Keys : j \in s.txnKeys[u] =>
            j \in x.txnKeys[u] \/ (u = t /\ ~Holds(s, j, t))
  <2>1. Queued(s, k, t) /\ Sound(s, w) /\ x = RemoveWaiter(s, k, t)
    BY <1>2, <1>4, <1>5
  <2>2. Removed(s, x, k, t)
    BY <2>1, RemoveFields
  <2> QED BY <2>2 DEF Removed
<1>7. Leave(s, w, x, v, D)
  <2>1. \A u \in Txns : u \notin D => x.fates[u] = s.fates[u] /\ v[u] = w[u]
    BY <1>3, <1>5, <1>6
  <2>2. \A u \in Txns : u \in D => x.fates[u] = "none" /\ v[u] = NoWait
    BY <1>2, <1>3, <1>5, <1>6
  <2>3. \A u \in Txns : \A j \in Keys : j \in s.txnKeys[u] =>
           j \in x.txnKeys[u] \/ (u \in D /\ ~Holds(s, j, u))
    BY <1>5, <1>6
  <2>4. \A j \in Keys : Thinned(s.queue[j], x.queue[j], D)
    BY <1>5, <1>6
  <2>5. Fewer(s, x, Members(s) \cap D)
    <3>1. Members(s) \cap D = {t}
      BY <1>2, <1>4, <1>5 DEF Members
    <3> QED BY <1>6, <3>1
  <2> QED BY <1>3, <1>6, <2>1, <2>2, <2>3, <2>4, <2>5 DEF Leave
<1>8. Sound(x, v)
  BY <1>2, <1>7, LeaveSound
<1>9. ASSUME NEW j \in Keys, j # k PROVE Served(x, v, j)
  <2>1. Served(s, w, j)
    BY <1>2 DEF Settled
  <2>2. x.queue[j] = s.queue[j] /\ x.holders[j] = s.holders[j]
    BY <1>6, <1>9
  <2>3. \A u \in Txns : s.fates[u] # "none" /\ w[u].key = j =>
           x.fates[u] # "none" /\ v[u].key = j
    BY <1>2, <1>3, <1>6
  <2> QED BY <2>1, <2>2, <2>3, ServedKept
<1>10. Resting(y, v)
  BY <1>2, <1>4, <1>5, <1>8, <1>9, LeaveQueueSettled
<1> QED BY <1>1, <1>10 DEF IInv

\* A running transaction lets go of what it holds on K: only the queues of K
\* may now need to be served.
LEMMA DropSound ==
  ASSUME NEW s, NEW w, Settled(s, w), NEW t \in Txns, w[t] = NoWait, NEW K, K \subseteq Keys,
         NEW x, Typed(x), x.queue = s.queue, x.fates = s.fates,
         x.queuedWaiters = s.queuedWaiters,
         \A k \in Keys : k \notin K => x.holders[k] = s.holders[k],
         \A k \in K : x.holders[k][t] = "none",
         \A k \in Keys : \A u \in Txns : u # t =>
            x.holders[k][u] = s.holders[k][u] /\ x.txnKeys[u] = s.txnKeys[u],
         \A k \in Keys : Holds(x, k, t) => k \in x.txnKeys[t]
  PROVE  Sound(x, w) /\ \A k \in Keys : k \notin K => Served(x, w, k)
<1>0. Sound(s, w) /\ w \in Waits
  BY DEF Settled, Sound
<1>1. \A k \in Keys : \A u : Queued(x, k, u) <=> Queued(s, k, u)
  BY DEF Queued
<1>2. \A k \in Keys : ~Queued(s, k, t)
  BY <1>0, RunningFacts
<1>3. ASSUME NEW k \in Keys, NEW u \in Txns, Holds(x, k, u)
      PROVE  x.holders[k][u] = s.holders[k][u] /\ Holds(s, k, u)
  BY <1>3 DEF Holds
<1>4. QueuesMatch(x, w)
  <2>1. ASSUME NEW k \in Keys, NEW i \in DOMAIN x.queue[k]
        PROVE  /\ w[x.queue[k][i].txn] = [key |-> k, mode |-> x.queue[k][i].mode]
               /\ x.fates[x.queue[k][i].txn] = "none"
               /\ Holds(x, k, x.queue[k][i].txn) => x.queue[k][i].mode = "Exclusive"
               /\ \A j \in DOMAIN x.queue[k] :
                     x.queue[k][i].txn = x.queue[k][j].txn => i = j
    <3>1. i \in DOMAIN s.queue[k]
      OBVIOUS
    <3>2. Holds(x, k, s.queue[k][i].txn) => Holds(s, k, s.queue[k][i].txn)
      BY <1>0, <1>3, <3>1, QueueFacts
    <3> QED BY <1>0, <3>1, <3>2 DEF Sound, QueuesMatch
  <2> QED BY ONLY <2>1 DEF QueuesMatch
<1>5. FatesMatch(x, w)
  BY <1>0 DEF Sound, FatesMatch
<1>6. Exclusion(x)
  <2>1. ASSUME NEW k \in Keys, NEW u \in Txns, NEW v \in Txns, u # v, Holds(x, k, u), Holds(x, k, v)
        PROVE  Compatible(x.holders[k][u], x.holders[k][v])
    <3>1. /\ x.holders[k][u] = s.holders[k][u] /\ Holds(s, k, u)
          /\ x.holders[k][v] = s.holders[k][v] /\ Holds(s, k, v)
      BY <1>3, <2>1
    <3> QED BY <1>0, <2>1, <3>1 DEF Sound, Exclusion
  <2> QED BY <2>1 DEF Exclusion
<1>7. Tracked(x)
  <2>1. ASSUME NEW u \in Txns, NEW k \in Keys, Holds(x, k, u) \/ Queued(x, k, u)
        PROVE  k \in x.txnKeys[u]
    <3>1. CASE u = t
      BY <1>1, <1>2, <2>1, <3>1
    <3>2. CASE u # t
      <4>1. k \in s.txnKeys[u]
        BY <1>0, <1>1, <1>3, <2>1 DEF Sound, Tracked
      <4> QED BY <3>2, <4>1
    <3> QED BY <3>1, <3>2
  <2> QED BY <2>1 DEF Tracked
<1>8. Granted(x, w)
  <2>1. SUFFICES ASSUME NEW u \in Txns, w[u] # NoWait, x.fates[u] = "none",
                        ~Queued(x, w[u].key, u)
                 PROVE  x.holders[w[u].key][u] \in {w[u].mode, "Exclusive"}
    BY DEF Granted
  <2>2. u # t /\ w[u].key \in Keys
    BY <1>0, <2>1 DEF Waits
  <2>3. s.holders[w[u].key][u] \in {w[u].mode, "Exclusive"}
    BY <1>0, <1>1, <2>1, <2>2 DEF Sound, Granted
  <2> QED BY <2>2, <2>3
<1>9. ASSUME NEW k \in Keys, k \notin K PROVE Served(x, w, k)
  <2>1. Served(s, w, k)
    BY DEF Settled
  <2>2. x.queue[k] = s.queue[k] /\ x.holders[k] = s.holders[k]
    BY <1>9
  <2>3. \A u \in Txns : s.fates[u] # "none" /\ w[u].key = k =>
           x.fates[u] # "none" /\ w[u].key = k
    OBVIOUS
  <2> QED BY ONLY <2>1, <2>2, <2>3, ServedKept
<1>10. Counted(x)
  BY <1>0, <1>1 DEF Sound, Counted, Members
<1> QED BY <1>0, <1>4, <1>5, <1>6, <1>7, <1>8, <1>9, <1>10 DEF Sound

\* release of one key.
LEMMA ReleaseIInv ==
  ASSUME IInv, NEW t \in Txns, NEW k \in Keys, Release(t, k)
  PROVE  IInv'
<1>1. PICK s, w, y : s = inner /\ w = waiting /\ y = inner'
  OBVIOUS
<1>2. PICK x, K : x = [s EXCEPT !.holders[k][t] = "none"] /\ K = {k}
  OBVIOUS
<1>3. /\ Settled(s, w) /\ Sound(s, w) /\ Typed(s) /\ w[t] = NoWait
      /\ y \in LeaveQueue(x, k, t) /\ waiting' = w
  BY <1>1, <1>2 DEF IInv, Resting, Settled, Sound, Release, Running
<1>4. /\ x.holders = [s.holders EXCEPT ![k][t] = "none"]
      /\ x.queue = s.queue /\ x.txnKeys = s.txnKeys /\ x.fates = s.fates
      /\ x.queuedWaiters = s.queuedWaiters
      /\ x = [holders |-> x.holders, queue |-> x.queue, txnKeys |-> x.txnKeys,
              queuedWaiters |-> x.queuedWaiters, fates |-> x.fates]
  BY <1>2, <1>3 DEF Typed
<1>5. Typed(x)
  BY <1>3, <1>4 DEF Typed
<1>6. /\ \A j \in Keys : j # k => x.holders[j] = s.holders[j]
      /\ x.holders[k][t] = "none"
      /\ \A j \in Keys : \A u \in Txns : u # t =>
            x.holders[j][u] = s.holders[j][u] /\ x.txnKeys[u] = s.txnKeys[u]
  BY <1>3, <1>4 DEF Typed
<1>7. ASSUME NEW j \in Keys, Holds(x, j, t) PROVE j \in x.txnKeys[t]
  <2>1. Holds(s, j, t)
    BY <1>6, <1>7 DEF Holds
  <2> QED BY <1>3, <1>4, <2>1 DEF Sound, Tracked
<1>8. Sound(x, w) /\ \A j \in Keys : j \notin K => Served(x, w, j)
  <2>1. /\ \A j \in Keys : j \notin K => x.holders[j] = s.holders[j]
        /\ \A j \in K : x.holders[j][t] = "none"
        /\ K \subseteq Keys
    BY <1>2, <1>6
  <2> QED BY <1>3, <1>4, <1>5, <1>6, <1>7, <2>1, DropSound
<1>9. \A j \in Keys : j # k => Served(x, w, j)
  BY <1>2, <1>8
<1>10. Resting(y, w)
  BY <1>3, <1>8, <1>9, LeaveQueueSettled
<1> QED BY <1>1, <1>3, <1>10 DEF IInv

\* release_all: every hold of the transaction is on a key of txn_keys.
LEMMA ReleaseAllIInv ==
  ASSUME IInv, NEW t \in Txns, ReleaseAll(t)
  PROVE  IInv'
<1>1. PICK s, w, y : s = inner /\ w = waiting /\ y = inner'
  OBVIOUS
<1>2. PICK x, K : x = Dropped(t) /\ K = s.txnKeys[t]
  OBVIOUS
<1>3. /\ Settled(s, w) /\ Sound(s, w) /\ Typed(s) /\ w[t] = NoWait
      /\ y \in DetectDeadlocks(ProcessKeys(x, K)) /\ waiting' = w
  BY <1>1, <1>2 DEF IInv, Resting, Settled, Sound, ReleaseAll, Running
<1>4. x = [s EXCEPT !.holders = [k \in Keys |-> IF k \in K THEN [s.holders[k] EXCEPT ![t] = "none"]
                                               ELSE s.holders[k]],
                    !.txnKeys[t] = {}]
  BY <1>1, <1>2 DEF Dropped
<1>5. /\ x.holders = [k \in Keys |-> IF k \in K THEN [s.holders[k] EXCEPT ![t] = "none"]
                                    ELSE s.holders[k]]
      /\ x.queue = s.queue /\ x.txnKeys = [s.txnKeys EXCEPT ![t] = {}] /\ x.fates = s.fates
      /\ x.queuedWaiters = s.queuedWaiters
      /\ x = [holders |-> x.holders, queue |-> x.queue, txnKeys |-> x.txnKeys,
              queuedWaiters |-> x.queuedWaiters, fates |-> x.fates]
  BY <1>3, <1>4 DEF Typed
<1>6. Typed(x) /\ K \subseteq Keys
  <2>1. ASSUME NEW k \in Keys PROVE x.holders[k] \in [Txns -> Modes \cup {"none"}]
    BY <1>3, <1>5 DEF Typed
  <2>2. x.holders \in [Keys -> [Txns -> Modes \cup {"none"}]]
    BY <1>5, <2>1
  <2>3. x.txnKeys \in [Txns -> SUBSET Keys]
    BY <1>3, <1>5 DEF Typed
  <2>4. K \subseteq Keys
    BY <1>2, <1>3 DEF Typed
  <2> QED BY <1>3, <1>5, <2>2, <2>3, <2>4 DEF Typed
<1>7. /\ \A k \in Keys : k \notin K => x.holders[k] = s.holders[k]
      /\ \A k \in K : x.holders[k][t] = "none"
      /\ \A k \in Keys : \A u \in Txns : u # t =>
            x.holders[k][u] = s.holders[k][u] /\ x.txnKeys[u] = s.txnKeys[u]
  BY <1>3, <1>5, <1>6 DEF Typed
<1>8. ASSUME NEW k \in Keys PROVE ~Holds(x, k, t)
  <2>1. CASE k \in K
    BY <1>7, <2>1 DEF Holds
  <2>2. CASE k \notin K
    <3>1. ~Holds(s, k, t)
      BY <1>2, <1>3, <2>2 DEF Sound, Tracked
    <3> QED BY <1>7, <2>2, <3>1 DEF Holds
  <2> QED BY <2>1, <2>2
<1>9. Sound(x, w) /\ \A k \in Keys : k \notin K => Served(x, w, k)
  BY <1>3, <1>5, <1>6, <1>7, <1>8, DropSound
<1>10. Settled(ProcessKeys(x, K), w)
  BY <1>6, <1>9, ProcessSettled
<1>11. Resting(y, w)
  BY <1>3, <1>10, DetectSettled
<1> QED BY <1>1, <1>3, <1>11 DEF IInv

\* Every step keeps the invariant.
LEMMA NextIInv == IInv /\ [Next]_vars => IInv'
<1> SUFFICES ASSUME IInv, [Next]_vars PROVE IInv'
  OBVIOUS
<1>1. ASSUME UNCHANGED vars PROVE IInv'
  BY <1>1 DEF IInv, vars
<1>2. ASSUME NEW t \in Txns, Expire(t) PROVE IInv'
  BY <1>2 DEF IInv, Expire
<1>3. ASSUME NEW t \in Txns, Wake(t) PROVE IInv'
  BY <1>3, WaitGrantedIInv, WaitDoomedIInv, WaitCancelledIInv DEF Wake
<1>4. ASSUME NEW t \in Txns, NEW k \in Keys, NEW m \in Modes, Acquire(t, k, m) PROVE IInv'
  BY <1>4, AcquireFreeIInv, AcquireWaitIInv DEF Acquire
<1> QED BY <1>1, <1>2, <1>3, <1>4, ReleaseIInv, ReleaseAllIInv DEF Next

-----------------------------------------------------------------------------
\* t waits at position i of k, and u keeps it there: BlockedBy at one place.
BlockedAt(t, u, k, i) ==
    /\ inner.queue[k][i].txn = t
    /\ u # t
    /\ \/ Excludes(inner, k, i, u)
       \/ \E j \in 1 .. i - 1 : inner.queue[k][j].txn = u

\* A strict FIFO queue has more waits than the wait-for graph has edges, yet a
\* deadlock of the waits is one of the graph: the first of its members in a
\* queue waits for a holder, and who is behind it for that holder or for it.
LEMMA WaitsAreEdges ==
  ASSUME IInv, NEW C \in SUBSET Txns, \A t \in C : \E u \in C : BlockedBy(t, u)
  PROVE  Closed(inner, C)
<1>1. PICK s, w : s = inner /\ w = waiting
  OBVIOUS
<1>2. Sound(s, w) /\ Typed(s)
  BY <1>1 DEF IInv, Resting, Settled, Sound
<1>3. ASSUME NEW t \in C
      PROVE  \E u \in C, k \in Keys : \E i \in DOMAIN s.queue[k] : BlockedAt(t, u, k, i)
  BY <1>1, <1>3 DEF BlockedBy, BlockedAt
<1>4. SUFFICES ASSUME NEW t \in C PROVE \E u \in C : Edge(s, t, u)
  BY <1>1 DEF Closed
<1>5. PICK k \in Keys : \E i \in DOMAIN s.queue[k] : s.queue[k][i].txn = t
  BY <1>1, <1>3, <1>4 DEF BlockedAt
<1>6. PICK i \in DOMAIN s.queue[k] : s.queue[k][i].txn = t
  BY <1>5
<1>7. s.queue[k] \in Seq(Waiter) /\ DOMAIN s.queue[k] = 1 .. Len(s.queue[k])
      /\ Len(s.queue[k]) \in Nat
  BY <1>2 DEF Typed
<1>8. PICK f \in DOMAIN s.queue[k] :
         /\ s.queue[k][f].txn \in C
         /\ \A j \in DOMAIN s.queue[k] : s.queue[k][j].txn \in C => f <= j
  <2> DEFINE S == {j \in DOMAIN s.queue[k] : s.queue[k][j].txn \in C}
  <2>1. S \subseteq Nat /\ S # {}
    BY <1>4, <1>6, <1>7
  <2>2. PICK m \in S : \A n \in S : m <= n
    <3> HIDE DEF S
    <3> QED BY <2>1, HasMin
  <2> QED BY <2>2
<1>9. PICK v \in C : v = s.queue[k][f].txn
  BY <1>8
<1>10. PICK h \in C : h # v /\ Excludes(s, k, f, h)
  <2>1. PICK h \in C, j \in Keys : \E p \in DOMAIN s.queue[j] : BlockedAt(v, h, j, p)
    BY <1>3, <1>9
  <2>2. PICK p \in DOMAIN s.queue[j] : BlockedAt(v, h, j, p)
    BY <2>1
  <2>3. s.queue[j][p].txn = v /\ h # v
    BY <1>1, <2>2 DEF BlockedAt
  <2>4. j = k
    <3>1. Queued(s, j, v) /\ Queued(s, k, v)
      BY <1>9, <2>3 DEF Queued
    <3> QED BY <1>2, <3>1, QueuedFacts
  <2>5. p = f
    <3>1. p \in DOMAIN s.queue[k] /\ s.queue[k][p].txn = s.queue[k][f].txn
      BY <1>9, <2>3, <2>4
    <3> QED BY <1>2, <3>1 DEF Sound, QueuesMatch
  <2>6. ASSUME NEW g \in 1 .. f - 1, s.queue[k][g].txn = h PROVE FALSE
    <3>1. g \in DOMAIN s.queue[k] /\ ~(f <= g)
      BY <1>7
    <3> QED BY <1>8, <2>6, <3>1
  <2>7. Excludes(s, k, f, h)
    BY <1>1, <2>2, <2>4, <2>5, <2>6 DEF BlockedAt
  <2> QED BY <2>3, <2>7
<1>11. CASE i = f
  <2>1. Edge(s, t, h)
    BY <1>6, <1>9, <1>10, <1>11 DEF Edge
  <2> QED BY <2>1
<1>12. CASE i # f
  <2>1. f \in 1 .. i - 1
    <3>1. f <= i
      BY <1>4, <1>6, <1>8
    <3> QED BY <1>7, <1>12, <3>1
  <2>2. v # t
    <3>1. s.queue[k][i].txn = s.queue[k][f].txn => i = f
      BY <1>2 DEF Sound, QueuesMatch
    <3> QED BY <1>6, <1>9, <1>12, <3>1
  <2>3. CASE ~Compatible(s.queue[k][i].mode, s.queue[k][f].mode)
    <3>1. Edge(s, t, v)
      BY <1>6, <1>9, <2>1, <2>2, <2>3 DEF Edge
    <3> QED BY <3>1
  <2>4. CASE Compatible(s.queue[k][i].mode, s.queue[k][f].mode)
    <3>1. s.queue[k][i].mode = "Shared" /\ s.queue[k][f].mode = "Shared"
      BY <2>4 DEF Compatible
    <3>2. Excludes(s, k, i, h)
      BY <1>10, <3>1 DEF Excludes
    <3>3. h # t
      <4>1. Holds(s, k, t) => s.queue[k][i].mode = "Exclusive"
        BY <1>2, <1>6 DEF Sound, QueuesMatch
      <4> QED BY <1>10, <3>1, <4>1 DEF Excludes
    <3>4. Edge(s, t, h)
      BY <1>6, <3>2, <3>3 DEF Edge
    <3> QED BY <3>4
  <2> QED BY <2>3, <2>4
<1> QED BY <1>11, <1>12

\* Only a request with a deadline or a control expires (Impatient).
LEMMA ExpiredImpatient == Spec => [](expired \subseteq Impatient)
<1>1. Init => expired \subseteq Impatient
  BY DEF Init
<1>2. expired \subseteq Impatient /\ [Next]_vars => (expired \subseteq Impatient)'
  <2> SUFFICES ASSUME expired \subseteq Impatient, [Next]_vars
               PROVE  expired' \subseteq Impatient
    OBVIOUS
  <2>1. ASSUME NEW t \in Txns, Expire(t) PROVE expired' \subseteq Impatient
    BY <2>1 DEF Expire
  <2>2. ASSUME NEW t \in Txns, Wake(t) PROVE expired' \subseteq Impatient
    BY <2>2 DEF Wake, WaitGranted, WaitDoomed, WaitCancelled, StopWaiting
  <2>3. ASSUME NEW t \in Txns, NEW k \in Keys, NEW m \in Modes, Acquire(t, k, m)
        PROVE  expired' \subseteq Impatient
    BY <2>3 DEF Acquire, AcquireFree, AcquireWait
  <2>4. ASSUME NEW t \in Txns, NEW k \in Keys, Release(t, k) PROVE expired' \subseteq Impatient
    BY <2>4 DEF Release
  <2>5. ASSUME NEW t \in Txns, ReleaseAll(t) PROVE expired' \subseteq Impatient
    BY <2>5 DEF ReleaseAll
  <2>6. ASSUME UNCHANGED vars PROVE expired' \subseteq Impatient
    BY <2>6 DEF vars
  <2> QED BY <2>1, <2>2, <2>3, <2>4, <2>5, <2>6 DEF Next
<1> QED BY <1>1, <1>2, PTL DEF Spec

-----------------------------------------------------------------------------
\* The inductive invariant of the lock manager: whenever the mutex is free,
\* queues, holders, fates and the threads' waits agree, queued_waiters counts
\* exactly the queued, every queue is served and the wait-for graph is acyclic,
\* whatever acquire, release, release_all and the waiters did.
THEOREM LockInvariant == Spec => []IInv
BY InitIInv, NextIInv, PTL DEF Spec

\* Mutual exclusion: acquire and process_key never let two transactions hold a
\* key in modes that exclude each other.
THEOREM LocksExclude == Spec => []HoldersCompatible
<1>1. IInv => HoldersCompatible
  BY DEF IInv, Resting, Settled, Sound, Exclusion, HoldersCompatible
<1> QED BY <1>1, LockInvariant, PTL

\* wait_for_grant never takes something else for a grant: who is neither queued
\* nor doomed holds the mode it asked for.
THEOREM GrantsHold == Spec => []GrantsAreReal
<1>1. IInv => GrantsAreReal
  BY DEF IInv, Resting, Settled, Sound, Granted, GrantsAreReal, Running
<1> QED BY <1>1, LockInvariant, PTL

\* No lost grant: a queue whose front could be granted is one a doomed thread
\* has yet to serve.
THEOREM NoLostGrant == Spec => []GrantableHasWaker
<1>1. IInv => GrantableHasWaker
  BY DEF IInv, Resting, Settled, Served, GrantableHasWaker
<1> QED BY <1>1, LockInvariant, PTL

\* release_all finds through txn_keys all that a transaction has.
THEOREM NothingUntracked == Spec => []ReleaseAllFindsAll
<1>1. IInv => ReleaseAllFindsAll
  BY DEF IInv, Resting, Settled, Sound, Tracked, ReleaseAllFindsAll
<1> QED BY <1>1, LockInvariant, PTL

\* detect_deadlocks leaves no deadlock behind, whichever cycles it finds first
\* and although the FIFO queues have waits that the wait-for graph leaves out.
THEOREM NeverDeadlocked == Spec => []NoDeadlock
<1>1. IInv => NoDeadlock
  <2>1. SUFFICES ASSUME IInv, NEW C \in SUBSET Txns, C # {},
                        \A t \in C : \E u \in C : BlockedBy(t, u)
                 PROVE  FALSE
    BY DEF NoDeadlock
  <2>2. Closed(inner, C)
    BY <2>1, WaitsAreEdges
  <2> QED BY <2>1, <2>2 DEF IInv, Resting, Acyclic
<1> QED BY <1>1, LockInvariant, PTL

\* The fields of Inner keep their types; queued_waiters, which detect_deadlocks
\* trusts to skip its search, is a count of the transactions.
THEOREM LockTypes == Spec => []TypeOK
<1>1. IInv /\ expired \subseteq Impatient => TypeOK
  <2>1. SUFFICES ASSUME IInv, expired \subseteq Impatient PROVE TypeOK
    OBVIOUS
  <2>2. Typed(inner) /\ waiting \in Waits /\ Counted(inner)
    BY <2>1 DEF IInv, Resting, Settled, Sound
  <2>3. inner.queuedWaiters \in 0 .. Cardinality(Txns)
    <3>1. Cardinality(Members(inner)) <= Cardinality(Txns) /\ Cardinality(Txns) \in Nat
      BY MembersFinite, LockAssumption, FS_Subset, FS_CardinalityType
    <3> QED BY <2>2, <3>1, MembersFinite DEF Counted
  <2>4. \A k \in Keys : inner.queue[k] \in Seq([txn : Txns, mode : Modes])
    BY <2>2 DEF Typed, Waiter
  <2> QED BY <2>1, <2>2, <2>3, <2>4 DEF TypeOK, Typed, Waits
<1> QED BY <1>1, LockInvariant, ExpiredImpatient, PTL
=============================================================================
