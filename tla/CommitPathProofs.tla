-------------------------- MODULE CommitPathProofs --------------------------
(***************************************************************************)
(* The two shared structures every commit passes: the epoch clock          *)
(* (EpochAuthority), for any number of threads and tickets, and the        *)
(* group-commit coordinator (GroupCommit), for any set of committers and   *)
(* any number of markers.                                                  *)
(***************************************************************************)
EXTENDS EpochAuthority, GroupCommit, TLAPS

(***************************************************************************)
(* EpochAuthority.                                                         *)
(***************************************************************************)
\* Tickets in flight are owned by one thread and are not in the sets.
TicketsOwned ==
    /\ \A t \in Threads : InFlight(t) => ticket[t] \notin pending \cup abandoned
    /\ \A t, u \in Threads :
          InFlight(t) /\ InFlight(u) /\ t # u => ticket[t] # ticket[u]
    /\ \A t \in Threads : pc[t] # "idle" => ticket[t] >= 1

\* A published ticket that is still guarded is not the in-flight ticket of
\* another thread.
PublishedNotInFlight ==
    \A t, u \in Threads :
        pc[t] \in {"storing", "published"} /\ InFlight(u) => ticket[t] # ticket[u]

\* A watermark about to be stored covers no ticket in flight.
TargetsResolved ==
    \A t, u \in Threads :
        pc[t] \in {"storing", "dropping"} /\ InFlight(u) => target[t] < ticket[u]

\* The inductive invariant behind the safety properties.
IInv ==
    /\ TypeOK
    /\ TicketsOwned
    /\ PublishedNotInFlight
    /\ TargetsResolved
    /\ VisibleOnlyResolved

-----------------------------------------------------------------------------
\* EpochAuthority::new establishes the invariant.
LEMMA InitIInv == Init => IInv
BY EpochAssumptions
   DEF Init, IInv, TypeOK, TicketsOwned, PublishedNotInFlight, TargetsResolved,
       VisibleOnlyResolved, InFlight, PCs

\* The loop under the set locks consumes a run of epochs that are in the sets,
\* so it stops below every in-flight ticket.
LEMMA AbsorbFacts ==
    ASSUME IInv, NEW t \in Threads, NEW p \in SUBSET (1..assigned),
           NEW a \in SUBSET (1..assigned), Absorb(t, p, a)
    PROVE  /\ pending' \in SUBSET (1..assigned)
           /\ abandoned' \in SUBSET (1..assigned)
           /\ pending' \subseteq p
           /\ abandoned' \subseteq a
           /\ target' \in [Threads -> 0..assigned]
           /\ \A u \in Threads : u # t => target'[u] = target[u]
           /\ \A e \in Nat : e > visible /\ e \notin p \cup a => target'[t] < e
           /\ \A e \in p \cup a : e \notin pending' \cup abandoned' =>
                 e <= target'[t]
<1>1. PICK n \in visible..assigned :
         /\ ((visible + 1)..n) \subseteq (p \cup a)
         /\ pending' = p \ ((visible + 1)..n)
         /\ abandoned' = a \ (((visible + 1)..n) \ p)
         /\ target' = [target EXCEPT ![t] = n]
  BY DEF Absorb
<1>2. assigned \in Nat /\ visible \in Nat /\ n \in Nat
      /\ target \in [Threads -> 0..assigned]
  BY <1>1 DEF IInv, TypeOK
<1>3. target'[t] = n
  BY <1>1, <1>2
<1>4. \A e \in Nat : e > visible /\ e \notin p \cup a => n < e
  BY <1>1, <1>2
<1>5. \A e \in p \cup a : e \notin pending' \cup abandoned' => e <= n
  BY <1>1, <1>2
<1>6. target' \in [Threads -> 0..assigned]
  BY <1>1, <1>2
<1> QED
  BY <1>1, <1>2, <1>3, <1>4, <1>5, <1>6

\* Every action preserves the invariant.
LEMMA NextIInv == IInv /\ [Next]_vars => IInv'
<1> SUFFICES ASSUME IInv, [Next]_vars PROVE IInv'
  OBVIOUS
<1> USE EpochAssumptions
<1>1. ASSUME NEW t \in Threads, BumpAssigned(t) PROVE IInv'
  BY <1>1 DEF BumpAssigned, sets, IInv, TypeOK, TicketsOwned,
     PublishedNotInFlight, TargetsResolved, VisibleOnlyResolved, InFlight, PCs
<1>2. ASSUME NEW t \in Threads, ReleaseCommitLock(t) PROVE IInv'
  BY <1>2 DEF ReleaseCommitLock, clock, sets, IInv, TypeOK, TicketsOwned,
     PublishedNotInFlight, TargetsResolved, VisibleOnlyResolved, InFlight, PCs
<1>3. ASSUME NEW t \in Threads, PublishRaise(t) PROVE IInv'
  BY <1>3 DEF PublishRaise, sets, MaxOf, IInv, TypeOK, TicketsOwned,
     PublishedNotInFlight, TargetsResolved, VisibleOnlyResolved, InFlight, PCs
<1>4. ASSUME NEW t \in Threads, PublishAbsorb(t) PROVE IInv'
  <2> DEFINE p == pending \cup {ticket[t]}
  <2>0. ticket[t] \in 1..assigned
    <3>1. pc[t] # "idle"
      BY <1>4 DEF PublishAbsorb
    <3>2. assigned \in Nat /\ ticket[t] \in 0..assigned /\ ticket[t] >= 1
      BY <3>1 DEF IInv, TypeOK, TicketsOwned
    <3> QED
      BY <3>2
  <2>1. p \in SUBSET (1..assigned) /\ abandoned \in SUBSET (1..assigned)
    BY <2>0 DEF IInv, TypeOK
  <2>2. Absorb(t, p, abandoned)
    BY <1>4 DEF PublishAbsorb
  <2> HIDE DEF p
  <2>3. /\ pending' \in SUBSET (1..assigned)
        /\ abandoned' \in SUBSET (1..assigned)
        /\ pending' \subseteq p
        /\ abandoned' \subseteq abandoned
        /\ target' \in [Threads -> 0..assigned]
        /\ \A u \in Threads : u # t => target'[u] = target[u]
        /\ \A e \in Nat : e > visible /\ e \notin p \cup abandoned => target'[t] < e
    BY <2>1, <2>2, AbsorbFacts
  <2> USE DEF p
  <2>4. \A u \in Threads : u # t /\ InFlight(u) => ticket[u] \notin p \cup abandoned
    BY <1>4 DEF PublishAbsorb, IInv, TicketsOwned, InFlight
  <2>5. \A u \in Threads : InFlight(u)' => InFlight(u) /\ u # t /\ target'[t] < ticket[u]
    BY <1>4, <2>3, <2>4
       DEF PublishAbsorb, InFlight, IInv, TypeOK, VisibleOnlyResolved
  <2>6. TypeOK'
    BY <1>4, <2>3 DEF PublishAbsorb, clock, IInv, TypeOK, PCs
  <2>7. TicketsOwned'
    BY <1>4, <2>3, <2>4, <2>5
       DEF PublishAbsorb, clock, IInv, TypeOK, TicketsOwned, InFlight
  <2>8. PublishedNotInFlight'
    BY <1>4, <2>5
       DEF PublishAbsorb, clock, IInv, TypeOK, TicketsOwned, PublishedNotInFlight, InFlight
  <2>9. TargetsResolved'
    BY <1>4, <2>3, <2>5
       DEF PublishAbsorb, clock, IInv, TypeOK, TargetsResolved
  <2>10. VisibleOnlyResolved'
    BY <1>4, <2>5 DEF PublishAbsorb, clock, IInv, VisibleOnlyResolved
  <2> QED
    BY <2>6, <2>7, <2>8, <2>9, <2>10 DEF IInv
<1>5. ASSUME NEW t \in Threads, AbandonAbsorb(t) PROVE IInv'
  <2> DEFINE p == pending \ {ticket[t]}
             a == abandoned \cup {ticket[t]}
  <2>0. ticket[t] \in 1..assigned
    <3>1. pc[t] # "idle"
      BY <1>5 DEF AbandonAbsorb
    <3>2. assigned \in Nat /\ ticket[t] \in 0..assigned /\ ticket[t] >= 1
      BY <3>1 DEF IInv, TypeOK, TicketsOwned
    <3> QED
      BY <3>2
  <2>1. p \in SUBSET (1..assigned) /\ a \in SUBSET (1..assigned)
    BY <2>0 DEF IInv, TypeOK
  <2>2. Absorb(t, p, a)
    BY <1>5 DEF AbandonAbsorb
  <2> HIDE DEF p, a
  <2>3. /\ pending' \in SUBSET (1..assigned)
        /\ abandoned' \in SUBSET (1..assigned)
        /\ pending' \subseteq p
        /\ abandoned' \subseteq a
        /\ target' \in [Threads -> 0..assigned]
        /\ \A u \in Threads : u # t => target'[u] = target[u]
        /\ \A e \in Nat : e > visible /\ e \notin p \cup a => target'[t] < e
    BY <2>1, <2>2, AbsorbFacts
  <2> USE DEF p, a
  <2>4. \A u \in Threads : u # t /\ InFlight(u) => ticket[u] \notin p \cup a
    BY <1>5 DEF AbandonAbsorb, IInv, TicketsOwned, PublishedNotInFlight, InFlight
  <2>5. \A u \in Threads : InFlight(u)' => InFlight(u) /\ u # t /\ target'[t] < ticket[u]
    BY <1>5, <2>3, <2>4
       DEF AbandonAbsorb, InFlight, IInv, TypeOK, VisibleOnlyResolved
  <2>6. TypeOK'
    BY <1>5, <2>3 DEF AbandonAbsorb, clock, IInv, TypeOK, PCs
  <2>7. TicketsOwned'
    BY <1>5, <2>3, <2>4, <2>5
       DEF AbandonAbsorb, clock, IInv, TypeOK, TicketsOwned, InFlight
  <2>8. PublishedNotInFlight'
    BY <1>5, <2>5
       DEF AbandonAbsorb, clock, IInv, TypeOK, PublishedNotInFlight, InFlight
  <2>9. TargetsResolved'
    BY <1>5, <2>3, <2>5
       DEF AbandonAbsorb, clock, IInv, TypeOK, TargetsResolved
  <2>10. VisibleOnlyResolved'
    BY <1>5, <2>5 DEF AbandonAbsorb, clock, IInv, VisibleOnlyResolved
  <2> QED
    BY <2>6, <2>7, <2>8, <2>9, <2>10 DEF IInv
<1>6. ASSUME NEW t \in Threads, PublishVisible(t) PROVE IInv'
  BY <1>6 DEF PublishVisible, sets, MaxOf, IInv, TypeOK, TicketsOwned,
     PublishedNotInFlight, TargetsResolved, VisibleOnlyResolved, InFlight, PCs
<1>7. ASSUME NEW t \in Threads, Disarm(t) PROVE IInv'
  BY <1>7 DEF Disarm, clock, sets, IInv, TypeOK, TicketsOwned,
     PublishedNotInFlight, TargetsResolved, VisibleOnlyResolved, InFlight, PCs
<1>8. ASSUME NEW e \in 1..MaxEpoch, AdvanceRecovered(e) PROVE IInv'
  BY <1>8 DEF AdvanceRecovered, sets, MaxOf, IInv, TypeOK, TicketsOwned,
     PublishedNotInFlight, TargetsResolved, VisibleOnlyResolved, InFlight, PCs
<1>9. CASE UNCHANGED vars
  BY <1>9 DEF vars, IInv, TypeOK, TicketsOwned, PublishedNotInFlight,
     TargetsResolved, VisibleOnlyResolved, InFlight
<1> QED
  BY <1>1, <1>2, <1>3, <1>4, <1>5, <1>6, <1>7, <1>8, <1>9 DEF Next, Step

\* The invariant holds throughout.
LEMMA IInvAlways == Spec => []IInv
BY InitIInv, NextIInv, PTL DEF Spec

\* The counters, the two sets and the per-thread tickets keep their types; in
\* particular the watermark never overtakes the last ticket.
THEOREM TypeCorrect == Spec => []TypeOK
<1>1. IInv => TypeOK
  BY DEF IInv
<1> QED
  BY <1>1, IInvAlways, PTL

\* A reader's watermark never covers an epoch that is still in flight, whatever
\* the interleaving of publishers and abandoners.
THEOREM VisibleNeverCoversInFlight == Spec => []VisibleOnlyResolved
<1>1. IInv => VisibleOnlyResolved
  BY DEF IInv
<1> QED
  BY <1>1, IInvAlways, PTL

-----------------------------------------------------------------------------
\* Under the invariant no action forgets a resolved ticket.
LEMMA NextNoEpochLost == IInv /\ NoEpochLost /\ [Next]_vars => NoEpochLost'
<1> SUFFICES ASSUME IInv, NoEpochLost, [Next]_vars PROVE NoEpochLost'
  OBVIOUS
<1> USE EpochAssumptions
<1>1. ASSUME NEW t \in Threads, BumpAssigned(t) PROVE NoEpochLost'
  <2>1. assigned \in Nat /\ assigned' = assigned + 1
    BY <1>1 DEF BumpAssigned, IInv, TypeOK
  <2>2. InFlight(t)' /\ ticket'[t] = assigned + 1
    BY <1>1 DEF BumpAssigned, IInv, TypeOK, InFlight
  <2>3. \A u \in Threads : u # t => pc'[u] = pc[u] /\ ticket'[u] = ticket[u]
    BY <1>1 DEF BumpAssigned, IInv, TypeOK
  <2>4. pc[t] = "idle" /\ visible' = visible /\ target' = target
        /\ pending' = pending /\ abandoned' = abandoned
    BY <1>1 DEF BumpAssigned, sets
  <2>5. ASSUME NEW e \in 1..assigned'
        PROVE  \/ e <= visible'
               \/ e \in pending' \cup abandoned'
               \/ \E u \in Threads : InFlight(u)' /\ ticket'[u] = e
               \/ \E u \in Threads : pc'[u] \in {"storing", "dropping"} /\ e <= target'[u]
    <3>1. CASE e = assigned + 1
      BY <3>1, <2>2
    <3>2. CASE e \in 1..assigned
      BY <3>2, <2>3, <2>4 DEF NoEpochLost, InFlight
    <3> QED
      BY <3>1, <3>2, <2>1
  <2> QED
    BY <2>5 DEF NoEpochLost
<1>2. ASSUME NEW t \in Threads, ReleaseCommitLock(t) PROVE NoEpochLost'
  BY <1>2 DEF ReleaseCommitLock, clock, sets, NoEpochLost, InFlight
<1>3. ASSUME NEW t \in Threads, PublishRaise(t) PROVE NoEpochLost'
  BY <1>3 DEF PublishRaise, sets, NoEpochLost, InFlight, IInv, TypeOK
<1>4. ASSUME NEW t \in Threads, NEW p \in SUBSET (1..assigned),
             NEW a \in SUBSET (1..assigned), Absorb(t, p, a),
             pending \cup abandoned \cup {ticket[t]} \subseteq p \cup a,
             UNCHANGED <<clock, ticket>>, pc'[t] \in {"storing", "dropping"},
             pc[t] \notin {"storing", "dropping"},
             \A u \in Threads : u # t => pc'[u] = pc[u]
      PROVE  NoEpochLost'
  <2>1. /\ \A u \in Threads : u # t => target'[u] = target[u]
        /\ \A e \in p \cup a : e \notin pending' \cup abandoned' => e <= target'[t]
    BY <1>4, AbsorbFacts
  <2>2. assigned' = assigned /\ visible' = visible /\ ticket' = ticket
    BY <1>4 DEF clock
  <2>3. ASSUME NEW e \in 1..assigned
        PROVE  \/ e <= visible
               \/ e \in pending' \cup abandoned'
               \/ \E u \in Threads : InFlight(u)' /\ ticket[u] = e
               \/ \E u \in Threads : pc'[u] \in {"storing", "dropping"} /\ e <= target'[u]
    <3>1. CASE e <= visible
      BY <3>1
    <3>2. CASE e \in p \cup a
      BY <3>2, <2>1, <1>4
    <3>3. CASE \E u \in Threads : InFlight(u) /\ ticket[u] = e
      BY <3>2, <3>3, <1>4 DEF InFlight
    <3>4. CASE \E u \in Threads : pc[u] \in {"storing", "dropping"} /\ e <= target[u]
      <4>1. PICK u \in Threads : pc[u] \in {"storing", "dropping"} /\ e <= target[u]
        BY <3>4
      <4>2. u # t
        BY <4>1, <1>4
      <4> QED
        BY <4>1, <4>2, <2>1, <1>4
    <3> QED
      BY <3>1, <3>2, <3>3, <3>4, <1>4 DEF NoEpochLost
  <2> QED
    BY <2>2, <2>3 DEF NoEpochLost
<1>5. ASSUME NEW t \in Threads, PublishAbsorb(t) PROVE NoEpochLost'
  <2>1. ticket[t] \in 1..assigned /\ assigned \in Nat
    BY <1>5 DEF PublishAbsorb, IInv, TypeOK, TicketsOwned
  <2>2. /\ pending \cup {ticket[t]} \in SUBSET (1..assigned)
        /\ abandoned \in SUBSET (1..assigned)
    BY <2>1 DEF IInv, TypeOK
  <2>3. Absorb(t, pending \cup {ticket[t]}, abandoned)
    BY <1>5 DEF PublishAbsorb
  <2>4. /\ UNCHANGED <<clock, ticket>>
        /\ pc[t] \notin {"storing", "dropping"}
        /\ pc'[t] \in {"storing", "dropping"}
        /\ \A u \in Threads : u # t => pc'[u] = pc[u]
    BY <1>5 DEF PublishAbsorb, IInv, TypeOK
  <2> QED
    BY <2>2, <2>3, <2>4, <1>4
<1>6. ASSUME NEW t \in Threads, AbandonAbsorb(t) PROVE NoEpochLost'
  <2>1. ticket[t] \in 1..assigned /\ assigned \in Nat
    BY <1>6 DEF AbandonAbsorb, IInv, TypeOK, TicketsOwned
  <2>2. /\ pending \ {ticket[t]} \in SUBSET (1..assigned)
        /\ abandoned \cup {ticket[t]} \in SUBSET (1..assigned)
    BY <2>1 DEF IInv, TypeOK
  <2>3. Absorb(t, pending \ {ticket[t]}, abandoned \cup {ticket[t]})
    BY <1>6 DEF AbandonAbsorb
  <2>4. /\ UNCHANGED <<clock, ticket>>
        /\ pc[t] \notin {"storing", "dropping"}
        /\ pc'[t] \in {"storing", "dropping"}
        /\ \A u \in Threads : u # t => pc'[u] = pc[u]
    BY <1>6 DEF AbandonAbsorb, IInv, TypeOK
  <2> QED
    BY <2>2, <2>3, <2>4, <1>4
<1>7. ASSUME NEW t \in Threads, PublishVisible(t) PROVE NoEpochLost'
  <2>1. /\ assigned \in Nat /\ visible \in Nat
        /\ assigned' = assigned /\ ticket' = ticket /\ target' = target
        /\ pending' = pending /\ abandoned' = abandoned
        /\ target[t] \in Nat
        /\ visible' = MaxOf(visible, target[t])
        /\ ~InFlight(t)
        /\ \A u \in Threads : u # t => pc'[u] = pc[u]
    BY <1>7 DEF PublishVisible, sets, IInv, TypeOK, InFlight
  <2>2. visible' >= visible /\ visible' >= target[t] /\ visible' \in Nat
    BY <2>1 DEF MaxOf
  <2>3. ASSUME NEW e \in 1..assigned
        PROVE  \/ e <= visible'
               \/ e \in pending' \cup abandoned'
               \/ \E u \in Threads : InFlight(u)' /\ ticket'[u] = e
               \/ \E u \in Threads : pc'[u] \in {"storing", "dropping"} /\ e <= target'[u]
    <3>1. CASE e <= visible \/ e <= target[t]
      BY <3>1, <2>1, <2>2
    <3>2. CASE e \in pending \cup abandoned
      BY <3>2, <2>1
    <3>3. CASE \E u \in Threads : InFlight(u) /\ ticket[u] = e
      BY <3>3, <2>1 DEF InFlight
    <3>4. CASE \E u \in Threads : u # t /\ pc[u] \in {"storing", "dropping"} /\ e <= target[u]
      BY <3>4, <2>1
    <3> QED
      BY <3>1, <3>2, <3>3, <3>4 DEF NoEpochLost
  <2> QED
    BY <2>1, <2>3 DEF NoEpochLost
<1>8. ASSUME NEW t \in Threads, Disarm(t) PROVE NoEpochLost'
  BY <1>8 DEF Disarm, clock, sets, NoEpochLost, InFlight, IInv, TypeOK
<1>9. ASSUME NEW r \in 1..MaxEpoch, AdvanceRecovered(r) PROVE NoEpochLost'
  <2>1. /\ \A u \in Threads : pc[u] = "idle"
        /\ assigned \in Nat /\ visible \in Nat /\ r \in Nat
        /\ assigned' = MaxOf(assigned, r) /\ visible' = MaxOf(visible, r)
        /\ pending' = pending /\ abandoned' = abandoned
    BY <1>9 DEF AdvanceRecovered, sets, IInv, TypeOK
  <2>2. \A e \in 1..assigned : e <= visible \/ e \in pending \cup abandoned
    BY <2>1 DEF NoEpochLost, InFlight
  <2>3. \A e \in 1..assigned' : e <= visible' \/ e \in pending' \cup abandoned'
    BY <2>1, <2>2 DEF MaxOf
  <2> QED
    BY <2>3 DEF NoEpochLost
<1>10. CASE UNCHANGED vars
  BY <1>10 DEF vars, NoEpochLost, InFlight
<1> QED
  BY <1>1, <1>2, <1>3, <1>5, <1>6, <1>7, <1>8, <1>9, <1>10 DEF Next, Step

\* Every ticket handed out is visible, waiting in a set, in flight, or under a
\* watermark a thread is about to store: publish_in_order and abandon together
\* lose none, even when a publisher fails after publishing.
THEOREM NoTicketForgotten == Spec => []NoEpochLost
<1>1. Init => NoEpochLost
  BY EpochAssumptions DEF Init, NoEpochLost
<1> QED
  BY <1>1, NextNoEpochLost, IInvAlways, PTL DEF Spec

-----------------------------------------------------------------------------
\* Tickets that stay in flight, or stay out of flight, stay on the same side.
LEMMA ResolvedUnchanged ==
    ASSUME assigned' = assigned, ticket' = ticket,
           \A t \in Threads : InFlight(t)' <=> InFlight(t)
    PROVE  Resolved' = Resolved
BY DEF Resolved

\* A step that only resolves the in-flight ticket of t is an abstract Resolve.
LEMMA ResolveStep ==
    ASSUME IInv, NEW t \in Threads, InFlight(t), ~InFlight(t)',
           \A u \in Threads : u # t => (InFlight(u)' <=> InFlight(u)),
           UNCHANGED <<assigned, visible, ticket>>
    PROVE  Watermark!Resolve
<1>1. ticket[t] \in 1..assigned
  <2>1. assigned \in Nat /\ ticket[t] \in 0..assigned /\ ticket[t] >= 1
    BY DEF IInv, TypeOK, TicketsOwned, InFlight
  <2> QED
    BY <2>1
<1>2. ticket[t] \notin Resolved
  BY DEF Resolved
<1>3. \A u \in Threads : u # t /\ InFlight(u) => ticket[u] # ticket[t]
  BY DEF IInv, TicketsOwned
<1>4. Resolved' = Resolved \cup {ticket[t]}
  BY <1>1, <1>3 DEF Resolved
<1> QED
  BY <1>1, <1>2, <1>4 DEF Watermark!Resolve

\* Every step of the implementation is a step of the abstract watermark.
LEMMA StepRefines ==
    IInv /\ [Next]_vars => [Watermark!WatermarkNext]_(Watermark!wvars)
<1> SUFFICES ASSUME IInv, [Next]_vars
             PROVE  Watermark!WatermarkNext \/ UNCHANGED Watermark!wvars
  OBVIOUS
<1> USE EpochAssumptions DEF Watermark!wvars
<1>1. ASSUME NEW t \in Threads, BumpAssigned(t) PROVE Watermark!Assign
  <2>1. assigned \in Nat /\ assigned' = assigned + 1 /\ visible' = visible
    BY <1>1 DEF BumpAssigned, IInv, TypeOK
  <2>2. InFlight(t)' /\ ticket'[t] = assigned + 1 /\ ~InFlight(t)
    BY <1>1 DEF BumpAssigned, IInv, TypeOK, InFlight
  <2>3. \A u \in Threads : u # t =>
           /\ InFlight(u)' <=> InFlight(u)
           /\ ticket'[u] = ticket[u]
           /\ ticket[u] \in 0..assigned
    BY <1>1 DEF BumpAssigned, IInv, TypeOK, InFlight
  <2>4. \A e \in 1..assigned : e \in Resolved <=> e \in Resolved'
    BY <2>1, <2>2, <2>3 DEF Resolved
  <2>5. assigned + 1 \notin Resolved'
    BY <2>2 DEF Resolved
  <2>6. Resolved' \subseteq 1..(assigned + 1) /\ Resolved \subseteq 1..assigned
    BY <2>1 DEF Resolved
  <2>7. \A e \in 1..(assigned + 1) : e \in 1..assigned \/ e = assigned + 1
    BY <2>1
  <2>8. Resolved' = Resolved
    BY <2>4, <2>5, <2>6, <2>7
  <2> QED
    BY <2>1, <2>8 DEF Watermark!Assign
<1>2. ASSUME NEW t \in Threads, ReleaseCommitLock(t) PROVE UNCHANGED Watermark!wvars
  BY <1>2, ResolvedUnchanged DEF ReleaseCommitLock, clock, InFlight
<1>3. ASSUME NEW t \in Threads, PublishRaise(t) PROVE UNCHANGED Watermark!wvars
  <2>1. \A u \in Threads : InFlight(u)' <=> InFlight(u)
    BY <1>3 DEF PublishRaise, InFlight, IInv, TypeOK
  <2> QED
    BY <1>3, <2>1, ResolvedUnchanged DEF PublishRaise
<1>4. ASSUME NEW t \in Threads, PublishAbsorb(t) PROVE Watermark!Resolve
  <2>1. /\ InFlight(t) /\ ~InFlight(t)'
        /\ \A u \in Threads : u # t => (InFlight(u)' <=> InFlight(u))
    BY <1>4 DEF PublishAbsorb, InFlight, IInv, TypeOK
  <2> QED
    BY <1>4, <2>1, ResolveStep DEF PublishAbsorb, clock
<1>5. ASSUME NEW t \in Threads, AbandonAbsorb(t)
      PROVE  Watermark!Resolve \/ UNCHANGED Watermark!wvars
  <2>1. /\ ~InFlight(t)'
        /\ \A u \in Threads : u # t => (InFlight(u)' <=> InFlight(u))
        /\ UNCHANGED <<assigned, visible, ticket>>
    BY <1>5 DEF AbandonAbsorb, clock, InFlight, IInv, TypeOK
  <2>2. CASE InFlight(t)
    BY <2>1, <2>2, ResolveStep
  <2>3. CASE ~InFlight(t)
    BY <2>1, <2>3, ResolvedUnchanged
  <2> QED
    BY <2>2, <2>3
<1>6. ASSUME NEW t \in Threads, PublishVisible(t)
      PROVE  Watermark!Advance \/ UNCHANGED Watermark!wvars
  <2>1. /\ \A u \in Threads : InFlight(u)' <=> InFlight(u)
        /\ assigned' = assigned /\ ticket' = ticket
        /\ visible' = MaxOf(visible, target[t])
        /\ visible \in Nat /\ assigned \in Nat /\ target[t] \in 0..assigned
    BY <1>6 DEF PublishVisible, InFlight, IInv, TypeOK
  <2>2. Resolved' = Resolved
    BY <2>1, ResolvedUnchanged
  <2>3. CASE visible' = visible
    BY <2>1, <2>2, <2>3
  <2>4. CASE visible' # visible
    <3>1. visible' = target[t] /\ target[t] \in (visible + 1)..assigned
      BY <2>1, <2>4 DEF MaxOf
    <3>2. \A u \in Threads : InFlight(u) => target[t] < ticket[u]
      BY <1>6 DEF PublishVisible, IInv, TargetsResolved
    <3>3. \A u \in Threads : ticket[u] \in Nat
      BY DEF IInv, TypeOK
    <3>4. ((visible + 1)..target[t]) \subseteq Resolved
      BY <2>1, <3>1, <3>2, <3>3 DEF Resolved
    <3> QED
      BY <2>1, <2>2, <3>1, <3>4 DEF Watermark!Advance
  <2> QED
    BY <2>3, <2>4
<1>7. ASSUME NEW t \in Threads, Disarm(t) PROVE UNCHANGED Watermark!wvars
  <2>1. \A u \in Threads : InFlight(u)' <=> InFlight(u)
    BY <1>7 DEF Disarm, InFlight, IInv, TypeOK
  <2> QED
    BY <1>7, <2>1, ResolvedUnchanged DEF Disarm, clock
<1>8. ASSUME NEW r \in 1..MaxEpoch, AdvanceRecovered(r) PROVE Watermark!Recover
  <2>1. /\ \A u \in Threads : ~InFlight(u) /\ ~InFlight(u)'
        /\ assigned \in Nat /\ visible \in Nat /\ r \in Nat /\ visible <= assigned
        /\ assigned' = MaxOf(assigned, r) /\ visible' = MaxOf(visible, r)
    BY <1>8 DEF AdvanceRecovered, IInv, TypeOK, InFlight
  <2>2. Resolved = 1..assigned /\ Resolved' = 1..assigned'
    BY <2>1 DEF Resolved
  <2>3. assigned' \in Nat /\ assigned' >= assigned /\ visible' \in visible..assigned'
    BY <2>1 DEF MaxOf
  <2> QED
    BY <2>2, <2>3 DEF Watermark!Recover
<1>9. CASE UNCHANGED vars
  BY <1>9, ResolvedUnchanged DEF vars, InFlight
<1> QED
  BY <1>1, <1>2, <1>3, <1>4, <1>5, <1>6, <1>7, <1>8, <1>9
     DEF Next, Step, Watermark!WatermarkNext

\* The lock-and-atomics implementation of epoch.rs implements the abstract
\* watermark: tickets in order, resolution once, and a watermark that only moves
\* forward over resolved tickets.
THEOREM RefinesWatermark == Spec => ImplementsWatermark
<1>1. Init => Watermark!WatermarkInit
  BY EpochAssumptions DEF Init, Watermark!WatermarkInit, Resolved, InFlight
<1> QED
  BY <1>1, StepRefines, IInvAlways, PTL
     DEF Spec, ImplementsWatermark, Watermark!WatermarkSpec

-----------------------------------------------------------------------------
\* While no committer is a transaction, the commit lock serializes them all: its
\* holder owns the last ticket, every earlier epoch is visible, and a watermark
\* about to be stored is the last ticket.
LockedClock ==
    txns = {} =>
        /\ \A t \in Threads : pc[t] # "idle" => commitLock = t
        /\ \A t \in Threads :
              InFlight(t) => ticket[t] = assigned /\ visible = assigned - 1
        /\ \A t \in Threads : pc[t] \in {"storing", "dropping"} => target[t] = assigned
        /\ \A t \in Threads : pc[t] = "published" => visible = assigned
        /\ QuiescentCaughtUp
        /\ \A e \in pending \cup abandoned : e <= visible

\* Under the commit lock the loop finds the last ticket resolved and nothing
\* else above the watermark, so it consumes exactly that ticket.
LEMMA AbsorbReachesLast ==
    ASSUME IInv, NEW t \in Threads, NEW p \in SUBSET (1..assigned),
           NEW a \in SUBSET (1..assigned), Absorb(t, p, a),
           \/ visible = assigned
           \/ visible = assigned - 1 /\ assigned \in p /\ assigned \notin a
           \/ visible = assigned - 1 /\ assigned \in a /\ assigned \notin p,
           \A e \in p \cup a : e <= visible \/ e = assigned
    PROVE  /\ target'[t] = assigned
           /\ \A u \in Threads : u # t => target'[u] = target[u]
           /\ \A e \in pending' \cup abandoned' : e <= visible
<1>1. PICK n \in visible..assigned :
         /\ (n + 1) \notin (p \cup a)
         /\ pending' = p \ ((visible + 1)..n)
         /\ abandoned' = a \ (((visible + 1)..n) \ p)
         /\ target' = [target EXCEPT ![t] = n]
         /\ ((visible + 1)..n) \subseteq (p \cup a)
  BY DEF Absorb
<1>2. /\ assigned \in Nat /\ visible \in Nat /\ n \in Nat
      /\ target \in [Threads -> 0..assigned] /\ visible <= assigned
  BY <1>1 DEF IInv, TypeOK
<1>3. n = assigned
  BY <1>1, <1>2
<1>4. \A e \in pending' \cup abandoned' : e <= visible
  <2>1. CASE visible = assigned
    BY <2>1, <1>1, <1>2
  <2>2. CASE visible = assigned - 1
    <3>1. \A e \in p \cup a : e \in Nat /\ (e <= visible \/ e = assigned)
      OBVIOUS
    <3>2. assigned \in (visible + 1)..n
      BY <2>2, <1>2, <1>3
    <3>3. assigned \notin pending' \cup abandoned'
      BY <3>2, <1>1, <1>2, <2>2
    <3> QED
      BY <3>1, <3>3, <1>1
  <2> QED
    BY <2>1, <2>2
<1> QED
  BY <1>1, <1>2, <1>3, <1>4

\* Every action keeps the clock of lock-holding committers at its last ticket.
LEMMA NextLockedClock == IInv /\ LockedClock /\ [Next]_vars => LockedClock'
<1> SUFFICES ASSUME IInv, LockedClock, [Next]_vars, txns' = {}
             PROVE  /\ \A t \in Threads : pc'[t] # "idle" => commitLock' = t
                    /\ \A t \in Threads : InFlight(t)' =>
                          ticket'[t] = assigned' /\ visible' = assigned' - 1
                    /\ \A t \in Threads : pc'[t] \in {"storing", "dropping"} =>
                          target'[t] = assigned'
                    /\ \A t \in Threads : pc'[t] = "published" => visible' = assigned'
                    /\ QuiescentCaughtUp'
                    /\ \A e \in pending' \cup abandoned' : e <= visible'
  BY DEF LockedClock
<1> USE EpochAssumptions
<1>0. txns = {}
  BY DEF Next, Step, BumpAssigned, ReleaseCommitLock, PublishRaise, PublishAbsorb,
     AbandonAbsorb, PublishVisible, Disarm, AdvanceRecovered, vars
<1>a. /\ \A t \in Threads : pc[t] # "idle" => commitLock = t
      /\ \A t \in Threads : InFlight(t) => ticket[t] = assigned /\ visible = assigned - 1
      /\ \A t \in Threads : pc[t] \in {"storing", "dropping"} => target[t] = assigned
      /\ \A t \in Threads : pc[t] = "published" => visible = assigned
      /\ QuiescentCaughtUp
      /\ \A e \in pending \cup abandoned : e <= visible
  BY <1>0 DEF LockedClock
<1>b. /\ assigned \in Nat /\ visible \in Nat /\ visible <= assigned
      /\ pending \subseteq 1..assigned /\ abandoned \subseteq 1..assigned
      /\ pc \in [Threads -> PCs]
      /\ ticket \in [Threads -> 0..assigned] /\ target \in [Threads -> 0..assigned]
  BY DEF IInv, TypeOK
<1>1. ASSUME NEW t \in Threads, BumpAssigned(t) PROVE LockedClock'
  <2>1. \A u \in Threads : pc[u] = "idle"
    BY <1>1, <1>a DEF BumpAssigned
  <2>2. visible = assigned
    BY <2>1, <1>a DEF QuiescentCaughtUp
  <2> QED
    BY <1>1, <1>a, <1>b, <2>1, <2>2
       DEF BumpAssigned, sets, LockedClock, QuiescentCaughtUp, InFlight
<1>2. ASSUME NEW t \in Threads, ReleaseCommitLock(t) PROVE LockedClock'
  BY <1>2, <1>0 DEF ReleaseCommitLock
<1>3. ASSUME NEW t \in Threads, PublishRaise(t) PROVE LockedClock'
  BY <1>3, <1>a, <1>b DEF PublishRaise, sets, LockedClock, QuiescentCaughtUp, InFlight
<1>4. ASSUME NEW t \in Threads, NEW p \in SUBSET (1..assigned),
             NEW a \in SUBSET (1..assigned), Absorb(t, p, a),
             \/ visible = assigned
             \/ visible = assigned - 1 /\ assigned \in p /\ assigned \notin a
             \/ visible = assigned - 1 /\ assigned \in a /\ assigned \notin p,
             \A e \in p \cup a : e <= visible \/ e = assigned,
             UNCHANGED <<clock, ticket, commitLock>>, pc[t] # "idle",
             pc'[t] \in {"storing", "dropping"},
             \A u \in Threads : u # t => pc'[u] = pc[u]
      PROVE  LockedClock'
  <2>1. /\ target'[t] = assigned
        /\ \A u \in Threads : u # t => target'[u] = target[u]
        /\ \A e \in pending' \cup abandoned' : e <= visible
    BY <1>4, AbsorbReachesLast
  <2>2. \A u \in Threads : u # t => pc[u] = "idle"
    BY <1>4, <1>a
  <2> QED
    BY <1>4, <1>a, <2>1, <2>2 DEF clock, LockedClock, QuiescentCaughtUp, InFlight
<1>5. ASSUME NEW t \in Threads, PublishAbsorb(t) PROVE LockedClock'
  <2>1. ticket[t] = assigned /\ visible = assigned - 1
    BY <1>5, <1>a DEF PublishAbsorb, InFlight
  <2>2. assigned \in 1..assigned /\ assigned \notin abandoned
    BY <2>1, <1>a, <1>b
  <2>3. /\ pending \cup {ticket[t]} \in SUBSET (1..assigned)
        /\ abandoned \in SUBSET (1..assigned)
    BY <2>1, <2>2, <1>b
  <2>4. Absorb(t, pending \cup {ticket[t]}, abandoned)
    BY <1>5 DEF PublishAbsorb
  <2>5. /\ UNCHANGED <<clock, ticket, commitLock>> /\ pc[t] # "idle"
        /\ pc'[t] \in {"storing", "dropping"}
        /\ \A u \in Threads : u # t => pc'[u] = pc[u]
    BY <1>5, <1>b DEF PublishAbsorb
  <2>6. /\ \A e \in pending \cup {ticket[t]} \cup abandoned : e <= visible \/ e = assigned
        /\ assigned \in pending \cup {ticket[t]}
    BY <2>1, <1>a
  <2> QED
    BY <2>1, <2>2, <2>3, <2>4, <2>5, <2>6, <1>4
<1>6. ASSUME NEW t \in Threads, AbandonAbsorb(t) PROVE LockedClock'
  <2>1. ticket[t] \in 1..assigned
    BY <1>6, <1>b DEF AbandonAbsorb, IInv, TicketsOwned
  <2>2. /\ pending \ {ticket[t]} \in SUBSET (1..assigned)
        /\ abandoned \cup {ticket[t]} \in SUBSET (1..assigned)
    BY <2>1, <1>b
  <2>3. Absorb(t, pending \ {ticket[t]}, abandoned \cup {ticket[t]})
    BY <1>6 DEF AbandonAbsorb
  <2>4. /\ UNCHANGED <<clock, ticket, commitLock>> /\ pc[t] # "idle"
        /\ pc'[t] \in {"storing", "dropping"}
        /\ \A u \in Threads : u # t => pc'[u] = pc[u]
    BY <1>6, <1>b DEF AbandonAbsorb
  <2>5. \/ visible = assigned
        \/ visible = assigned - 1 /\ ticket[t] = assigned
    BY <1>6, <1>a DEF AbandonAbsorb, InFlight
  <2>6. \A e \in (pending \ {ticket[t]}) \cup (abandoned \cup {ticket[t]}) :
           e <= visible \/ e = assigned
    BY <2>1, <2>5, <1>a, <1>b
  <2> QED
    BY <2>2, <2>3, <2>4, <2>5, <2>6, <1>4
<1>7. ASSUME NEW t \in Threads, PublishVisible(t) PROVE LockedClock'
  <2>1. target[t] = assigned /\ visible' = assigned /\ assigned' = assigned
    BY <1>7, <1>a, <1>b DEF PublishVisible, MaxOf
  <2>2. \A u \in Threads : u # t => pc[u] = "idle" /\ pc'[u] = "idle"
    BY <1>7, <1>a, <1>b DEF PublishVisible
  <2>3. \/ pc'[t] = "published" /\ commitLock' = commitLock /\ commitLock = t
        \/ pc'[t] = "idle"
    BY <1>7, <1>a, <1>b DEF PublishVisible
  <2>4. /\ pending' = pending /\ abandoned' = abandoned
        /\ \A e \in pending \cup abandoned : e <= assigned
    BY <1>7, <1>b DEF PublishVisible, sets
  <2> QED
    BY <2>1, <2>2, <2>3, <2>4 DEF LockedClock, QuiescentCaughtUp, InFlight
<1>8. ASSUME NEW t \in Threads, Disarm(t) PROVE LockedClock'
  BY <1>8, <1>a, <1>b DEF Disarm, clock, sets, LockedClock, QuiescentCaughtUp, InFlight
<1>9. ASSUME NEW r \in 1..MaxEpoch, AdvanceRecovered(r) PROVE LockedClock'
  <2>1. visible = assigned
    BY <1>9, <1>a DEF AdvanceRecovered, QuiescentCaughtUp
  <2>2. visible' = assigned' /\ visible' >= visible
    BY <1>9, <1>b, <2>1 DEF AdvanceRecovered, MaxOf
  <2>3. visible' \in Nat
    BY <1>9, <1>b DEF AdvanceRecovered, MaxOf
  <2> QED
    BY <1>9, <1>a, <1>b, <2>2, <2>3
       DEF AdvanceRecovered, sets, LockedClock, QuiescentCaughtUp, InFlight
<1>10. ASSUME UNCHANGED vars PROVE LockedClock'
  BY <1>10, <1>a DEF vars, LockedClock, QuiescentCaughtUp, InFlight
<1>11. LockedClock'
  BY <1>1, <1>2, <1>3, <1>5, <1>6, <1>7, <1>8, <1>9, <1>10 DEF Next, Step
<1> QED
  BY <1>11 DEF LockedClock, QuiescentCaughtUp, InFlight

\* Committers that keep the commit lock until they have published never return
\* before their epoch is visible, whatever abandons came before them, and when
\* all have returned the watermark is the last ticket.
THEOREM LockedCommitsVisible == Spec => []LockedCommitVisible
<1>1. Init => LockedClock
  BY EpochAssumptions DEF Init, LockedClock, QuiescentCaughtUp, InFlight
<1>2. IInv /\ LockedClock => LockedCommitVisible
  BY DEF IInv, TypeOK, LockedClock, LockedCommitVisible
<1> QED
  BY <1>1, <1>2, NextLockedClock, IInvAlways, PTL DEF Spec

(***************************************************************************)
(* GroupCommit: what is acknowledged survives a crash, there is one        *)
(* leader, no wake-up is lost, and nothing is acknowledged once the        *)
(* coordinator is poisoned.                                                *)
(***************************************************************************)
\* The coordinator and a leader about to report never run ahead of the head.
Reported ==
    /\ durableSeq <= head
    /\ \A t \in Committers : place[t] = "synced" => synced <= head

\* The inductive invariant.  AckedDurable needs Reported, because a committer
\* believes durable_seq; Reported needs OneLeader, because a second sync would
\* overwrite what the first leader is about to report.
GroupIInv == GroupTypeOK /\ Reported /\ AckedDurable /\ OneLeader /\ SleeperHasLeader

\* The invariant holds when the coordinator is created.
LEMMA InitGroupIInv == GroupInit => GroupIInv
<1> SUFFICES ASSUME GroupInit PROVE GroupIInv
  OBVIOUS
<1>1. GroupTypeOK
  <2>1. /\ appended = 0 /\ head \in 0..appended
        /\ durableSeq \in Nat /\ synced \in Nat
        /\ acked \subseteq Nat
    BY DEF GroupInit
  <2>2. syncing \in BOOLEAN /\ poisoned \in BOOLEAN /\ place \in [Committers -> Places]
    BY DEF GroupInit, Places
  <2>3. seq \in [Committers -> 0..appended]
    BY <2>1 DEF GroupInit
  <2> QED BY <2>1, <2>2, <2>3 DEF GroupTypeOK
<1>2. Reported /\ AckedDurable
  BY DEF GroupInit, Reported, AckedDurable
<1>3. \A t \in Committers : place[t] = "idle" /\ ~Leader(t)
  BY DEF GroupInit, Leader
<1>4. OneLeader /\ SleeperHasLeader
  BY <1>3 DEF GroupInit, OneLeader, SleeperHasLeader
<1> QED BY <1>1, <1>2, <1>4 DEF GroupIInv

\* Everything but a change of leadership: the steps that leave syncing alone.
LEMMA QuietStep ==
  ASSUME GroupIInv, NEW t \in Committers,
         Append(t) \/ ReturnErr(t) \/ ReturnOk(t) \/ Sleep(t)
  PROVE  GroupIInv'
<1>1. CASE Append(t)
  <2>1. GroupTypeOK'
    BY <1>1 DEF GroupIInv, GroupTypeOK, Append, state, Places
  <2>2. Reported' /\ AckedDurable'
    BY <1>1 DEF GroupIInv, GroupTypeOK, Append, state, Reported, AckedDurable
  <2>3. OneLeader' /\ SleeperHasLeader'
    BY <1>1 DEF GroupIInv, GroupTypeOK, Append, state, OneLeader, SleeperHasLeader,
       Leader
  <2> QED BY <2>1, <2>2, <2>3 DEF GroupIInv
<1>2. CASE ReturnErr(t)
  <2>1. GroupTypeOK'
    <3>1. seq[t] \in Nat
      BY DEF GroupIInv, GroupTypeOK
    <3> QED BY <3>1, <1>2 DEF GroupIInv, GroupTypeOK, ReturnErr, state, log, Places
  <2>2. Reported' /\ AckedDurable'
    BY <1>2 DEF GroupIInv, GroupTypeOK, ReturnErr, state, log, Reported, AckedDurable
  <2>3. OneLeader' /\ SleeperHasLeader'
    BY <1>2 DEF GroupIInv, GroupTypeOK, ReturnErr, state, log, OneLeader,
       SleeperHasLeader, Leader
  <2> QED BY <2>1, <2>2, <2>3 DEF GroupIInv
<1>3. CASE ReturnOk(t)
  <2>1. GroupTypeOK'
    <3>1. seq[t] \in Nat
      BY DEF GroupIInv, GroupTypeOK
    <3> QED BY <3>1, <1>3 DEF GroupIInv, GroupTypeOK, ReturnOk, state, log, Places
  <2>2. Reported' /\ AckedDurable'
    BY <1>3 DEF GroupIInv, GroupTypeOK, ReturnOk, state, log, Reported, AckedDurable
  <2>3. OneLeader' /\ SleeperHasLeader'
    BY <1>3 DEF GroupIInv, GroupTypeOK, ReturnOk, state, log, OneLeader,
       SleeperHasLeader, Leader
  <2> QED BY <2>1, <2>2, <2>3 DEF GroupIInv
<1>4. CASE Sleep(t)
  <2>1. GroupTypeOK'
    BY <1>4 DEF GroupIInv, GroupTypeOK, Sleep, state, log, Places
  <2>2. Reported' /\ AckedDurable'
    BY <1>4 DEF GroupIInv, GroupTypeOK, Sleep, state, log, Reported, AckedDurable
  <2>3. OneLeader' /\ SleeperHasLeader'
    BY <1>4 DEF GroupIInv, GroupTypeOK, Sleep, state, log, OneLeader,
       SleeperHasLeader, Leader
  <2> QED BY <2>1, <2>2, <2>3 DEF GroupIInv
<1> QED BY <1>1, <1>2, <1>3, <1>4

\* The leader's steps: from taking the lead to the notification.
LEMMA LeaderStep ==
  ASSUME GroupIInv, NEW t \in Committers,
         Lead(t) \/ GroupSync(t) \/ GroupSyncFails(t) \/ LeaderDone(t) \/ LeaderFails(t)
  PROVE  GroupIInv'
<1>1. CASE Lead(t)
  <2>1. GroupTypeOK'
    BY <1>1 DEF GroupIInv, GroupTypeOK, Lead, log, Places
  <2>2. Reported' /\ AckedDurable'
    BY <1>1 DEF GroupIInv, GroupTypeOK, Lead, log, Reported, AckedDurable
  <2>3. OneLeader' /\ SleeperHasLeader'
    BY <1>1 DEF GroupIInv, GroupTypeOK, Lead, log, OneLeader, SleeperHasLeader, Leader
  <2> QED BY <2>1, <2>2, <2>3 DEF GroupIInv
<1>2. CASE GroupSync(t)
  <2>1. GroupTypeOK'
    BY <1>2 DEF GroupIInv, GroupTypeOK, GroupSync, state, Places
  <2>2. Reported'
    BY <1>2 DEF GroupIInv, GroupTypeOK, GroupSync, state, Reported, OneLeader, Leader
  <2>3. AckedDurable'
    BY <1>2 DEF GroupIInv, GroupTypeOK, GroupSync, state, AckedDurable
  <2>4. OneLeader' /\ SleeperHasLeader'
    BY <1>2 DEF GroupIInv, GroupTypeOK, GroupSync, state, OneLeader,
       SleeperHasLeader, Leader
  <2> QED BY <2>1, <2>2, <2>3, <2>4 DEF GroupIInv
<1>3. CASE GroupSyncFails(t)
  <2>1. GroupTypeOK'
    BY <1>3 DEF GroupIInv, GroupTypeOK, GroupSyncFails, state, Places
  <2>2. Reported' /\ AckedDurable'
    BY <1>3 DEF GroupIInv, GroupTypeOK, GroupSyncFails, state, Reported, AckedDurable
  <2>3. OneLeader' /\ SleeperHasLeader'
    BY <1>3 DEF GroupIInv, GroupTypeOK, GroupSyncFails, state, OneLeader,
       SleeperHasLeader, Leader
  <2> QED BY <2>1, <2>2, <2>3 DEF GroupIInv
<1>4. CASE LeaderDone(t)
  <2>1. GroupTypeOK'
    BY <1>4 DEF GroupIInv, GroupTypeOK, LeaderDone, WakeAll, log, Places, Raise
  <2>2. Reported' /\ AckedDurable'
    BY <1>4 DEF GroupIInv, GroupTypeOK, LeaderDone, WakeAll, log, Raise, Reported,
       AckedDurable
  <2>3. OneLeader' /\ SleeperHasLeader'
    BY <1>4 DEF GroupIInv, GroupTypeOK, LeaderDone, WakeAll, log, OneLeader,
       SleeperHasLeader, Leader
  <2> QED BY <2>1, <2>2, <2>3 DEF GroupIInv
<1>5. CASE LeaderFails(t)
  <2>1. GroupTypeOK'
    <3>1. seq[t] \in Nat
      BY DEF GroupIInv, GroupTypeOK
    <3> QED BY <3>1, <1>5 DEF GroupIInv, GroupTypeOK, LeaderFails, WakeAll, log, Places
  <2>2. Reported' /\ AckedDurable'
    BY <1>5 DEF GroupIInv, GroupTypeOK, LeaderFails, WakeAll, log, Reported,
       AckedDurable
  <2>3. OneLeader' /\ SleeperHasLeader'
    BY <1>5 DEF GroupIInv, GroupTypeOK, LeaderFails, WakeAll, log, OneLeader,
       SleeperHasLeader, Leader
  <2> QED BY <2>1, <2>2, <2>3 DEF GroupIInv
<1> QED BY <1>1, <1>2, <1>3, <1>4, <1>5

\* Every step, a crash included, preserves the invariant.
LEMMA NextGroupIInv == GroupIInv /\ [GroupNext]_groupVars => GroupIInv'
<1> SUFFICES ASSUME GroupIInv, [GroupNext]_groupVars PROVE GroupIInv'
  OBVIOUS
<1>1. CASE CrashReopen
  <2>1. GroupTypeOK'
    <3>0. acked' \subseteq Nat
      BY <1>1 DEF GroupIInv, GroupTypeOK, CrashReopen
    <3>1. /\ appended' \in Nat /\ head' \in 0..appended'
          /\ durableSeq' \in Nat /\ synced' \in Nat
      <4>1. head \in Nat /\ appended' = head /\ head' = head
        BY <1>1 DEF GroupIInv, GroupTypeOK, CrashReopen
      <4>2. durableSeq' = head /\ synced' = 0
        BY <1>1 DEF CrashReopen
      <4> QED BY <4>1, <4>2
    <3>2. syncing' \in BOOLEAN /\ poisoned' \in BOOLEAN /\ place' \in [Committers -> Places]
      BY <1>1 DEF CrashReopen, Places
    <3>3. seq' \in [Committers -> 0..appended']
      BY <1>1, <3>1 DEF CrashReopen
    <3> QED BY <3>0, <3>1, <3>2, <3>3 DEF GroupTypeOK
  <2>2. Reported' /\ AckedDurable'
    BY <1>1 DEF GroupIInv, GroupTypeOK, CrashReopen, Reported, AckedDurable
  <2>3. \A t \in Committers : ~Leader(t)' /\ place'[t] = "idle"
    BY <1>1 DEF CrashReopen, Leader
  <2>4. OneLeader' /\ SleeperHasLeader'
    BY <1>1, <2>3 DEF CrashReopen, OneLeader, SleeperHasLeader
  <2> QED BY <2>1, <2>2, <2>4 DEF GroupIInv
<1>2. CASE \E t \in Committers : Append(t) \/ AwaitDurable(t)
  BY <1>2, QuietStep, LeaderStep DEF AwaitDurable
<1>3. CASE UNCHANGED groupVars
  BY <1>3 DEF GroupIInv, GroupTypeOK, groupVars, Reported, AckedDurable, OneLeader,
     SleeperHasLeader, Leader
<1> QED BY <1>1, <1>2, <1>3 DEF GroupNext

\* The invariant holds throughout.
LEMMA GroupIInvAlways == GroupSpec => []GroupIInv
  BY InitGroupIInv, NextGroupIInv, PTL DEF GroupSpec

-----------------------------------------------------------------------------
\* A commit that await_durable answered with Ok survives a crash at any
\* later moment: the WAL head covers its marker.
THEOREM AcknowledgedSurvives == GroupSpec => []AckedDurable
<1>1. GroupIInv => AckedDurable
  BY DEF GroupIInv
<1> QED BY <1>1, GroupIInvAlways, PTL

\* At most one committer leads, and `syncing` is exactly that.
THEOREM LeaderUnique == GroupSpec => []OneLeader
<1>1. GroupIInv => OneLeader
  BY DEF GroupIInv
<1> QED BY <1>1, GroupIInvAlways, PTL

\* A sleeping committer always has a leader that will notify it.
THEOREM NoLostWakeUp == GroupSpec => []SleeperHasLeader
<1>1. GroupIInv => SleeperHasLeader
  BY DEF GroupIInv
<1> QED BY <1>1, GroupIInvAlways, PTL
=============================================================================
