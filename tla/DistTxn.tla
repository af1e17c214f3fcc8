------------------------------- MODULE DistTxn -------------------------------
(***************************************************************************)
(* Replicated two-phase commit (crates/mongreldb-cluster/src/dist_txn.rs). *)
(*                                                                         *)
(* A transaction has one coordinator record in the transaction-status      *)
(* group and one intent record in the group of every tablet it writes.     *)
(* The groups are replicated state machines: a proposal is put in `net`    *)
(* and the group applies it later, in any order, or never.                 *)
(* A command id names the protocol step; an entry whose id was applied     *)
(* before, even if it was refused, is skipped (state_machine.rs).  The     *)
(* group's memory of ids is taken as large enough for the run.             *)
(*                                                                         *)
(* Drivers hold no durable state.  Any driver may run any operation on any *)
(* transaction, and may stop in the middle (crash, deadline, no leader).   *)
(* One key stands for the rows a tablet owns, so two transactions conflict *)
(* at a tablet when both write it.  Record, intent and journal persist     *)
(* with the entry that changes them, so a replica's crash is invisible.    *)
(***************************************************************************)
EXTENDS Integers, FiniteSets

CONSTANTS
    Txns,           \* transaction ids
    Tablets,        \* tablets, each with its raft group
    WriteSets,      \* sets of tablets a request may write
    Drivers,        \* driver instances
    Clock,          \* readings the drivers' clocks can give to a prepare
    Times,          \* timestamps a decision can get
    Observed        \* max of the `observed` timestamps of a request, 0: none

ASSUME DistTxnAssumption ==
    /\ WriteSets \subseteq (SUBSET Tablets) \ {{}}
    /\ Clock \subseteq Nat \ {0}
    /\ Times \subseteq Nat \ {0}
    /\ Observed \subseteq Nat

VARIABLES
    writes,       \* the tablets each transaction's request writes
    state,        \* coordinator record: DistributedTxnState, "none" without one
    commitTs,     \*   commit_ts of a Committed record
    markTs,       \*   prepare_ts[tablet], 0 where no mark was recorded
    maxObserved,  \*   max_observed
    expired,      \*   whether `expiry` has passed
    intent,       \* intent record per tablet: "none", "held" or its resolution
    prepareTs,    \*   its prepare_ts, kept here after the record is swept
    applied,      \* <<t, p>>: the engine of p holds the rows t wrote there
    net,          \* proposals made and perhaps applied
    seen,         \* command ids the groups remember (recent_command_ids)
    refused,      \* command ids in the rejection journals
    drv,          \* what every driver is doing
    answers,      \* <<t, outcome>> returned to a client
    asked         \* history: what the commit requests of t had observed

record == <<state, commitTs, markTs, maxObserved, expired>>
participant == <<intent, prepareTs, applied>>
group == <<seen, refused>>
vars == <<writes, state, commitTs, markTs, maxObserved, expired, intent,
          prepareTs, applied, net, seen, refused, drv, answers, asked>>

Terminal == {"Committed", "Aborted"}
Live == {"Pending", "Preparing"}

(***************************************************************************)
(* Commands and their ids (command_id_for).                                *)
(***************************************************************************)
None == "none"
CommandId(kind, t, p) == <<kind, t, p>>

Id(m) ==
    CommandId(m.kind, m.txn,
              IF m.kind \in {"Mark", "Prepare", "Resolve"}
              THEN m.tablet ELSE None)

Begin(t, obs) == [kind |-> "Begin", txn |-> t, observed |-> obs]
MarkPreparing(t, p, ts, obs) ==
    [kind |-> "Mark", txn |-> t, tablet |-> p, ts |-> ts, observed |-> obs]
Commit(t, ts) == [kind |-> "Commit", txn |-> t, ts |-> ts]
Abort(t, by) == [kind |-> "Abort", txn |-> t, by |-> by]
PersistIntents(t, p, ts) ==
    [kind |-> "Prepare", txn |-> t, tablet |-> p, ts |-> ts]
Resolve(t, p, decision, ts) ==
    [kind |-> "Resolve", txn |-> t, tablet |-> p, decision |-> decision,
     ts |-> ts]

NoToken == -1

Later(x, y) == IF x < y THEN y ELSE x

-----------------------------------------------------------------------------
Idle == [pc |-> "idle"]

Init ==
    /\ writes \in [Txns -> WriteSets]
    /\ state = [t \in Txns |-> "none"]
    /\ commitTs = [t \in Txns |-> 0]
    /\ markTs = [t \in Txns |-> [p \in Tablets |-> 0]]
    /\ maxObserved = [t \in Txns |-> 0]
    /\ expired = [t \in Txns |-> FALSE]
    /\ intent = [t \in Txns |-> [p \in Tablets |-> "none"]]
    /\ prepareTs = [t \in Txns |-> [p \in Tablets |-> 0]]
    /\ applied = {}
    /\ net = {}
    /\ seen = {}
    /\ refused = {}
    /\ drv = [d \in Drivers |-> Idle]
    /\ answers = {}
    /\ asked = [t \in Txns |-> {}]

-----------------------------------------------------------------------------
(***************************************************************************)
(* The transaction-status group (TxnStatusApplySink::apply_command).  A    *)
(* group applies an entry unless it remembers the entry's id.              *)
(***************************************************************************)
Applied(m, rejected) ==
    /\ seen' = seen \cup {Id(m)}
    /\ refused' = IF rejected THEN refused \cup {Id(m)} ELSE refused
    /\ net' = {n \in net : Id(n) # Id(m)}

(* Begin: the first record stands, with what its request had observed. *)
ApplyBegin(m) ==
    LET t == m.txn IN
    /\ m.kind = "Begin"
    /\ Applied(m, FALSE)
    /\ IF state[t] = "none"
       THEN /\ state' = [state EXCEPT ![t] = "Pending"]
            /\ maxObserved' = [maxObserved EXCEPT ![t] = m.observed]
       ELSE UNCHANGED <<state, maxObserved>>
    /\ UNCHANGED <<writes, commitTs, markTs, expired, participant, drv,
                   answers, asked>>

ApplyMark(m) ==
    LET t == m.txn
        p == m.tablet
    IN
    /\ m.kind = "Mark"
    /\ Applied(m, state[t] \notin Live)
    /\ IF state[t] \in Live
       THEN /\ state' = [state EXCEPT ![t] = "Preparing"]
            /\ markTs' = [markTs EXCEPT ![t][p] = m.ts]
            /\ maxObserved' = [maxObserved EXCEPT
                                 ![t] = Later(@, m.observed)]
       ELSE UNCHANGED <<state, markTs, maxObserved>>
    /\ UNCHANGED <<writes, commitTs, expired, participant, drv, answers,
                   asked>>

(* commit_ts is validated again when the command is applied; a refusal     *)
(* (InvalidCommitTs) is remembered like any other.                         *)
ValidCommitTs(t, ts) ==
    /\ \A p \in Tablets : markTs[t][p] < ts
    /\ maxObserved[t] < ts

ApplyCommit(m) ==
    LET t  == m.txn
        ok == state[t] \in Live /\ ValidCommitTs(t, m.ts)
    IN
    /\ m.kind = "Commit"
    /\ Applied(m, ~ok)
    /\ IF ok
       THEN /\ state' = [state EXCEPT ![t] = "Committed"]
            /\ commitTs' = [commitTs EXCEPT ![t] = m.ts]
       ELSE UNCHANGED <<state, commitTs>>
    /\ UNCHANGED <<writes, markTs, maxObserved, expired, participant, drv,
                   answers, asked>>

\* Mutant: an abort overwrites a decision.
ApplyAbortAnyway(m) ==
    LET t == m.txn IN
    /\ m.kind = "Abort"
    /\ Applied(m, state[t] = "none")
    /\ state' = [state EXCEPT ![t] = IF @ = "none" THEN @ ELSE "Aborted"]
    /\ UNCHANGED <<writes, commitTs, markTs, maxObserved, expired,
                   participant, drv, answers, asked>>

ApplyAbort(m) ==
    LET t == m.txn IN
    /\ m.kind = "Abort"
    /\ Applied(m, state[t] \notin Live)
    /\ state' = [state EXCEPT ![t] = IF @ \in Live THEN "Aborted" ELSE @]
    /\ UNCHANGED <<writes, commitTs, markTs, maxObserved, expired, participant,
                   drv, answers, asked>>

(* A heartbeat renews the lease; its id holds the time, so none is skipped. *)
ApplyHeartbeat(t) ==
    /\ state[t] \in Live
    /\ expired' = [expired EXCEPT ![t] = FALSE]
    /\ UNCHANGED <<writes, state, commitTs, markTs, maxObserved, participant,
                   net, group, drv, answers, asked>>

(* The clocks pass the record's expiry. *)
Expire(t) ==
    /\ state[t] \in Live
    /\ ~expired[t]
    /\ expired' = [expired EXCEPT ![t] = TRUE]
    /\ UNCHANGED <<writes, state, commitTs, markTs, maxObserved, participant,
                   net, group, drv, answers, asked>>

-----------------------------------------------------------------------------
(***************************************************************************)
(* A participant's group (IntentApplySink).                                *)
(***************************************************************************)
ConflictingHolder(t, p) == \E u \in Txns \ {t} : intent[u][p] = "held"

(* `valid`: the expected schema and authorization versions are the group's *)
(* and the engine accepts the staged payload.                              *)
ApplyPersist(m, valid) ==
    LET t   == m.txn
        p   == m.tablet
        new == intent[t][p] = "none" /\ valid /\ ~ConflictingHolder(t, p)
    IN
    /\ m.kind = "Prepare"
    /\ Applied(m, ~new /\ intent[t][p] # "held")
    /\ IF new
       THEN /\ intent' = [intent EXCEPT ![t][p] = "held"]
            /\ prepareTs' = [prepareTs EXCEPT ![t][p] = m.ts]
       ELSE UNCHANGED <<intent, prepareTs>>
    /\ UNCHANGED <<writes, record, applied, drv, answers, asked>>

\* Mutant: a commit resolution counts as applied without staged intents.
ApplyResolveTombstone(m) ==
    LET t == m.txn
        p == m.tablet
    IN
    /\ m.kind = "Resolve"
    /\ Applied(m, FALSE)
    /\ intent' = [intent EXCEPT ![t][p] = m.decision]
    /\ applied' = applied \cup {<<t, p>>}
    /\ UNCHANGED <<writes, record, prepareTs, drv, answers, asked>>

(* A resolution without intents leaves a tombstone.  Two resolutions that  *)
(* differ stop the group (Corrupt): ResolutionsFollowRecord says it     *)
(* never happens, so the action has no such case.                          *)
ApplyResolve(m) ==
    LET t == m.txn
        p == m.tablet
    IN
    /\ m.kind = "Resolve"
    /\ Applied(m, FALSE)
    /\ intent[t][p] \in {"none", "held"} \cup {m.decision}
    /\ intent' = [intent EXCEPT ![t][p] = m.decision]
    /\ applied' = IF intent[t][p] = "held" /\ m.decision = "Committed"
                  THEN applied \cup {<<t, p>>} ELSE applied
    /\ UNCHANGED <<writes, record, prepareTs, drv, answers, asked>>

(* SweepResolved removes a tombstone older than the retention, which is    *)
(* longer than any prepare stays in flight (DEFAULT_RESOLVED_RETENTION).   *)
ApplySweep(t, p) ==
    /\ intent[t][p] \in Terminal
    /\ \A m \in net : Id(m) # CommandId("Prepare", t, p)
    /\ intent' = [intent EXCEPT ![t][p] = "none"]
    /\ UNCHANGED <<writes, record, prepareTs, applied, net, group, drv,
                   answers, asked>>

-----------------------------------------------------------------------------
(***************************************************************************)
(* Drivers (DistTxnDriver).                                                *)
(***************************************************************************)
Propose(ms) == net' = net \cup {m \in ms : Id(m) \notin seen}

Become(d, s) == drv' = [drv EXCEPT ![d] = s]

Busy(d, pc) == drv[d].pc = pc

(* broadcast_resolve: the record's decision to the given tablets. *)
Broadcast(t, ps) ==
    Propose({Resolve(t, p, state[t], commitTs[t]) : p \in ps})

Answer(t) == answers' = answers \cup {<<t, state[t]>>}

(* begin, the first step of commit, also of a retry, whose request may     *)
(* bring other observed timestamps than the one that made the record.      *)
StartCommit(d, t, obs) ==
    /\ Busy(d, "idle")
    /\ Propose({Begin(t, obs)})
    /\ Become(d, [pc |-> "begin", txn |-> t, observed |-> obs])
    /\ asked' = [asked EXCEPT ![t] = @ \cup {obs}]
    /\ UNCHANGED <<writes, record, participant, group, answers>>

(* commit after begin: a decided transaction is answered and broadcast     *)
(* again; the others prepare at every participant concurrently.            *)
BeginDone(d, ts) ==
    LET t == drv[d].txn IN
    /\ Busy(d, "begin")
    /\ CommandId("Begin", t, None) \in seen
    /\ IF state[t] \in Terminal
       THEN /\ Broadcast(t, writes[t])
            /\ Answer(t)
            /\ Become(d, Idle)
       ELSE /\ Propose({PersistIntents(t, p, ts) : p \in writes[t]})
            /\ Become(d, [pc |-> "prepare", txn |-> t,
                          observed |-> drv[d].observed,
                          tokens |-> [p \in Tablets |-> NoToken]])
            /\ UNCHANGED answers
    /\ UNCHANGED <<writes, record, participant, group, asked>>

\* Mutant: the token does not depend on the refusal journal and the record.
PrepareDoneUnchecked(d, p) ==
    LET t == drv[d].txn IN
    /\ Busy(d, "prepare")
    /\ p \in writes[t]
    /\ drv[d].tokens[p] = NoToken
    /\ CommandId("Prepare", t, p) \in seen
    /\ Become(d, [drv[d] EXCEPT !.tokens[p] = prepareTs[t][p]])
    /\ UNCHANGED <<writes, record, participant, net, group, answers, asked>>

(* A prepare returns a token: the stored record's prepare_ts. *)
PrepareDone(d, p) ==
    LET t == drv[d].txn IN
    /\ Busy(d, "prepare")
    /\ p \in writes[t]
    /\ drv[d].tokens[p] = NoToken
    /\ CommandId("Prepare", t, p) \in seen \ refused
    /\ intent[t][p] # "none"
    /\ Become(d, [drv[d] EXCEPT !.tokens[p] = prepareTs[t][p]])
    /\ UNCHANGED <<writes, record, participant, net, group, answers, asked>>

(* The first failure aborts: a refusal, no visible record, a deadline. *)
PrepareFails(d) ==
    LET t == drv[d].txn IN
    /\ Busy(d, "prepare")
    /\ \E p \in writes[t] : drv[d].tokens[p] = NoToken
    /\ Propose({Abort(t, "driver")})
    /\ Become(d, [pc |-> "abort", txn |-> t, targets |-> writes[t]])
    /\ UNCHANGED <<writes, record, participant, group, answers, asked>>

AllTokens(d) == \A p \in writes[drv[d].txn] : drv[d].tokens[p] # NoToken

(* q has the greatest prepare timestamp of the tokens. *)
Latest(d, q) ==
    \A p \in writes[drv[d].txn] : drv[d].tokens[p] <= drv[d].tokens[q]

(* mark_prepared, one participant after the other.  `todo` are left. *)
PreparesDone(d) ==
    LET t == drv[d].txn IN
    /\ Busy(d, "prepare")
    /\ AllTokens(d)
    /\ Cardinality(writes[t]) > 1
    /\ Become(d, [pc |-> "mark", txn |-> t, observed |-> drv[d].observed,
                  tokens |-> drv[d].tokens, todo |-> writes[t]])
    /\ UNCHANGED <<writes, record, participant, net, group, answers, asked>>

(* A mark carries the latest of the tokens and of what was observed. *)
MarkPrepared(d, p) ==
    LET t == drv[d].txn IN
    /\ Busy(d, "mark")
    /\ p \in drv[d].todo
    /\ \E q \in writes[t] :
         /\ Latest(d, q)
         /\ Propose({MarkPreparing(t, p, drv[d].tokens[p],
                                   Later(drv[d].tokens[q], drv[d].observed))})
    /\ Become(d, [pc |-> "marking", txn |-> t, observed |-> drv[d].observed,
                  tokens |-> drv[d].tokens, todo |-> drv[d].todo \ {p},
                  at |-> p])
    /\ UNCHANGED <<writes, record, participant, group, answers, asked>>

MarkDone(d) ==
    LET t == drv[d].txn IN
    /\ Busy(d, "marking")
    /\ CommandId("Mark", t, drv[d].at) \in seen \ refused
    /\ Become(d, [pc |-> "mark", txn |-> t, observed |-> drv[d].observed,
                  tokens |-> drv[d].tokens, todo |-> drv[d].todo])
    /\ UNCHANGED <<writes, record, participant, net, group, answers, asked>>

(* A refused or failed mark aborts. *)
MarkFails(d) ==
    LET t == drv[d].txn IN
    /\ Busy(d, "marking")
    /\ Propose({Abort(t, "driver")})
    /\ Become(d, [pc |-> "abort", txn |-> t, targets |-> writes[t]])
    /\ UNCHANGED <<writes, record, participant, group, answers, asked>>

\* Mutant: the timestamp is only later than the prepares.
DecideCommitTokensOnly(d, ts) ==
    LET t == drv[d].txn IN
    /\ \/ Busy(d, "mark") /\ drv[d].todo = {}
       \/ Busy(d, "prepare") /\ AllTokens(d) /\ Cardinality(writes[t]) = 1
    /\ \A p \in writes[t] : drv[d].tokens[p] < ts
    /\ Propose({Commit(t, ts)})
    /\ Become(d, [pc |-> "commit", txn |-> t, targets |-> writes[t]])
    /\ UNCHANGED <<writes, record, participant, group, answers, asked>>

(* decide_commit, after the marks or right away with one participant: a    *)
(* timestamp later than every token and than all this request observed     *)
(* (HlcClock::next_after).                                                 *)
DecideCommit(d, ts) ==
    LET t == drv[d].txn IN
    /\ \/ Busy(d, "mark") /\ drv[d].todo = {}
       \/ Busy(d, "prepare") /\ AllTokens(d) /\ Cardinality(writes[t]) = 1
    /\ \A p \in writes[t] : drv[d].tokens[p] < ts
    /\ drv[d].observed < ts
    /\ Propose({Commit(t, ts)})
    /\ Become(d, [pc |-> "commit", txn |-> t, targets |-> writes[t]])
    /\ UNCHANGED <<writes, record, participant, group, answers, asked>>

\* Mutant: the answer follows the driver's own proposal, not the record.
FinalizeByProposal(d) ==
    LET t == drv[d].txn IN
    /\ \/ Busy(d, "commit") /\ CommandId("Commit", t, None) \in seen
       \/ Busy(d, "abort") /\ CommandId("Abort", t, None) \in seen
    /\ IF state[t] \in Terminal
       THEN /\ Broadcast(t, drv[d].targets)
            /\ answers' = answers \cup
                 {<<t, IF Busy(d, "commit") THEN "Committed" ELSE "Aborted">>}
       ELSE UNCHANGED <<net, answers>>
    /\ Become(d, Idle)
    /\ UNCHANGED <<writes, record, participant, group, asked>>

(* finalize_decision, finalize_abort: once the proposal was applied (or    *)
(* skipped) the record is read back; it alone decides the answer.  A       *)
(* record still undecided is OutcomeAmbiguous: no answer.                  *)
Finalize(d) ==
    LET t == drv[d].txn IN
    /\ \/ Busy(d, "commit") /\ CommandId("Commit", t, None) \in seen
       \/ Busy(d, "abort") /\ CommandId("Abort", t, None) \in seen
    /\ IF state[t] \in Terminal
       THEN Broadcast(t, drv[d].targets) /\ Answer(t)
       ELSE UNCHANGED <<net, answers>>
    /\ Become(d, Idle)
    /\ UNCHANGED <<writes, record, participant, group, asked>>

(* DistTxnDriver::abort, the client's: no look at the record first. *)
StartAbort(d, t) ==
    /\ Busy(d, "idle")
    /\ Propose({Abort(t, "driver")})
    /\ Become(d, [pc |-> "abort", txn |-> t, targets |-> writes[t]])
    /\ UNCHANGED <<writes, record, participant, group, answers, asked>>

(* Every other operation starts with a linearizable read of the record.    *)
(* recover, push_expired and resolve_orphan broadcast a decision they find *)
(* (the last one to its own tablet only) and do not answer a client.       *)
Rebroadcast(d, t, ps) ==
    /\ Busy(d, "idle")
    /\ state[t] \in Terminal
    /\ Broadcast(t, ps)
    /\ UNCHANGED <<writes, record, participant, group, drv, answers, asked>>

(* recover of a live record: probe the participants next. *)
RecoverRead(d, t) ==
    /\ Busy(d, "idle")
    /\ state[t] \in Live
    /\ Become(d, [pc |-> "probe", txn |-> t, marks |-> markTs[t],
                  observed |-> maxObserved[t]])
    /\ UNCHANGED <<writes, record, participant, net, group, answers, asked>>

\* Mutant: recovery takes the recorded marks and forgets the probed prepares.
RecoverCommitMarks(d, ts) ==
    LET t == drv[d].txn IN
    /\ Busy(d, "probe")
    /\ \A p \in writes[t] : prepareTs[t][p] \in Clock
    /\ \A p \in Tablets : drv[d].marks[p] < ts
    /\ drv[d].observed < ts
    /\ Propose({Commit(t, ts)})
    /\ Become(d, [pc |-> "commit", txn |-> t, targets |-> writes[t]])
    /\ UNCHANGED <<writes, record, participant, group, answers, asked>>

(* Every participant showed unresolved intents, on some replica that may   *)
(* lag: drive the commit, later than all that was read.                    *)
RecoverCommit(d, ts) ==
    LET t == drv[d].txn IN
    /\ Busy(d, "probe")
    /\ \A p \in writes[t] : prepareTs[t][p] \in Clock /\ prepareTs[t][p] < ts
    /\ \A p \in Tablets : drv[d].marks[p] < ts
    /\ drv[d].observed < ts
    /\ Propose({Commit(t, ts)})
    /\ Become(d, [pc |-> "commit", txn |-> t, targets |-> writes[t]])
    /\ UNCHANGED <<writes, record, participant, group, answers, asked>>

(* push_expired, resolve_orphan, and recover with intents missing: a       *)
(* record read as expired is pushed, and then resolved at ps.              *)
PushExpired(d, t, ps) ==
    /\ Busy(d, "idle")
    /\ state[t] \in Live
    /\ expired[t]
    /\ Propose({Abort(t, "push")})
    /\ Become(d, [pc |-> "abort", txn |-> t, targets |-> ps])
    /\ UNCHANGED <<writes, record, participant, group, answers, asked>>

(* The driver stops: crash, cancellation, no leader within its rounds.     *)
GiveUp(d) ==
    /\ ~Busy(d, "idle")
    /\ Become(d, Idle)
    /\ UNCHANGED <<writes, record, participant, net, group, answers, asked>>

\* Mutant: the sweep only pushes and leaves decided transactions alone.
SweepOrphanPushOnly(d, t, p) ==
    /\ intent[t][p] = "held"
    /\ PushExpired(d, t, {p})

(* resolve_orphan, as sweep_orphans calls it on the intents of a tablet. *)
SweepOrphan(d, t, p) ==
    /\ intent[t][p] = "held"
    /\ Rebroadcast(d, t, {p}) \/ PushExpired(d, t, {p})

-----------------------------------------------------------------------------
StatusGroup ==
    \/ \E m \in net :
         ApplyBegin(m) \/ ApplyMark(m) \/ ApplyCommit(m) \/ ApplyAbort(m)
    \/ \E t \in Txns : ApplyHeartbeat(t) \/ Expire(t)

IntentGroup ==
    \/ \E m \in net : ApplyResolve(m)
    \/ \E m \in net, valid \in BOOLEAN : ApplyPersist(m, valid)
    \/ \E t \in Txns, p \in Tablets : ApplySweep(t, p)

Operation(d) ==
    \/ \E t \in Txns :
         \/ \E obs \in Observed : StartCommit(d, t, obs)
         \/ StartAbort(d, t)
         \/ RecoverRead(d, t)
         \/ Rebroadcast(d, t, writes[t])
         \/ PushExpired(d, t, writes[t])
    \/ \E t \in Txns, p \in Tablets : SweepOrphan(d, t, p)

Continue(d) ==
    \/ \E now \in Clock : BeginDone(d, now)
    \/ \E p \in Tablets : PrepareDone(d, p) \/ MarkPrepared(d, p)
    \/ PrepareFails(d) \/ PreparesDone(d) \/ MarkDone(d) \/ MarkFails(d)
    \/ \E ts \in Times : DecideCommit(d, ts) \/ RecoverCommit(d, ts)
    \/ Finalize(d)
    \/ GiveUp(d)

Next ==
    \/ StatusGroup
    \/ IntentGroup
    \/ \E d \in Drivers : Operation(d) \/ Continue(d)

(***************************************************************************)
(* Fairness: a group applies what was proposed to it; clocks advance past  *)
(* a lease nobody renews; every call of a driver ends (its deadline).      *)
(* Nothing starts an operation by itself: SweepsCalled below is what the   *)
(* embedding program may add.                                              *)
(***************************************************************************)
AbortApplied(t) == \E m \in net : m.txn = t /\ ApplyAbort(m)
ResolveApplied(t, p) ==
    \E m \in net : Id(m) = CommandId("Resolve", t, p) /\ ApplyResolve(m)

Fairness ==
    /\ \A t \in Txns : WF_vars(Expire(t)) /\ WF_vars(AbortApplied(t))
    /\ \A t \in Txns, p \in Tablets : WF_vars(ResolveApplied(t, p))
    /\ \A d \in Drivers : WF_vars(GiveUp(d))

Spec == Init /\ [][Next]_vars
FairSpec == Spec /\ Fairness

-----------------------------------------------------------------------------
States == Live \cup Terminal \cup {"none"}

\* Record, intents, engine rows and answers keep their shape: in particular
\* only a terminal record is ever answered to a client.
TypeOK ==
    /\ writes \in [Txns -> WriteSets]
    /\ state \in [Txns -> States]
    /\ commitTs \in [Txns -> Nat]
    /\ markTs \in [Txns -> [Tablets -> Nat]]
    /\ maxObserved \in [Txns -> Nat]
    /\ expired \in [Txns -> BOOLEAN]
    /\ intent \in [Txns -> [Tablets -> Terminal \cup {"none", "held"}]]
    /\ prepareTs \in [Txns -> [Tablets -> Clock \cup {0}]]
    /\ applied \subseteq Txns \X Tablets
    /\ answers \subseteq Txns \X Terminal
    /\ asked \in [Txns -> SUBSET Observed]

\* Every participant resolves the way the record was decided, and no resolve
\* command on its way says otherwise: apply_resolve never meets a conflicting
\* decision, which would stop the group for good (Corrupt).
ResolutionsFollowRecord ==
    /\ \A t \in Txns, p \in Tablets :
         intent[t][p] \in Terminal => state[t] = intent[t][p]
    /\ \A m \in net : m.kind = "Resolve" =>
         m.decision = state[m.txn] /\ m.ts = commitTs[m.txn]

\* A committed transaction has all of its writes: at every participant they
\* are still staged or already in the engine, whoever decided (the client's
\* driver, a retry, recovery) and whatever was swept since.
CommitIsWhole ==
    \A t \in Txns : state[t] = "Committed" =>
        \A p \in writes[t] : intent[t][p] = "held" \/ <<t, p>> \in applied

\* Two transactions never hold intents on one tablet's key (apply_persist,
\* first preparer wins).
IntentsExclude ==
    \A t, u \in Txns, p \in Tablets :
        intent[t][p] = "held" /\ intent[u][p] = "held" => t = u

\* What any driver told its caller is what the record says for ever: retries
\* and raced decisions converge (finalize_decision, finalize_abort).
AnswersAreFinal == \A a \in answers : state[a[1]] = a[2]

\* commit_ts is later than the prepare of every participant, also when
\* recovery decides before any mark was recorded, and than all the record
\* knows to be observed.
CommitTsAfterPrepares ==
    \A t \in Txns : state[t] = "Committed" =>
        /\ \A p \in writes[t] : prepareTs[t][p] < commitTs[t]
        /\ maxObserved[t] < commitTs[t]

\* The status group refuses a commit for its timestamp (its id is remembered
\* then, and no later commit of the transaction is applied) for one reason
\* only: the requests of the transaction disagree on what they observed, one
\* before and another at or after the timestamp.  Never for a prepare.
CommitRefusedOnlyIfObservedDiffer ==
    \A m \in net :
        m.kind = "Commit" /\ state[m.txn] \in Live
        /\ ~ValidCommitTs(m.txn, m.ts) =>
            /\ \A p \in Tablets : markTs[m.txn][p] < m.ts
            /\ \E x, y \in asked[m.txn] : x < m.ts /\ m.ts <= y

\* The commit timestamps are in order at both ends, whoever computed them from
\* whichever read of the record.
CommitTimestamps ==
    CommitTsAfterPrepares /\ CommitRefusedOnlyIfObservedDiffer

(* The abstract state: decisions, staged intents as locks, engine rows. *)
Decision ==
    [t \in Txns |-> IF state[t] \in Terminal THEN state[t] ELSE "none"]
Held == {x \in Txns \X Tablets : intent[x[1]][x[2]] = "held"}

Atomic == INSTANCE AtomicCommit
            WITH decision <- Decision, locks <- Held, rows <- applied

\* The protocol implements an atomic commit: one decision, a commit only
\* while every tablet is held, rows only from a tablet that was held.
ImplementsAtomicCommit == Atomic!AtomicSpec

\* The abort command was applied before the record existed: its id is used
\* up and the status group skips every later abort of the transaction.
AbortLost(t) ==
    /\ state[t] \notin Terminal
    /\ CommandId("Abort", t, None) \in seen

\* A program that calls sweep_orphans on every tablet again and again, and in
\* which no lease is renewed for ever.  The repository has no such caller
\* outside its tests.
SweepsCalled ==
    /\ \A t \in Txns, p \in Tablets :
         SF_vars(\E d \in Drivers : SweepOrphan(d, t, p))
    /\ <>[][\A t \in Txns : ~ApplyHeartbeat(t)]_vars

\* What calling sweep_orphans is good for: where it is called again and again,
\* staged intents do not stay, unless the abort that would release them was
\* lost.
OrphansResolved ==
    SweepsCalled =>
        \A t \in Txns, p \in Tablets :
            (intent[t][p] = "held") ~> (intent[t][p] # "held" \/ AbortLost(t))

\* What the module's documentation promises: an orphan whose record is not
\* terminal is pushed once its heartbeat expired, and then resolved.
EveryOrphanResolved ==
    SweepsCalled =>
        \A t \in Txns, p \in Tablets :
            (intent[t][p] = "held") ~> (intent[t][p] # "held")
=============================================================================
