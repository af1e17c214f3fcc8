----------------------------- MODULE TabletSplit -----------------------------
(***************************************************************************)
(* The tablet split protocol (crates/mongreldb-cluster/src/split.rs), as   *)
(* the node runtime drives it (runtime.rs) over the meta group (meta.rs).  *)
(*                                                                         *)
(* A split moves the rows of a source tablet to two children, one for each *)
(* half of its key range; a member of Keys stands for one half.  The       *)
(* driver keeps its progress in split.json and can stop between any two    *)
(* steps (crash, deadline, lost leadership); a later call of split_step or *)
(* abort_split goes on from the file.                                      *)
(*                                                                         *)
(* A meta command is an entry of the meta group's log.  A driver that gave *)
(* up waiting leaves it in `queue`, where it may still be applied, in log  *)
(* order, or be dropped by a change of leader.                             *)
(*                                                                         *)
(* Rows are written through the source's own raft group, whose leader may  *)
(* be another node: writes race the driver, and the driver's replica       *)
(* (`applied`) may lag behind the log.                                     *)
(***************************************************************************)
EXTENDS Integers, Sequences, FiniteSets, FiniteSetsExt

CONSTANTS
    Lower, Upper,   \* the two halves of the source's key range
    MaxSplits,      \* splits planned for the source
    MaxWrites,      \* entries of the source group's log
    Retention,      \* history_retention_epochs of the source's database
    MaxStops        \* crashes, deadlines and changes of leader

ASSUME TabletSplitAssumption ==
    /\ Lower # Upper
    /\ {MaxSplits, MaxWrites, MaxStops, Retention} \subseteq Nat

Keys == {Lower, Upper}
Attempts == 1..MaxSplits
Source == <<0, "source">>
Child(a, k) == <<a, k>>
Children == Attempts \X Keys
Tablets == {Source} \cup Children

NoRow == 0                  \* a half without rows
Values == {NoRow, 1}        \* what the rows of a half hold
Base == 1                   \* what they hold before the first write

States == {"Creating", "Active", "Splitting", "Retiring", "Retired"}
NoDesc == [state |-> "absent", gen |-> 0]
MaxGen == 2 * MaxSplits + 2
Descriptors == [state: States, gen: 1..MaxGen] \cup {NoDesc}

Phases == {"Started", "MarkedSplitting", "ChildrenCreated", "SnapshotPinned",
           "ChildrenBuilt", "CaughtUp", "Published"}
NoRecord == [attempt |-> 0, gen |-> 0, phase |-> "none"]
NoPin == [attempt |-> 0, at |-> 0]
NotRead == -1

VARIABLES
    meta,     \* descriptor of every tablet in the meta state
    queue,    \* meta commands proposed and not applied yet
    record,   \* split.json of the source: plan and last durable phase
    pin,      \* the durable snapshot pin of the driver's source replica
    log,      \* the source group's committed row writes
    applied,  \* entries of `log` the driver's replica has applied
    rows,     \* what every child holds
    todo,     \* the driver's remaining instructions, <<>> when it is idle
    waiting,  \* the driver awaits the command it proposed last
    splits,   \* splits planned so far
    splitTs,  \* split_ts of a plan without a pin: the entries stamped up to it
    stops,    \* crashes and timeouts so far
    hosted,   \* the driver's process runs the source's replica
    kept,     \* the replica keeps its history back to the pin
    gone,     \* the source's replica is torn down
    truth,    \* history: the last acknowledged write of every half
    readAt,   \* history: `applied` at the split's first catch-up read
    aborted,  \* history: the splits somebody began to abort
    undone,   \* history: halves whose published child was removed
    stray     \* history: a command was applied without its split's record

driver == <<todo, waiting>>
source == <<splitTs, hosted, kept>>
data == <<log, applied, truth>>
history == <<readAt, aborted, undone, stray>>
vars == <<meta, queue, record, pin, log, applied, rows, todo, waiting,
          splits, splitTs, stops, hosted, kept, gone, truth, readAt, aborted,
          undone, stray>>

(***************************************************************************)
(* Tablet states (tablet.rs) and the source's rows after n log entries.    *)
(***************************************************************************)
CanTransition(from, to) ==
    <<from, to>> \in {<<"Creating", "Active">>, <<"Creating", "Retired">>,
                      <<"Active", "Splitting">>, <<"Active", "Retiring">>,
                      <<"Splitting", "Active">>, <<"Splitting", "Retiring">>,
                      <<"Retiring", "Retired">>}

Routable(t) == meta[t].state \in {"Active", "Splitting"}

RowsAt(n) ==
    [k \in Keys |->
        LET W == {i \in 1..n : log[i].key = k}
        IN IF W = {} THEN Base ELSE log[Max(W)].value]

(***************************************************************************)
(* Meta commands and how the meta state machine applies them.              *)
(***************************************************************************)
Command(kind, t, state, gen) ==
    [kind |-> kind, tablet |-> t, attempt |-> record.attempt,
     desc |-> [state |-> state, gen |-> gen]]
SetTablet(t, state, gen) == Command("Set", t, state, gen)
RemoveTablet(t) == Command("Remove", t, "absent", meta[t].gen)
PublishSplit == Command("Publish", Source, "Retiring", record.gen + 2)

\* Last writer wins by generation.
AcceptsSet(c) ==
    c.desc.gen > meta[c.tablet].gen \/ c.desc = meta[c.tablet]

AcceptsRemove(c) == c.desc.gen >= meta[c.tablet].gen

\* Mutant: the publication leaves the source serving.
PublicationOfChildren(a, gen) ==
    [t \in Tablets |->
        IF t \in {Child(a, k) : k \in Keys}
        THEN [state |-> "Active", gen |-> gen] ELSE meta[t]]

\* What the publication of split a writes, and the precursors it requires.
Publication(a, gen) ==
    [t \in Tablets |->
        CASE t = Source -> [state |-> "Retiring", gen |-> gen]
          [] t \in {Child(a, k) : k \in Keys} ->
                [state |-> "Active", gen |-> gen]
          [] OTHER -> meta[t]]

\* Mutant: a publication replayed after a crash is refused.
AcceptsPublishOnce(c) ==
    /\ meta[Source] = [state |-> "Splitting", gen |-> c.desc.gen - 1]
    /\ \A k \in Keys :
         meta[Child(c.attempt, k)] =
            [state |-> "Creating", gen |-> c.desc.gen - 1]

AcceptsPublish(c) ==
    \/ meta = Publication(c.attempt, c.desc.gen)
    \/ /\ meta[Source] = [state |-> "Splitting", gen |-> c.desc.gen - 1]
       /\ \A k \in Keys :
            meta[Child(c.attempt, k)] =
                [state |-> "Creating", gen |-> c.desc.gen - 1]
       /\ \A t \in Children : t[1] # c.attempt => ~Routable(t)

Accepts(c) ==
    CASE c.kind = "Set" -> AcceptsSet(c)
      [] c.kind = "Remove" -> AcceptsRemove(c)
      [] c.kind = "Publish" -> AcceptsPublish(c)

Result(c) ==
    CASE c.kind = "Set" -> [meta EXCEPT ![c.tablet] = c.desc]
      [] c.kind = "Remove" -> [meta EXCEPT ![c.tablet] = NoDesc]
      [] c.kind = "Publish" -> Publication(c.attempt, c.desc.gen)

(***************************************************************************)
(* A driver's call is a list of instructions; each phase ends by saving    *)
(* itself in split.json.                                                   *)
(***************************************************************************)
Do(op) == <<op, "">>
On(op, k) == <<op, k>>
Save(phase) == <<"Save", phase>>

Step(phase) ==
    CASE phase = "Started" ->
            <<Do("Mark"), Save("MarkedSplitting")>>
      [] phase = "MarkedSplitting" ->
            <<On("Create", Lower), On("Create", Upper),
              Save("ChildrenCreated")>>
      [] phase = "ChildrenCreated" ->
            <<Do("Pin"), Save("SnapshotPinned")>>
      [] phase = "SnapshotPinned" ->
            <<Do("Pin"), On("Install", Lower), On("Install", Upper),
              Save("ChildrenBuilt")>>
      [] phase = "ChildrenBuilt" ->
            <<Do("Pin"), Do("Read"), Save("CaughtUp")>>
      [] phase = "CaughtUp" ->
            <<Do("Publish"), Save("Published"), Do("Unpin")>>
      [] phase = "Published" ->
            <<Do("Unpin"), Do("Retire"), Do("Drop"), Do("Teardown")>>

\* Mutant: the record is removed before the source is restored.
AbortForgetsEarly ==
    <<On("RemoveChild", Lower), On("RemoveChild", Upper), Do("Forget"),
      Do("Restore"), Do("TeardownChildren"), Do("Unpin")>>

Abort ==
    <<On("RemoveChild", Lower), On("RemoveChild", Upper), Do("Restore"),
      Do("TeardownChildren"), Do("Forget"), Do("Unpin")>>

Idle == todo = <<>>
Doing(op) == ~Idle /\ ~waiting /\ Head(todo)[1] = op
Arg == Head(todo)[2]
Advance == todo' = Tail(todo) /\ UNCHANGED waiting
Fail == todo' = <<>> /\ waiting' = FALSE
Propose(c) ==
    /\ queue' = Append(queue, c)
    /\ waiting' = TRUE
    /\ UNCHANGED todo
Skip == Advance /\ UNCHANGED queue
Refuse == Fail /\ UNCHANGED queue

Init ==
    /\ meta = [t \in Tablets |->
                IF t = Source THEN [state |-> "Active", gen |-> 1] ELSE NoDesc]
    /\ queue = <<>>
    /\ record = NoRecord
    /\ pin = NoPin
    /\ log = <<>>
    /\ applied = 0
    /\ rows = [t \in Children |-> NoRow]
    /\ todo = <<>>
    /\ waiting = FALSE
    /\ splits = 0
    /\ splitTs = 0
    /\ stops = 0
    /\ hosted = TRUE
    /\ kept = FALSE
    /\ gone = FALSE
    /\ truth = [k \in Keys |-> Base]
    /\ readAt = NotRead
    /\ aborted = {}
    /\ undone = {}
    /\ stray = FALSE

(***************************************************************************)
(* Calls: split_step (a fresh split, or the recorded one) and abort_split. *)
(***************************************************************************)
\* split_ts is the driver's clock: the source's leader, whose clock may be
\* ahead or behind, can have stamped fewer or more entries up to it.
BeginSplit ==
    /\ Idle
    /\ ~gone
    /\ hosted
    /\ record = NoRecord
    /\ meta[Source].state = "Active"
    /\ splits < MaxSplits
    /\ splits' = splits + 1
    /\ record' = [attempt |-> splits + 1, gen |-> meta[Source].gen,
                  phase |-> "Started"]
    /\ todo' = Step("Started")
    /\ readAt' = NotRead
    /\ splitTs' \in 0..MaxWrites
    /\ UNCHANGED <<meta, queue, pin, data, rows, waiting, stops, hosted, kept,
                   gone, aborted, undone, stray>>

\* Without a running replica the source is looked up in the meta state.
ResumeSplit ==
    /\ Idle
    /\ record # NoRecord
    /\ hosted \/ (meta[Source] # NoDesc /\ record.phase = "Published")
    /\ todo' = Step(record.phase)
    /\ UNCHANGED <<meta, queue, record, pin, data, rows, waiting, splits,
                   stops, source, gone, history>>

AbortSplit ==
    /\ Idle
    /\ ~gone
    /\ hosted
    /\ record.phase # "Published"
    /\ record # NoRecord \/ pin # NoPin
    /\ todo' = IF record = NoRecord THEN <<Do("Unpin")>> ELSE Abort
    /\ aborted' = IF record = NoRecord THEN aborted
                  ELSE aborted \cup {record.attempt}
    /\ UNCHANGED <<meta, queue, record, pin, data, rows, waiting, splits,
                   stops, source, gone, readAt, undone, stray>>

(***************************************************************************)
(* The split executor's instructions.                                      *)
(***************************************************************************)
ExecutesPlan == UNCHANGED <<meta, log, applied, truth, splits, stops, aborted,
                            undone, stray>>
Executes == ExecutesPlan /\ UNCHANGED <<splitTs, kept>>

SaveProgress ==
    /\ Doing("Save")
    /\ record' = [record EXCEPT !.phase = Arg]
    /\ Advance
    /\ Executes
    /\ UNCHANGED <<queue, pin, rows, hosted, gone, readAt>>

MarkSourceSplitting ==
    /\ Doing("Mark")
    /\ Propose(SetTablet(Source, "Splitting", record.gen + 1))
    /\ Executes
    /\ UNCHANGED <<record, pin, rows, hosted, gone, readAt>>

CreateChild ==
    /\ Doing("Create")
    /\ Propose(SetTablet(Child(record.attempt, Arg), "Creating",
                         record.gen + 1))
    /\ Executes
    /\ UNCHANGED <<record, pin, rows, hosted, gone, readAt>>


\* The epoch of split_ts on the driver's replica, or the current one when its
\* commit_ts ledger does not reach back that far (it is rebuilt from the WAL).
SplitEpoch == Min({splitTs, applied})
PinEpochs == {SplitEpoch, applied}

\* Whether the history of the replica still reaches back to an epoch.
Retained(epoch) == epoch >= applied - Retention

\* The first pin fixes the epoch and keeps the history from there on.  An
\* epoch no longer retained is refused, and so is a pin of another split.
PinSnapshot ==
    /\ Doing("Pin")
    /\ \E epoch \in PinEpochs :
       CASE pin = NoPin /\ Retained(epoch) ->
                /\ pin' = [attempt |-> record.attempt, at |-> epoch]
                /\ splitTs' = 0     \* not read again
                /\ kept' = TRUE
                /\ Skip
          [] pin # NoPin /\ pin.attempt = record.attempt
                /\ (kept \/ Retained(pin.at)) ->
                /\ kept' = TRUE
                /\ Skip
                /\ UNCHANGED <<pin, splitTs>>
          [] OTHER -> Refuse /\ UNCHANGED <<pin, splitTs, kept>>
    /\ ExecutesPlan
    /\ UNCHANGED <<record, rows, hosted, gone, readAt>>

\* Replace the child's rows by its half of the pinned snapshot.
InstallStaged ==
    /\ Doing("Install")
    /\ rows' = [rows EXCEPT ![Child(record.attempt, Arg)] =
                    RowsAt(pin.at)[Arg]]
    /\ Skip
    /\ Executes
    /\ UNCHANGED <<record, pin, hosted, gone, readAt>>

\* Mutant: rows deleted since the pin are not among the deltas.
DeltasUpserted ==
    {k \in Keys : /\ RowsAt(pin.at)[k] # RowsAt(applied)[k]
                  /\ RowsAt(applied)[k] # NoRow}

\* What differs between the pinned and the current rows of this replica.
Deltas ==
    {k \in Keys : RowsAt(pin.at)[k] # RowsAt(applied)[k]}

ReadDeltas ==
    /\ Doing("Read")
    /\ todo' = <<<<"Apply", [k \in Deltas |-> RowsAt(applied)[k]]>>>>
                  \o Tail(todo)
    /\ readAt' = IF readAt = NotRead THEN applied ELSE readAt
    /\ Executes
    /\ UNCHANGED <<queue, record, pin, rows, waiting, hosted, gone>>

\* One delta at a time; the halves are independent groups, in any order.
ApplyDelta ==
    /\ Doing("Apply")
    /\ IF DOMAIN Arg = {} THEN Skip /\ UNCHANGED rows
       ELSE \E k \in DOMAIN Arg :
              /\ rows' = [rows EXCEPT ![Child(record.attempt, k)] = Arg[k]]
              /\ todo' = <<<<"Apply", [j \in DOMAIN Arg \ {k} |-> Arg[j]]>>>>
                            \o Tail(todo)
              /\ UNCHANGED <<queue, waiting>>
    /\ Executes
    /\ UNCHANGED <<record, pin, hosted, gone, readAt>>

PublishChildren ==
    /\ Doing("Publish")
    /\ Propose(PublishSplit)
    /\ Executes
    /\ UNCHANGED <<record, pin, rows, hosted, gone, readAt>>

ReleaseSnapshot ==
    /\ Doing("Unpin")
    /\ pin' = NoPin
    /\ kept' = FALSE
    /\ Skip
    /\ ExecutesPlan
    /\ UNCHANGED <<record, rows, splitTs, hosted, gone, readAt>>

\* The local source group is shut down first.
RetireSource ==
    /\ Doing("Retire")
    /\ hosted' = FALSE
    /\ CASE meta[Source].state \in {"absent", "Retired"} -> Skip
          [] CanTransition(meta[Source].state, "Retired") ->
                Propose(SetTablet(Source, "Retired", meta[Source].gen + 1))
          [] OTHER -> Refuse
    /\ Executes
    /\ UNCHANGED <<record, pin, rows, gone, readAt>>

RemoveSource ==
    /\ Doing("Drop")
    /\ IF meta[Source] = NoDesc THEN Skip ELSE Propose(RemoveTablet(Source))
    /\ Executes
    /\ UNCHANGED <<record, pin, rows, hosted, gone, readAt>>

\* split.json goes with the source's directory.
TeardownSource ==
    /\ Doing("Teardown")
    /\ gone' = TRUE
    /\ record' = NoRecord
    /\ pin' = NoPin
    /\ kept' = FALSE
    /\ Skip
    /\ ExecutesPlan
    /\ UNCHANGED <<rows, splitTs, hosted, readAt>>

(***************************************************************************)
(* abort_split: meta first, then the local replicas, the record last.      *)
(***************************************************************************)
RemoveChild ==
    /\ Doing("RemoveChild")
    /\ LET t == Child(record.attempt, Arg) IN
         IF meta[t] = NoDesc THEN Skip ELSE Propose(RemoveTablet(t))
    /\ Executes
    /\ UNCHANGED <<record, pin, rows, hosted, gone, readAt>>

RestoreSource ==
    /\ Doing("Restore")
    /\ CASE meta[Source].state = "Active" -> Skip
          [] CanTransition(meta[Source].state, "Active") ->
                Propose(SetTablet(Source, "Active", meta[Source].gen + 1))
          [] OTHER -> Refuse
    /\ Executes
    /\ UNCHANGED <<record, pin, rows, hosted, gone, readAt>>

TeardownChildren ==
    /\ Doing("TeardownChildren")
    /\ rows' = [t \in Children |->
                    IF t[1] = record.attempt THEN NoRow ELSE rows[t]]
    /\ Skip
    /\ Executes
    /\ UNCHANGED <<record, pin, hosted, gone, readAt>>

ForgetSplit ==
    /\ Doing("Forget")
    /\ record' = NoRecord
    /\ splitTs' = 0
    /\ Skip
    /\ ExecutesPlan
    /\ UNCHANGED <<pin, rows, hosted, kept, gone, readAt>>

Execute ==
    \/ SaveProgress
    \/ MarkSourceSplitting
    \/ CreateChild
    \/ PinSnapshot
    \/ InstallStaged
    \/ ReadDeltas
    \/ ApplyDelta
    \/ PublishChildren
    \/ ReleaseSnapshot
    \/ RetireSource
    \/ RemoveSource
    \/ TeardownSource
    \/ RemoveChild
    \/ RestoreSource
    \/ TeardownChildren
    \/ ForgetSplit

(***************************************************************************)
(* The meta group, failures, and the clients.                              *)
(***************************************************************************)
Awaited == waiting /\ Len(queue) = 1

ApplyMeta ==
    /\ queue # <<>>
    /\ LET c == Head(queue) IN
        /\ meta' = IF Accepts(c) THEN Result(c) ELSE meta
        /\ IF ~Awaited THEN UNCHANGED driver
           ELSE IF Accepts(c) THEN todo' = Tail(todo) /\ waiting' = FALSE
           ELSE Fail
        /\ undone' = IF /\ c.kind = "Remove" /\ Accepts(c)
                        /\ meta[c.tablet].state = "Active"
                     THEN undone \cup {c.tablet[2]} ELSE undone
        /\ stray' = \/ stray
                    \/ /\ ~Awaited
                       /\ meta' # meta
                       /\ \/ c.attempt # record.attempt
                          \/ c.attempt \in aborted
    /\ queue' = Tail(queue)
    /\ UNCHANGED <<record, pin, data, rows, splits, stops, source, gone,
                   readAt, aborted>>

\* The driver's call ends: a deadline, a failed write, a fault, or a crash.
Stop ==
    /\ ~Idle
    /\ stops < MaxStops
    /\ stops' = stops + 1
    /\ Fail
    /\ UNCHANGED <<meta, queue, record, pin, data, rows, splits, source, gone,
                   history>>

\* One inside the pin: its file is written, the retention is not.
StopInPin ==
    /\ Doing("Pin")
    /\ pin = NoPin
    /\ stops < MaxStops
    /\ stops' = stops + 1
    /\ \E epoch \in PinEpochs :
         /\ Retained(epoch)
         /\ pin' = [attempt |-> record.attempt, at |-> epoch]
    /\ splitTs' = 0
    /\ Fail
    /\ UNCHANGED <<meta, queue, record, data, rows, splits, hosted, kept, gone,
                   history>>

\* The process starts again: it runs every replica it has a directory of and
\* keeps the history of a pin it finds.
Restart ==
    /\ Idle
    /\ ~gone
    /\ hosted' = TRUE
    /\ kept' = (kept \/ (pin # NoPin /\ Retained(pin.at)))
    /\ UNCHANGED <<meta, queue, record, pin, data, rows, driver, splits,
                   splitTs, stops, gone, history>>

\* A change of leader truncates the meta log, and the driver is told.
LoseProposals ==
    /\ queue # <<>>
    /\ stops < MaxStops
    /\ stops' = stops + 1
    /\ \E n \in 0..(Len(queue) - 1) : queue' = SubSeq(queue, 1, n)
    /\ IF waiting THEN Fail ELSE UNCHANGED driver
    /\ UNCHANGED <<meta, record, pin, data, rows, splits, source, gone,
                   history>>

\* The source's group takes a write whatever the descriptor's state is.
\* A write that leaves the rows as they are is left out.
WriteSource ==
    /\ ~gone
    /\ Len(log) < MaxWrites
    /\ \E k \in Keys, v \in Values :
         /\ v # RowsAt(Len(log))[k]
         /\ log' = Append(log, [key |-> k, value |-> v])
         /\ truth' = [truth EXCEPT ![k] = v]
    /\ UNCHANGED <<meta, queue, record, pin, applied, rows, driver, splits,
                   stops, source, gone, history>>

ReplicaApplies ==
    /\ ~gone /\ hosted
    /\ applied < Len(log)
    /\ applied' = applied + 1
    /\ UNCHANGED <<meta, queue, record, pin, log, truth, rows, driver, splits,
                   stops, source, gone, history>>

\* A client that read the published routes writes to a child.
WriteChild ==
    \E t \in Children, v \in Values :
        /\ meta[t].state = "Active"
        /\ v # rows[t]
        /\ rows' = [rows EXCEPT ![t] = v]
        /\ truth' = [truth EXCEPT ![t[2]] = v]
        /\ UNCHANGED <<meta, queue, record, pin, log, applied, driver, splits,
                       stops, source, gone, history>>

Next ==
    \/ BeginSplit
    \/ ResumeSplit
    \/ AbortSplit
    \/ Execute
    \/ ApplyMeta
    \/ Stop
    \/ StopInPin
    \/ Restart
    \/ LoseProposals
    \/ WriteSource
    \/ ReplicaApplies
    \/ WriteChild

Spec == Init /\ [][Next]_vars

\* The driver's call and the meta group go on.  Calls are the operator's.
Fairness == WF_vars(Execute) /\ WF_vars(ApplyMeta)

FairSpec == Spec /\ Fairness

(***************************************************************************)
(* Properties.                                                             *)
(***************************************************************************)
\* Type invariant: descriptors, commands, record, pin and rows have their
\* types, and a pinned epoch is one the driver's replica has reached.
TypeOK ==
    /\ meta \in [Tablets -> Descriptors]
    /\ \A i \in DOMAIN queue :
         /\ queue[i].kind \in {"Set", "Remove", "Publish"}
         /\ queue[i].tablet \in Tablets
         /\ queue[i].attempt \in Attempts
    /\ record \in [attempt: Attempts, gen: 1..MaxGen, phase: Phases]
                    \cup {NoRecord}
    /\ pin \in [attempt: Attempts, at: 0..applied] \cup {NoPin}
    /\ log \in Seq([key: Keys, value: Values]) /\ Len(log) <= MaxWrites
    /\ applied \in 0..Len(log)
    /\ rows \in [Children -> Values]
    /\ truth \in [Keys -> Values]
    /\ readAt \in {NotRead} \cup 0..applied
    /\ waiting => queue # <<>> /\ todo # <<>>
    /\ splits \in 0..MaxSplits /\ stops \in 0..MaxStops
    /\ splitTs \in 0..MaxWrites
    /\ {hosted, kept, gone, stray} \subseteq BOOLEAN
    /\ undone \subseteq Keys /\ aborted \subseteq Attempts

Owners(k) ==
    {t \in {Source} \cup {Child(a, k) : a \in Attempts} : Routable(t)}

Holds(t, k) == IF t = Source THEN RowsAt(Len(log))[k] ELSE rows[t]

\* Whatever stops, resumes, aborts and meta commands applied late do, two
\* tablets never serve one key, and one always does; the exception is an
\* abort that removes children whose publication its record does not show
\* (split.rs: publish_children, abort_split; meta.rs: apply_split_publish).
OneOwner ==
    \A k \in Keys : /\ Cardinality(Owners(k)) <= 1
                    /\ k \notin undone => Owners(k) # {}

\* Written to the source after the split's first catch-up read, or not yet
\* applied by the driver's replica then.
Late(k) == \E i \in (readAt + 1)..Len(log) : log[i].key = k

\* However often the build and the catch-up are interrupted and repeated, the
\* owner of a key holds its last acknowledged write, except for the writes
\* the catch-up did not see (split.rs: build_children, catch_up_children).
MovedWhole ==
    \A k \in Keys : \A t \in Owners(k) :
        (t # Source /\ Late(k)) \/ Holds(t, k) = truth[k]

\* split.rs: "zero data loss, zero duplication, and no routing window in
\* which a key is unserved or served by two owners".
ZeroDataLoss ==
    \A k \in Keys : \E t \in Owners(k) : Holds(t, k) = truth[k]

\* A split that no longer has a record left nothing behind: the source is
\* Active without children, or torn down with both children Active.  Meta
\* commands applied after their driver gave up are the exception
\* (split.rs: abort_split removes the record last; remove_source).
NoLeftovers ==
    record = NoRecord /\ ~stray =>
        \/ /\ meta[Source].state = "Active"
           /\ \A t \in Children : meta[t] = NoDesc
        \/ /\ gone /\ meta[Source] = NoDesc
           /\ \A t \in Children :
                meta[t].state = (IF t[1] = splits THEN "Active" ELSE "absent")

\* An operator that calls split_step again while a split is recorded, and
\* repeats an abort begun; nothing in the repository does it by itself.
OperatorRetries ==
    /\ WF_vars(ResumeSplit)
    /\ SF_vars(AbortSplit /\ record.attempt \in aborted)

\* The dead ends of a recorded split: an abort removed published children;
\* the crash of an earlier abort left the pin of another split, or the history
\* no longer reaches back to split_ts or to a pin whose retention was not
\* written (engine_sink.rs: pin_tablet_snapshot), so only an abort helps; the
\* source left the meta state while no replica of it runs (runtime.rs:
\* split_step), so only a restart of the process does.
DeadEnd ==
    \/ undone # {}
    \/ pin # NoPin /\ pin.attempt # record.attempt
    \/ /\ pin = NoPin /\ ~Retained(SplitEpoch)
       /\ record.phase \in {"Started", "MarkedSplitting", "ChildrenCreated"}
    \/ pin # NoPin /\ ~kept /\ ~Retained(pin.at)
    \/ ~hosted /\ meta[Source] = NoDesc

\* An operator that retries brings every split to its end, completed or
\* aborted, after any number of stops, unless it is in one of the dead ends.
EverySplitEnds ==
    OperatorRetries =>
        (record # NoRecord ~> record = NoRecord \/ DeadEnd)

=============================================================================
