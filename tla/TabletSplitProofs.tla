------------------------- MODULE TabletSplitProofs -------------------------
(***************************************************************************)
(* TabletSplit for any number of splits, writes and stops: a key never has *)
(* two owners and loses its owner only to an abort of published children,  *)
(* the owner holds what the catch-up saw, and a split without a record     *)
(* left nothing behind.                                                    *)
(***************************************************************************)
EXTENDS TabletSplit, SequenceTheorems, FiniteSetTheorems, TLAPS

(***************************************************************************)
(* The places of a driver's call, named after the next instruction.        *)
(***************************************************************************)
Labels == {"idle", "mark", "saveMarked", "createL", "createU", "saveCreated",
           "pin", "savePinned", "pinBuild", "installL", "installU",
           "saveBuilt", "pinRead", "read", "apply", "saveCaughtUp", "publish",
           "savePublished", "unpinRetire", "retire", "drop", "teardown",
           "removeL", "removeU", "restore", "wipe", "forget", "unpin"}

\* The next instruction at a place, with f for the deltas not applied yet.
Op(l) ==
    CASE l = "mark" -> "Mark"
      [] l \in {"saveMarked", "saveCreated", "savePinned", "saveBuilt",
                "saveCaughtUp", "savePublished"} -> "Save"
      [] l \in {"createL", "createU"} -> "Create"
      [] l \in {"pin", "pinBuild", "pinRead"} -> "Pin"
      [] l \in {"installL", "installU"} -> "Install"
      [] l = "read" -> "Read"
      [] l = "apply" -> "Apply"
      [] l = "publish" -> "Publish"
      [] l \in {"unpinRetire", "unpin"} -> "Unpin"
      [] l = "retire" -> "Retire"
      [] l = "drop" -> "Drop"
      [] l = "teardown" -> "Teardown"
      [] l \in {"removeL", "removeU"} -> "RemoveChild"
      [] l = "restore" -> "Restore"
      [] l = "wipe" -> "TeardownChildren"
      [] l = "forget" -> "Forget"
      [] OTHER -> "none"

Operand(l, f) ==
    CASE l = "saveMarked" -> "MarkedSplitting"
      [] l = "saveCreated" -> "ChildrenCreated"
      [] l = "savePinned" -> "SnapshotPinned"
      [] l = "saveBuilt" -> "ChildrenBuilt"
      [] l = "saveCaughtUp" -> "CaughtUp"
      [] l = "savePublished" -> "Published"
      [] l \in {"createL", "installL", "removeL"} -> Lower
      [] l \in {"createU", "installU", "removeU"} -> Upper
      [] l = "apply" -> f
      [] OTHER -> ""

\* The place after it.
Then(l) ==
    CASE l = "mark" -> "saveMarked"
      [] l = "createL" -> "createU"
      [] l = "createU" -> "saveCreated"
      [] l = "pin" -> "savePinned"
      [] l = "pinBuild" -> "installL"
      [] l = "installL" -> "installU"
      [] l = "installU" -> "saveBuilt"
      [] l = "pinRead" -> "read"
      [] l = "read" -> "saveCaughtUp"
      [] l = "apply" -> "saveCaughtUp"
      [] l = "publish" -> "savePublished"
      [] l = "savePublished" -> "unpin"
      [] l = "unpinRetire" -> "retire"
      [] l = "retire" -> "drop"
      [] l = "drop" -> "teardown"
      [] l = "removeL" -> "removeU"
      [] l = "removeU" -> "restore"
      [] l = "restore" -> "wipe"
      [] l = "wipe" -> "forget"
      [] l = "forget" -> "unpin"
      [] OTHER -> "idle"

\* The instructions left at a place: the phases of Step, and Abort, with
\* their suffixes.
Code(l, f) ==
    CASE l = "mark" -> Step("Started")
      [] l = "saveMarked" -> <<Save("MarkedSplitting")>>
      [] l = "createL" -> Step("MarkedSplitting")
      [] l = "createU" -> <<On("Create", Upper), Save("ChildrenCreated")>>
      [] l = "saveCreated" -> <<Save("ChildrenCreated")>>
      [] l = "pin" -> Step("ChildrenCreated")
      [] l = "savePinned" -> <<Save("SnapshotPinned")>>
      [] l = "pinBuild" -> Step("SnapshotPinned")
      [] l = "installL" ->
            <<On("Install", Lower), On("Install", Upper), Save("ChildrenBuilt")>>
      [] l = "installU" -> <<On("Install", Upper), Save("ChildrenBuilt")>>
      [] l = "saveBuilt" -> <<Save("ChildrenBuilt")>>
      [] l = "pinRead" -> Step("ChildrenBuilt")
      [] l = "read" -> <<Do("Read"), Save("CaughtUp")>>
      [] l = "apply" -> <<<<"Apply", f>>, Save("CaughtUp")>>
      [] l = "saveCaughtUp" -> <<Save("CaughtUp")>>
      [] l = "publish" -> Step("CaughtUp")
      [] l = "savePublished" -> <<Save("Published"), Do("Unpin")>>
      [] l = "unpinRetire" -> Step("Published")
      [] l = "retire" -> <<Do("Retire"), Do("Drop"), Do("Teardown")>>
      [] l = "drop" -> <<Do("Drop"), Do("Teardown")>>
      [] l = "teardown" -> <<Do("Teardown")>>
      [] l = "removeL" -> Abort
      [] l = "removeU" ->
            <<On("RemoveChild", Upper), Do("Restore"), Do("TeardownChildren"),
              Do("Forget"), Do("Unpin")>>
      [] l = "restore" ->
            <<Do("Restore"), Do("TeardownChildren"), Do("Forget"), Do("Unpin")>>
      [] l = "wipe" -> <<Do("TeardownChildren"), Do("Forget"), Do("Unpin")>>
      [] l = "forget" -> <<Do("Forget"), Do("Unpin")>>
      [] l = "unpin" -> <<Do("Unpin")>>
      [] OTHER -> <<>>

\* The deltas a driver at "apply" has still to apply.
Pending == IF Idle THEN <<>> ELSE Arg

At(l) == l \in Labels /\ todo = Code(l, Pending)

(***************************************************************************)
(* The inductive invariant: types.                                         *)
(***************************************************************************)
Recorded == record # NoRecord
Src == meta[Source]
Kid(k) == meta[Child(splits, k)]
KidRow(k) == rows[Child(splits, k)]
Up == {"Active", "Splitting"}
Later == {"ChildrenCreated", "SnapshotPinned", "ChildrenBuilt", "CaughtUp"}

Commands == [kind : {"Set", "Remove", "Publish"}, tablet : Tablets,
             attempt : Attempts,
             desc : [state : States \cup {"absent"}, gen : Nat]]

MetaTypes ==
    /\ meta \in [Tablets -> [state : States \cup {"absent"}, gen : Nat]]
    /\ \A t \in Tablets : meta[t].state = "absent" => meta[t] = NoDesc
    /\ \A t \in Children : meta[t].state \in {"absent", "Creating", "Active"}
    /\ Src.state # "Creating"

ControlTypes ==
    /\ splits \in 0..MaxSplits
    /\ \/ record = NoRecord
       \/ /\ record \in [attempt : Attempts, gen : Nat, phase : Phases]
          /\ record.attempt = splits
    /\ queue \in Seq(Commands)
    /\ waiting \in BOOLEAN /\ gone \in BOOLEAN /\ stray \in BOOLEAN
    /\ undone \subseteq Keys
    /\ gone => splits \in Attempts

Logs == Seq([key : Keys, value : Values])

DataTypes ==
    /\ log \in Logs
    /\ applied \in 0..Len(log)
    /\ rows \in [Children -> Values] /\ truth \in [Keys -> Values]
    /\ \/ pin = NoPin
       \/ pin.attempt \in Attempts /\ pin.at \in 0..applied
    /\ readAt = NotRead \/ readAt \in 0..applied

(***************************************************************************)
(* The meta commands still in the queue.                                   *)
(***************************************************************************)
Own(c) == c.attempt = record.attempt

OnSource(c, state) ==
    c.kind = "Set" /\ c.tablet = Source /\ c.desc.state = state
OnChild(c) == \E k \in Keys : c.tablet = Child(c.attempt, k)
IsMark(c) == OnSource(c, "Splitting")
IsRestore(c) == OnSource(c, "Active")
IsRetire(c) == OnSource(c, "Retired")
IsDrop(c) == c.kind = "Remove" /\ c.tablet = Source
IsCreate(c) == c.kind = "Set" /\ c.desc.state = "Creating" /\ OnChild(c)
IsUncreate(c) == c.kind = "Remove" /\ OnChild(c)
IsPublish(c) ==
    c.kind = "Publish" /\ c.tablet = Source /\ c.desc.state = "Retiring"

\* A mark or a restore can pass only in the state it was meant for.
MarkOK(c) ==
    /\ IsMark(c)
    /\ Own(c) => record.phase = "Started"
    /\ Src # NoDesc
    /\ c.desc.gen <= Src.gen + (IF Src.state = "Active" THEN 1 ELSE 0)

RestoreOK(c) ==
    /\ IsRestore(c)
    /\ Src # NoDesc
    /\ c.desc.gen <= Src.gen + (IF Src.state = "Splitting" THEN 1 ELSE 0)

RetireOK(c) ==
    /\ IsRetire(c)
    /\ record.phase = "Published"
    /\ \/ Src.state = "Retiring" /\ c.desc.gen = Src.gen + 1
       \/ Src = c.desc

DropOK(c) ==
    /\ IsDrop(c)
    /\ record.phase = "Published" \/ gone
    /\ Src.state \in {"Retired", "absent"}

CreateOK(c) ==
    /\ IsCreate(c)
    /\ Own(c) => record.phase = "MarkedSplitting"
    /\ meta[c.tablet].state # "Active"

\* A publication of an earlier split finds no children, and nothing in the
\* queue can create them.
PublishOK(c) ==
    /\ IsPublish(c)
    /\ Own(c) => record.phase = "CaughtUp" /\ c.desc.gen = record.gen + 2
    /\ ~Own(c) => \A k \in Keys : meta[Child(c.attempt, k)] = NoDesc
    /\ \A d \in Range(queue) : IsCreate(d) => d.attempt # c.attempt

Turn(c) ==
    /\ c.attempt \in 1..splits
    /\ Recorded /\ record.phase # "Started" => Own(c)
    /\ record.phase = "Published" \/ gone => IsRetire(c) \/ IsDrop(c)

CommandOK(c) ==
    /\ Turn(c)
    /\ \/ MarkOK(c)
       \/ RestoreOK(c)
       \/ RetireOK(c)
       \/ DropOK(c)
       \/ CreateOK(c)
       \/ IsUncreate(c)
       \/ PublishOK(c)

Queued == \A c \in Range(queue) : CommandOK(c)

\* Nothing but a removal of the source follows one.
DropsLast ==
    \A i, j \in DOMAIN queue :
        i < j /\ IsDrop(queue[i]) => IsDrop(queue[j])

(***************************************************************************)
(* Ownership, the record against the meta state, and what an undisturbed   *)
(* split leaves.                                                           *)
(***************************************************************************)
Owned ==
    /\ Src.state \in Up => \A t \in Children : meta[t].state # "Active"
    /\ \A t \in Children : meta[t].state = "Active" =>
         t[1] = splits /\ (gone \/ record.phase \in {"CaughtUp", "Published"})
    /\ Src.state \notin Up =>
         \A k \in Keys : k \in undone \/ Kid(k).state = "Active"
    /\ \A t \in Children : t[1] > splits => meta[t] = NoDesc

Progress ==
    /\ record.phase = "Published" \/ gone =>
         Src.state \notin Up /\ \A k \in Keys : Kid(k).state = "Active"
    /\ Src.state \notin Up => gone \/ record.phase \in {"CaughtUp", "Published"}
    /\ Src.state \in {"Retired", "absent"} => gone \/ record.phase = "Published"
    /\ Recorded /\ Src # NoDesc =>
         record.gen + (IF Src.state = "Active" THEN 0 ELSE 1) <= Src.gen
    /\ gone => record = NoRecord /\ Src = NoDesc

Clean ==
    ~stray =>
        /\ \A t \in Children :
             t[1] # splits \/ (~Recorded /\ ~gone) => meta[t] = NoDesc
        /\ ~Recorded /\ ~gone => Src.state = "Active"

(***************************************************************************)
(* What holds where the driver is.                                         *)
(***************************************************************************)
Undoing == {"removeL", "removeU", "restore", "wipe", "forget"}

Placed(l) ==
    /\ l \in {"mark", "saveMarked"} => record.phase = "Started"
    /\ l \in {"createL", "createU", "saveCreated"} =>
         record.phase = "MarkedSplitting"
    /\ l \in {"pin", "savePinned"} => record.phase = "ChildrenCreated"
    /\ l \in {"pinBuild", "installL", "installU", "saveBuilt"} =>
         record.phase = "SnapshotPinned"
    /\ l \in {"pinRead", "read", "apply", "saveCaughtUp"} =>
         record.phase = "ChildrenBuilt"
    /\ l \in {"publish", "savePublished"} => record.phase = "CaughtUp"
    /\ l \in {"unpinRetire", "retire", "drop", "teardown"} =>
         record.phase = "Published"
    /\ l \in Undoing =>
         record.phase \in Phases \ {"Published"} /\ record.attempt \in aborted
    /\ l = "unpin" => record.phase \in {"none", "Published"}

\* The command a driver waits for at a place.
Awaits(l, c) ==
    /\ Own(c)
    /\ \/ l = "mark" /\ IsMark(c)
       \/ l = "createL" /\ IsCreate(c)
       \/ l = "createU" /\ IsCreate(c)
       \/ l = "publish" /\ IsPublish(c)
       \/ l = "retire" /\ IsRetire(c)
       \/ l = "drop" /\ IsDrop(c)
       \/ l = "removeL" /\ IsUncreate(c) /\ c.tablet = Child(record.attempt, Lower)
       \/ l = "removeU" /\ IsUncreate(c) /\ c.tablet = Child(record.attempt, Upper)
       \/ l = "restore" /\ IsRestore(c)

\* The awaited command is the last of the queue, so that a proposal that
\* passed leaves the queue empty.
Waits(l) ==
    /\ waiting => queue # <<>> /\ Awaits(l, queue[Len(queue)])
    /\ l \in {"saveMarked", "saveCreated", "savePublished"} => queue = <<>>

Reached(l) ==
    /\ l = "savePublished" =>
         Src.state \notin Up /\ \A k \in Keys : Kid(k).state = "Active"
    /\ l = "drop" => Src.state \in {"Retired", "absent"}
    /\ l = "teardown" => Src = NoDesc
    /\ ~stray \/ record.phase \in Later =>
         /\ l \in {"removeU", "restore", "wipe", "forget"} => Kid(Lower) = NoDesc
         /\ l \in {"restore", "wipe", "forget"} => Kid(Upper) = NoDesc
    /\ l \in {"wipe", "forget"} =>
         Src.state \in Up /\ (~stray => Src.state = "Active")

Pinned(l) ==
    /\ \/ record.phase \in {"SnapshotPinned", "ChildrenBuilt", "CaughtUp"}
       \/ l = "savePinned"
       => pin.attempt = record.attempt
    /\ Recorded /\ record.phase \notin {"ChildrenBuilt", "CaughtUp", "Published"}
         => readAt = NotRead
    /\ \/ l \in {"apply", "saveCaughtUp"}
       \/ record.phase \in {"CaughtUp", "Published"}
       => readAt # NotRead

\* The rows of a half after n entries of the log w, and Late for that log.
Row(w, n, k) ==
    LET W == {i \in 1..n : w[i].key = k}
    IN IF W = {} THEN Base ELSE w[Max(W)].value

LateIn(w, r, k) == \E i \in (r + 1)..Len(w) : w[i].key = k

CaughtUp(k) == LateIn(log, readAt, k) \/ KidRow(k) = Row(log, readAt, k)

Built(k) == KidRow(k) = Row(log, pin.at, k) \/ (readAt # NotRead /\ CaughtUp(k))

CatchingUp(k) ==
    \/ LateIn(log, readAt, k)
    \/ k \in DOMAIN Pending /\ Pending[k] = Row(log, readAt, k)
    \/ k \notin DOMAIN Pending /\ KidRow(k) = Row(log, readAt, k)

\* What the children hold against the pinned rows, the rows of the first
\* catch-up read, and the acknowledged ones.
Copied(l) ==
    /\ l \in {"installU", "saveBuilt"} => KidRow(Lower) = Row(log, pin.at, Lower)
    /\ l = "saveBuilt" => KidRow(Upper) = Row(log, pin.at, Upper)
    /\ l = "apply" => \A k \in DOMAIN Pending : k \in Keys /\ Pending[k] \in Values
    /\ \A k \in Keys :
         /\ record.phase = "ChildrenBuilt" /\ Kid(k) # NoDesc => Built(k)
         /\ l = "apply" /\ Kid(k) # NoDesc => CatchingUp(k)
         /\ /\ l = "saveCaughtUp" \/ record.phase = "CaughtUp"
            /\ Kid(k).state = "Creating"
            => CaughtUp(k)

Served ==
    /\ \A t \in Children : meta[t].state = "Active" =>
         /\ readAt # NotRead
         /\ LateIn(log, readAt, t[2]) \/ rows[t] = truth[t[2]]
    /\ Src.state \in Up => \A k \in Keys : Row(log, Len(log), k) = truth[k]

Types == MetaTypes /\ ControlTypes /\ DataTypes

Global == Types /\ Queued /\ DropsLast /\ Owned /\ Progress /\ Clean /\ Served
Local(l) == Placed(l) /\ Waits(l) /\ Reached(l) /\ Pinned(l) /\ Copied(l)

IInv == Global /\ \E l \in Labels : At(l) /\ Local(l)

(***************************************************************************)
(* Tablets, and the driver's instructions.                                 *)
(***************************************************************************)
\* A child is named by its split and its half; the source is no child.
LEMMA TabletFacts ==
  /\ Source \in Tablets
  /\ \A t \in Children : /\ t \in Tablets /\ t # Source
                         /\ t[1] \in Attempts /\ t[2] \in Keys
                         /\ t = Child(t[1], t[2])
  /\ \A t \in Tablets : t = Source \/ t \in Children
  /\ \A a \in Attempts, k \in Keys :
       /\ Child(a, k) \in Children /\ Child(a, k) \in Tablets
       /\ Child(a, k) # Source /\ Child(a, k)[1] = a /\ Child(a, k)[2] = k
<1>1. \A t \in Children : t[1] \in Attempts /\ t[2] \in Keys /\ t = <<t[1], t[2]>>
  BY DEF Children
<1>2. \A a \in Attempts : a # 0
  BY TabletSplitAssumption DEF Attempts
<1>3. \A a \in Attempts, k \in Keys :
        <<a, k>> \in Children /\ <<a, k>>[1] = a /\ <<a, k>>[2] = k
  BY DEF Children
<1>4. Source[1] = 0
  BY DEF Source
<1>5. \A t \in Children : t # Source
  BY <1>1, <1>2, <1>4
<1> QED BY <1>1, <1>3, <1>5 DEF Tablets, Child

\* The two halves differ.
LEMMA KeyFacts == Keys = {Lower, Upper} /\ Lower # Upper
  BY TabletSplitAssumption DEF Keys

\* The instructions at a place: the first one, and the place of the rest.
LEMMA CodeFacts ==
  ASSUME NEW l \in Labels, NEW f, NEW g
  PROVE  /\ l = "idle" => Code(l, f) = <<>>
         /\ l # "idle" => /\ Code(l, f) # <<>>
                          /\ Head(Code(l, f)) = <<Op(l), Operand(l, f)>>
                          /\ Tail(Code(l, f)) = Code(Then(l), g)
         /\ Then(l) \in Labels \ {"apply"}
         /\ l # "apply" => Code(l, f) = Code(l, g)
<1>0. l # "apply" => Code(l, f) = Code(l, g)
  BY DEF Code
<1>1. CASE l = "idle"
  BY <1>0, <1>1 DEF Code, Then, Labels
<1>2. CASE l = "mark"
  <2>1. Code(l, f) = <<Do("Mark"), Save("MarkedSplitting")>>
    BY <1>2 DEF Code, Step
  <2>2. Then(l) = "saveMarked" /\ Op(l) = "Mark" /\ Operand(l, f) = ""
    BY <1>2 DEF Then, Op, Operand
  <2>3. Code(Then(l), g) = <<Save("MarkedSplitting")>>
    BY <2>2 DEF Code
  <2>4. /\ Code(l, f) # <<>> /\ Head(Code(l, f)) = Do("Mark")
        /\ Tail(Code(l, f)) = <<Save("MarkedSplitting")>>
    BY <2>1
  <2> QED BY <1>2, <1>0, <2>2, <2>3, <2>4 DEF Labels, Do, On, Save
<1>3. CASE l = "saveMarked"
  <2>1. Code(l, f) = <<Save("MarkedSplitting")>>
    BY <1>3 DEF Code
  <2>2. Then(l) = "idle" /\ Op(l) = "Save" /\ Operand(l, f) = "MarkedSplitting"
    BY <1>3 DEF Then, Op, Operand
  <2>3. Code(Then(l), g) = <<>>
    BY <2>2 DEF Code
  <2>4. /\ Code(l, f) # <<>> /\ Head(Code(l, f)) = Save("MarkedSplitting")
        /\ Tail(Code(l, f)) = <<>>
    BY <2>1
  <2> QED BY <1>3, <1>0, <2>2, <2>3, <2>4 DEF Labels, Do, On, Save
<1>4. CASE l = "createL"
  <2>1. Code(l, f) = <<On("Create", Lower), On("Create", Upper),
                        Save("ChildrenCreated")>>
    BY <1>4 DEF Code, Step
  <2>2. Then(l) = "createU" /\ Op(l) = "Create" /\ Operand(l, f) = Lower
    BY <1>4 DEF Then, Op, Operand
  <2>3. Code(Then(l), g) = <<On("Create", Upper), Save("ChildrenCreated")>>
    BY <2>2 DEF Code
  <2>4. /\ Code(l, f) # <<>> /\ Head(Code(l, f)) = On("Create", Lower)
        /\ Tail(Code(l, f)) = <<On("Create", Upper), Save("ChildrenCreated")>>
    BY <2>1
  <2> QED BY <1>4, <1>0, <2>2, <2>3, <2>4 DEF Labels, Do, On, Save
<1>5. CASE l = "createU"
  <2>1. Code(l, f) = <<On("Create", Upper), Save("ChildrenCreated")>>
    BY <1>5 DEF Code
  <2>2. Then(l) = "saveCreated" /\ Op(l) = "Create" /\ Operand(l, f) = Upper
    BY <1>5 DEF Then, Op, Operand
  <2>3. Code(Then(l), g) = <<Save("ChildrenCreated")>>
    BY <2>2 DEF Code
  <2>4. /\ Code(l, f) # <<>> /\ Head(Code(l, f)) = On("Create", Upper)
        /\ Tail(Code(l, f)) = <<Save("ChildrenCreated")>>
    BY <2>1
  <2> QED BY <1>5, <1>0, <2>2, <2>3, <2>4 DEF Labels, Do, On, Save
<1>6. CASE l = "saveCreated"
  <2>1. Code(l, f) = <<Save("ChildrenCreated")>>
    BY <1>6 DEF Code
  <2>2. Then(l) = "idle" /\ Op(l) = "Save" /\ Operand(l, f) = "ChildrenCreated"
    BY <1>6 DEF Then, Op, Operand
  <2>3. Code(Then(l), g) = <<>>
    BY <2>2 DEF Code
  <2>4. /\ Code(l, f) # <<>> /\ Head(Code(l, f)) = Save("ChildrenCreated")
        /\ Tail(Code(l, f)) = <<>>
    BY <2>1
  <2> QED BY <1>6, <1>0, <2>2, <2>3, <2>4 DEF Labels, Do, On, Save
<1>7. CASE l = "pin"
  <2>1. Code(l, f) = <<Do("Pin"), Save("SnapshotPinned")>>
    BY <1>7 DEF Code, Step
  <2>2. Then(l) = "savePinned" /\ Op(l) = "Pin" /\ Operand(l, f) = ""
    BY <1>7 DEF Then, Op, Operand
  <2>3. Code(Then(l), g) = <<Save("SnapshotPinned")>>
    BY <2>2 DEF Code
  <2>4. /\ Code(l, f) # <<>> /\ Head(Code(l, f)) = Do("Pin")
        /\ Tail(Code(l, f)) = <<Save("SnapshotPinned")>>
    BY <2>1
  <2> QED BY <1>7, <1>0, <2>2, <2>3, <2>4 DEF Labels, Do, On, Save
<1>8. CASE l = "savePinned"
  <2>1. Code(l, f) = <<Save("SnapshotPinned")>>
    BY <1>8 DEF Code
  <2>2. Then(l) = "idle" /\ Op(l) = "Save" /\ Operand(l, f) = "SnapshotPinned"
    BY <1>8 DEF Then, Op, Operand
  <2>3. Code(Then(l), g) = <<>>
    BY <2>2 DEF Code
  <2>4. /\ Code(l, f) # <<>> /\ Head(Code(l, f)) = Save("SnapshotPinned")
        /\ Tail(Code(l, f)) = <<>>
    BY <2>1
  <2> QED BY <1>8, <1>0, <2>2, <2>3, <2>4 DEF Labels, Do, On, Save
<1>9. CASE l = "pinBuild"
  <2>1. Code(l, f) = <<Do("Pin"), On("Install", Lower), On("Install",
                        Upper), Save("ChildrenBuilt")>>
    BY <1>9 DEF Code, Step
  <2>2. Then(l) = "installL" /\ Op(l) = "Pin" /\ Operand(l, f) = ""
    BY <1>9 DEF Then, Op, Operand
  <2>3. Code(Then(l), g) = <<On("Install", Lower), On("Install", Upper),
                              Save("ChildrenBuilt")>>
    BY <2>2 DEF Code
  <2>4. /\ Code(l, f) # <<>> /\ Head(Code(l, f)) = Do("Pin")
        /\ Tail(Code(l, f)) = <<On("Install", Lower), On("Install", Upper),
                              Save("ChildrenBuilt")>>
    BY <2>1
  <2> QED BY <1>9, <1>0, <2>2, <2>3, <2>4 DEF Labels, Do, On, Save
<1>10. CASE l = "installL"
  <2>1. Code(l, f) = <<On("Install", Lower), On("Install", Upper),
                        Save("ChildrenBuilt")>>
    BY <1>10 DEF Code
  <2>2. Then(l) = "installU" /\ Op(l) = "Install" /\ Operand(l, f) = Lower
    BY <1>10 DEF Then, Op, Operand
  <2>3. Code(Then(l), g) = <<On("Install", Upper), Save("ChildrenBuilt")>>
    BY <2>2 DEF Code
  <2>4. /\ Code(l, f) # <<>> /\ Head(Code(l, f)) = On("Install", Lower)
        /\ Tail(Code(l, f)) = <<On("Install", Upper), Save("ChildrenBuilt")>>
    BY <2>1
  <2> QED BY <1>10, <1>0, <2>2, <2>3, <2>4 DEF Labels, Do, On, Save
<1>11. CASE l = "installU"
  <2>1. Code(l, f) = <<On("Install", Upper), Save("ChildrenBuilt")>>
    BY <1>11 DEF Code
  <2>2. Then(l) = "saveBuilt" /\ Op(l) = "Install" /\ Operand(l, f) = Upper
    BY <1>11 DEF Then, Op, Operand
  <2>3. Code(Then(l), g) = <<Save("ChildrenBuilt")>>
    BY <2>2 DEF Code
  <2>4. /\ Code(l, f) # <<>> /\ Head(Code(l, f)) = On("Install", Upper)
        /\ Tail(Code(l, f)) = <<Save("ChildrenBuilt")>>
    BY <2>1
  <2> QED BY <1>11, <1>0, <2>2, <2>3, <2>4 DEF Labels, Do, On, Save
<1>12. CASE l = "saveBuilt"
  <2>1. Code(l, f) = <<Save("ChildrenBuilt")>>
    BY <1>12 DEF Code
  <2>2. Then(l) = "idle" /\ Op(l) = "Save" /\ Operand(l, f) = "ChildrenBuilt"
    BY <1>12 DEF Then, Op, Operand
  <2>3. Code(Then(l), g) = <<>>
    BY <2>2 DEF Code
  <2>4. /\ Code(l, f) # <<>> /\ Head(Code(l, f)) = Save("ChildrenBuilt")
        /\ Tail(Code(l, f)) = <<>>
    BY <2>1
  <2> QED BY <1>12, <1>0, <2>2, <2>3, <2>4 DEF Labels, Do, On, Save
<1>13. CASE l = "pinRead"
  <2>1. Code(l, f) = <<Do("Pin"), Do("Read"), Save("CaughtUp")>>
    BY <1>13 DEF Code, Step
  <2>2. Then(l) = "read" /\ Op(l) = "Pin" /\ Operand(l, f) = ""
    BY <1>13 DEF Then, Op, Operand
  <2>3. Code(Then(l), g) = <<Do("Read"), Save("CaughtUp")>>
    BY <2>2 DEF Code
  <2>4. /\ Code(l, f) # <<>> /\ Head(Code(l, f)) = Do("Pin")
        /\ Tail(Code(l, f)) = <<Do("Read"), Save("CaughtUp")>>
    BY <2>1
  <2> QED BY <1>13, <1>0, <2>2, <2>3, <2>4 DEF Labels, Do, On, Save
<1>14. CASE l = "read"
  <2>1. Code(l, f) = <<Do("Read"), Save("CaughtUp")>>
    BY <1>14 DEF Code
  <2>2. Then(l) = "saveCaughtUp" /\ Op(l) = "Read" /\ Operand(l, f) = ""
    BY <1>14 DEF Then, Op, Operand
  <2>3. Code(Then(l), g) = <<Save("CaughtUp")>>
    BY <2>2 DEF Code
  <2>4. /\ Code(l, f) # <<>> /\ Head(Code(l, f)) = Do("Read")
        /\ Tail(Code(l, f)) = <<Save("CaughtUp")>>
    BY <2>1
  <2> QED BY <1>14, <1>0, <2>2, <2>3, <2>4 DEF Labels, Do, On, Save
<1>15. CASE l = "saveCaughtUp"
  <2>1. Code(l, f) = <<Save("CaughtUp")>>
    BY <1>15 DEF Code
  <2>2. Then(l) = "idle" /\ Op(l) = "Save" /\ Operand(l, f) = "CaughtUp"
    BY <1>15 DEF Then, Op, Operand
  <2>3. Code(Then(l), g) = <<>>
    BY <2>2 DEF Code
  <2>4. /\ Code(l, f) # <<>> /\ Head(Code(l, f)) = Save("CaughtUp")
        /\ Tail(Code(l, f)) = <<>>
    BY <2>1
  <2> QED BY <1>15, <1>0, <2>2, <2>3, <2>4 DEF Labels, Do, On, Save
<1>16. CASE l = "apply"
  <2>1. Code(l, f) = <<<<"Apply", f>>, Save("CaughtUp")>>
    BY <1>16 DEF Code
  <2>2. Then(l) = "saveCaughtUp" /\ Op(l) = "Apply" /\ Operand(l, f) = f
    BY <1>16 DEF Then, Op, Operand
  <2>3. Code(Then(l), g) = <<Save("CaughtUp")>>
    BY <2>2 DEF Code
  <2>4. /\ Code(l, f) # <<>> /\ Head(Code(l, f)) = <<"Apply", f>>
        /\ Tail(Code(l, f)) = <<Save("CaughtUp")>>
    BY <2>1
  <2> QED BY <1>16, <1>0, <2>2, <2>3, <2>4 DEF Labels, Do, On, Save
<1>17. CASE l = "publish"
  <2>1. Code(l, f) = <<Do("Publish"), Save("Published"), Do("Unpin")>>
    BY <1>17 DEF Code, Step
  <2>2. Then(l) = "savePublished" /\ Op(l) = "Publish" /\ Operand(l, f) = ""
    BY <1>17 DEF Then, Op, Operand
  <2>3. Code(Then(l), g) = <<Save("Published"), Do("Unpin")>>
    BY <2>2 DEF Code
  <2>4. /\ Code(l, f) # <<>> /\ Head(Code(l, f)) = Do("Publish")
        /\ Tail(Code(l, f)) = <<Save("Published"), Do("Unpin")>>
    BY <2>1
  <2> QED BY <1>17, <1>0, <2>2, <2>3, <2>4 DEF Labels, Do, On, Save
<1>18. CASE l = "savePublished"
  <2>1. Code(l, f) = <<Save("Published"), Do("Unpin")>>
    BY <1>18 DEF Code
  <2>2. Then(l) = "unpin" /\ Op(l) = "Save" /\ Operand(l, f) = "Published"
    BY <1>18 DEF Then, Op, Operand
  <2>3. Code(Then(l), g) = <<Do("Unpin")>>
    BY <2>2 DEF Code
  <2>4. /\ Code(l, f) # <<>> /\ Head(Code(l, f)) = Save("Published")
        /\ Tail(Code(l, f)) = <<Do("Unpin")>>
    BY <2>1
  <2> QED BY <1>18, <1>0, <2>2, <2>3, <2>4 DEF Labels, Do, On, Save
<1>19. CASE l = "unpinRetire"
  <2>1. Code(l, f) = <<Do("Unpin"), Do("Retire"), Do("Drop"),
                        Do("Teardown")>>
    BY <1>19 DEF Code, Step
  <2>2. Then(l) = "retire" /\ Op(l) = "Unpin" /\ Operand(l, f) = ""
    BY <1>19 DEF Then, Op, Operand
  <2>3. Code(Then(l), g) = <<Do("Retire"), Do("Drop"), Do("Teardown")>>
    BY <2>2 DEF Code
  <2>4. /\ Code(l, f) # <<>> /\ Head(Code(l, f)) = Do("Unpin")
        /\ Tail(Code(l, f)) = <<Do("Retire"), Do("Drop"), Do("Teardown")>>
    BY <2>1
  <2> QED BY <1>19, <1>0, <2>2, <2>3, <2>4 DEF Labels, Do, On, Save
<1>20. CASE l = "retire"
  <2>1. Code(l, f) = <<Do("Retire"), Do("Drop"), Do("Teardown")>>
    BY <1>20 DEF Code
  <2>2. Then(l) = "drop" /\ Op(l) = "Retire" /\ Operand(l, f) = ""
    BY <1>20 DEF Then, Op, Operand
  <2>3. Code(Then(l), g) = <<Do("Drop"), Do("Teardown")>>
    BY <2>2 DEF Code
  <2>4. /\ Code(l, f) # <<>> /\ Head(Code(l, f)) = Do("Retire")
        /\ Tail(Code(l, f)) = <<Do("Drop"), Do("Teardown")>>
    BY <2>1
  <2> QED BY <1>20, <1>0, <2>2, <2>3, <2>4 DEF Labels, Do, On, Save
<1>21. CASE l = "drop"
  <2>1. Code(l, f) = <<Do("Drop"), Do("Teardown")>>
    BY <1>21 DEF Code
  <2>2. Then(l) = "teardown" /\ Op(l) = "Drop" /\ Operand(l, f) = ""
    BY <1>21 DEF Then, Op, Operand
  <2>3. Code(Then(l), g) = <<Do("Teardown")>>
    BY <2>2 DEF Code
  <2>4. /\ Code(l, f) # <<>> /\ Head(Code(l, f)) = Do("Drop")
        /\ Tail(Code(l, f)) = <<Do("Teardown")>>
    BY <2>1
  <2> QED BY <1>21, <1>0, <2>2, <2>3, <2>4 DEF Labels, Do, On, Save
<1>22. CASE l = "teardown"
  <2>1. Code(l, f) = <<Do("Teardown")>>
    BY <1>22 DEF Code
  <2>2. Then(l) = "idle" /\ Op(l) = "Teardown" /\ Operand(l, f) = ""
    BY <1>22 DEF Then, Op, Operand
  <2>3. Code(Then(l), g) = <<>>
    BY <2>2 DEF Code
  <2>4. /\ Code(l, f) # <<>> /\ Head(Code(l, f)) = Do("Teardown")
        /\ Tail(Code(l, f)) = <<>>
    BY <2>1
  <2> QED BY <1>22, <1>0, <2>2, <2>3, <2>4 DEF Labels, Do, On, Save
<1>23. CASE l = "removeL"
  <2>1. Code(l, f) = <<On("RemoveChild", Lower), On("RemoveChild",
                        Upper), Do("Restore"), Do("TeardownChildren"), Do("Forget"),
                        Do("Unpin")>>
    BY <1>23 DEF Code, Abort
  <2>2. Then(l) = "removeU" /\ Op(l) = "RemoveChild" /\ Operand(l, f) = Lower
    BY <1>23 DEF Then, Op, Operand
  <2>3. Code(Then(l), g) = <<On("RemoveChild", Upper), Do("Restore"),
                              Do("TeardownChildren"), Do("Forget"), Do("Unpin")>>
    BY <2>2 DEF Code
  <2>4. /\ Code(l, f) # <<>> /\ Head(Code(l, f)) = On("RemoveChild", Lower)
        /\ Tail(Code(l, f)) = <<On("RemoveChild", Upper), Do("Restore"),
                              Do("TeardownChildren"), Do("Forget"), Do("Unpin")>>
    BY <2>1
  <2> QED BY <1>23, <1>0, <2>2, <2>3, <2>4 DEF Labels, Do, On, Save
<1>24. CASE l = "removeU"
  <2>1. Code(l, f) = <<On("RemoveChild", Upper), Do("Restore"),
                        Do("TeardownChildren"), Do("Forget"), Do("Unpin")>>
    BY <1>24 DEF Code
  <2>2. Then(l) = "restore" /\ Op(l) = "RemoveChild" /\ Operand(l, f) = Upper
    BY <1>24 DEF Then, Op, Operand
  <2>3. Code(Then(l), g) = <<Do("Restore"), Do("TeardownChildren"),
                              Do("Forget"), Do("Unpin")>>
    BY <2>2 DEF Code
  <2>4. /\ Code(l, f) # <<>> /\ Head(Code(l, f)) = On("RemoveChild", Upper)
        /\ Tail(Code(l, f)) = <<Do("Restore"), Do("TeardownChildren"),
                              Do("Forget"), Do("Unpin")>>
    BY <2>1
  <2> QED BY <1>24, <1>0, <2>2, <2>3, <2>4 DEF Labels, Do, On, Save
<1>25. CASE l = "restore"
  <2>1. Code(l, f) = <<Do("Restore"), Do("TeardownChildren"),
                        Do("Forget"), Do("Unpin")>>
    BY <1>25 DEF Code
  <2>2. Then(l) = "wipe" /\ Op(l) = "Restore" /\ Operand(l, f) = ""
    BY <1>25 DEF Then, Op, Operand
  <2>3. Code(Then(l), g) = <<Do("TeardownChildren"), Do("Forget"),
                              Do("Unpin")>>
    BY <2>2 DEF Code
  <2>4. /\ Code(l, f) # <<>> /\ Head(Code(l, f)) = Do("Restore")
        /\ Tail(Code(l, f)) = <<Do("TeardownChildren"), Do("Forget"),
                              Do("Unpin")>>
    BY <2>1
  <2> QED BY <1>25, <1>0, <2>2, <2>3, <2>4 DEF Labels, Do, On, Save
<1>26. CASE l = "wipe"
  <2>1. Code(l, f) = <<Do("TeardownChildren"), Do("Forget"), Do("Unpin")>>
    BY <1>26 DEF Code
  <2>2. Then(l) = "forget" /\ Op(l) = "TeardownChildren" /\ Operand(l, f) = ""
    BY <1>26 DEF Then, Op, Operand
  <2>3. Code(Then(l), g) = <<Do("Forget"), Do("Unpin")>>
    BY <2>2 DEF Code
  <2>4. /\ Code(l, f) # <<>> /\ Head(Code(l, f)) = Do("TeardownChildren")
        /\ Tail(Code(l, f)) = <<Do("Forget"), Do("Unpin")>>
    BY <2>1
  <2> QED BY <1>26, <1>0, <2>2, <2>3, <2>4 DEF Labels, Do, On, Save
<1>27. CASE l = "forget"
  <2>1. Code(l, f) = <<Do("Forget"), Do("Unpin")>>
    BY <1>27 DEF Code
  <2>2. Then(l) = "unpin" /\ Op(l) = "Forget" /\ Operand(l, f) = ""
    BY <1>27 DEF Then, Op, Operand
  <2>3. Code(Then(l), g) = <<Do("Unpin")>>
    BY <2>2 DEF Code
  <2>4. /\ Code(l, f) # <<>> /\ Head(Code(l, f)) = Do("Forget")
        /\ Tail(Code(l, f)) = <<Do("Unpin")>>
    BY <2>1
  <2> QED BY <1>27, <1>0, <2>2, <2>3, <2>4 DEF Labels, Do, On, Save
<1>28. CASE l = "unpin"
  <2>1. Code(l, f) = <<Do("Unpin")>>
    BY <1>28 DEF Code
  <2>2. Then(l) = "idle" /\ Op(l) = "Unpin" /\ Operand(l, f) = ""
    BY <1>28 DEF Then, Op, Operand
  <2>3. Code(Then(l), g) = <<>>
    BY <2>2 DEF Code
  <2>4. /\ Code(l, f) # <<>> /\ Head(Code(l, f)) = Do("Unpin")
        /\ Tail(Code(l, f)) = <<>>
    BY <2>1
  <2> QED BY <1>28, <1>0, <2>2, <2>3, <2>4 DEF Labels, Do, On, Save
<1> QED BY <1>1, <1>2, <1>3, <1>4, <1>5, <1>6, <1>7, <1>8, <1>9, <1>10, <1>11,
           <1>12, <1>13, <1>14, <1>15, <1>16, <1>17, <1>18, <1>19,
           <1>20, <1>21, <1>22, <1>23, <1>24, <1>25, <1>26, <1>27,
           <1>28 DEF Labels

\* The place tells the next instruction, and is idle when there is none.
LEMMA DriverFacts ==
  ASSUME NEW l, At(l)
  PROVE  /\ Idle <=> l = "idle"
         /\ ~Idle => Head(todo)[1] = Op(l) /\ Arg = Operand(l, Pending)
<1>1. l \in Labels /\ todo = Code(l, Pending)
  BY DEF At
<1>2. /\ l = "idle" => todo = <<>>
      /\ l # "idle" => todo # <<>> /\ Head(todo) = <<Op(l), Operand(l, Pending)>>
  BY <1>1, CodeFacts
<1> QED BY <1>2 DEF Idle, Arg

\* Where a driver is after it passed an instruction, gave up, or stayed.
LEMMA Moves ==
  ASSUME NEW l, At(l)
  PROVE  /\ l # "idle" /\ todo' = Tail(todo) => At(Then(l))'
         /\ todo' = <<>> => At("idle")'
         /\ todo' = todo => At(l)' /\ Pending' = Pending
<1>1. l \in Labels /\ todo = Code(l, Pending)
  BY DEF At
<1>2. ASSUME l # "idle", todo' = Tail(todo) PROVE At(Then(l))'
  <2>1. Then(l) \in Labels /\ Tail(Code(l, Pending)) = Code(Then(l), Pending')
    BY <1>1, <1>2, CodeFacts
  <2> QED BY <1>1, <1>2, <2>1 DEF At
<1>3. ASSUME todo' = <<>> PROVE At("idle")'
  <2>1. "idle" \in Labels /\ Code("idle", Pending') = <<>>
    BY DEF Labels, Code
  <2> QED BY <1>3, <2>1 DEF At
<1>4. ASSUME todo' = todo PROVE At(l)' /\ Pending' = Pending
  BY <1>1, <1>4 DEF At, Pending, Idle, Arg
<1> QED BY <1>2, <1>3, <1>4

\* A driver that executes op is at one of op's places.
LEMMA Places ==
  ASSUME NEW l \in Labels
  PROVE  /\ Op(l) = "Save" => l \in {"saveMarked", "saveCreated", "savePinned",
                                     "saveBuilt", "saveCaughtUp", "savePublished"}
         /\ Op(l) = "Mark" => l = "mark"
         /\ Op(l) = "Create" => l \in {"createL", "createU"}
         /\ Op(l) = "Pin" => l \in {"pin", "pinBuild", "pinRead"}
         /\ Op(l) = "Install" => l \in {"installL", "installU"}
         /\ Op(l) = "Read" => l = "read"
         /\ Op(l) = "Apply" => l = "apply"
         /\ Op(l) = "Publish" => l = "publish"
         /\ Op(l) = "Unpin" => l \in {"unpinRetire", "unpin"}
         /\ Op(l) = "Retire" => l = "retire"
         /\ Op(l) = "Drop" => l = "drop"
         /\ Op(l) = "Teardown" => l = "teardown"
         /\ Op(l) = "RemoveChild" => l \in {"removeL", "removeU"}
         /\ Op(l) = "Restore" => l = "restore"
         /\ Op(l) = "TeardownChildren" => l = "wipe"
         /\ Op(l) = "Forget" => l = "forget"
<1>1. /\ Op(l) = "Save" => l \in {"saveMarked", "saveCreated", "savePinned",
                                  "saveBuilt", "saveCaughtUp", "savePublished"}
      /\ Op(l) = "Mark" => l = "mark"
      /\ Op(l) = "Create" => l \in {"createL", "createU"}
      /\ Op(l) = "Pin" => l \in {"pin", "pinBuild", "pinRead"}
  BY DEF Op, Labels
<1>2. /\ Op(l) = "Install" => l \in {"installL", "installU"}
      /\ Op(l) = "Read" => l = "read"
      /\ Op(l) = "Apply" => l = "apply"
      /\ Op(l) = "Publish" => l = "publish"
  BY DEF Op, Labels
<1>3. /\ Op(l) = "Unpin" => l \in {"unpinRetire", "unpin"}
      /\ Op(l) = "Retire" => l = "retire"
      /\ Op(l) = "Drop" => l = "drop"
      /\ Op(l) = "Teardown" => l = "teardown"
  BY DEF Op, Labels
<1>4. /\ Op(l) = "RemoveChild" => l \in {"removeL", "removeU"}
      /\ Op(l) = "Restore" => l = "restore"
      /\ Op(l) = "TeardownChildren" => l = "wipe"
      /\ Op(l) = "Forget" => l = "forget"
  BY DEF Op, Labels
<1> QED BY <1>1, <1>2, <1>3, <1>4

\* The place of a driver that executes op, its operand, and where it may go.
LEMMA Executing ==
  ASSUME NEW l, At(l), NEW op, Doing(op)
  PROVE  /\ l \in Labels /\ l # "idle" /\ Op(l) = op /\ ~waiting
         /\ Arg = Operand(l, Pending)
         /\ todo' = Tail(todo) => At(Then(l))'
         /\ todo' = <<>> => At("idle")'
         /\ todo' = todo => At(l)' /\ Pending' = Pending
<1>1. ~Idle /\ ~waiting /\ Head(todo)[1] = op
  BY DEF Doing
<1>2. l # "idle" /\ Op(l) = op /\ Arg = Operand(l, Pending)
  BY <1>1, DriverFacts
<1>3. l \in Labels
  BY DEF At
<1> QED BY <1>1, <1>2, <1>3, Moves

(***************************************************************************)
(* The queue under Append, Tail and truncation.                            *)
(***************************************************************************)
\* p is the queue q with c at its end.
Extends(q, c, p) ==
    /\ p \in Seq(Commands) /\ p # <<>> /\ p[Len(p)] = c
    /\ \A d \in Range(p) : d \in Range(q) \/ d = c
    /\ DOMAIN p = 1..(Len(q) + 1)
    /\ \A i \in 1..Len(q) : p[i] = q[i] /\ p[i] \in Range(q)
    /\ p[Len(q) + 1] = c

\* Proposing a command.
LEMMA Appended ==
  ASSUME NEW q \in Seq(Commands), NEW c \in Commands
  PROVE  Extends(q, c, Append(q, c))
<1>0. PICK p : p = Append(q, c)
  OBVIOUS
<1>1. p \in Seq(Commands) /\ Len(p) = Len(q) + 1 /\ Len(q) \in Nat
  BY <1>0, AppendProperties
<1>2. \A i \in 1..Len(q) : p[i] = q[i] /\ p[Len(q) + 1] = c
  BY <1>0, AppendProperties
<1>3. p[Len(q) + 1] = c /\ p # <<>>
  BY <1>0, AppendProperties
<1>4. DOMAIN p = 1..(Len(q) + 1) /\ DOMAIN q = 1..Len(q)
  BY <1>1
<1>5. \A i \in 1..Len(q) : p[i] = q[i] /\ p[i] \in Range(q)
  BY <1>2, <1>4 DEF Range
<1>6. ASSUME NEW d \in Range(p) PROVE d \in Range(q) \/ d = c
  <2>1. PICK i \in 1..(Len(q) + 1) : d = p[i]
    BY <1>4, <1>6 DEF Range
  <2>2. i \in 1..Len(q) \/ i = Len(q) + 1
    BY <1>1, <2>1
  <2> QED BY <2>1, <2>2, <1>3, <1>5
<1>7. p[Len(p)] = c
  BY <1>1, <1>3
<1>8. Extends(q, c, p)
  BY <1>1, <1>3, <1>4, <1>5, <1>6, <1>7 DEF Extends
<1> QED BY <1>0, <1>8

\* p is the queue q without its first command.
Follows(q, p) ==
    /\ p \in Seq(Commands) /\ Len(p) = Len(q) - 1
    /\ Head(q) \in Commands /\ Head(q) \in Range(q) /\ Head(q) = q[1]
    /\ \A d \in Range(p) : d \in Range(q)
    /\ DOMAIN p = 1..(Len(q) - 1) /\ DOMAIN q = 1..Len(q) /\ Len(q) \in Nat \ {0}
    /\ \A i \in 1..(Len(q) - 1) : p[i] = q[i + 1]
    /\ Len(q) = 1 => p = <<>> /\ Head(q) = q[Len(q)]
    /\ Len(q) # 1 => p # <<>> /\ p[Len(p)] = q[Len(q)]

\* Applying the first command.
LEMMA Applied ==
  ASSUME NEW q \in Seq(Commands), q # <<>>
  PROVE  Follows(q, Tail(q))
<1>0. PICK p : p = Tail(q)
  OBVIOUS
<1>1. /\ Len(q) \in Nat \ {0} /\ DOMAIN q = 1..Len(q)
      /\ p \in Seq(Commands) /\ Len(p) = Len(q) - 1 /\ Head(q) = q[1]
  BY <1>0
<1>2. \A i \in 1..(Len(q) - 1) : p[i] = q[i + 1]
  BY <1>0, <1>1
<1>3. Head(q) \in Commands /\ Head(q) \in Range(q)
  BY <1>1 DEF Range
<1>4. DOMAIN p = 1..(Len(q) - 1)
  BY <1>1
<1>5. ASSUME NEW d \in Range(p) PROVE d \in Range(q)
  <2>1. PICK i \in 1..(Len(q) - 1) : d = p[i]
    BY <1>4, <1>5 DEF Range
  <2>2. d = q[i + 1] /\ i + 1 \in DOMAIN q
    BY <1>1, <1>2, <2>1
  <2> QED BY <2>2 DEF Range
<1>6. Len(q) = 1 => p = <<>> /\ Head(q) = q[Len(q)]
  BY <1>1
<1>7. ASSUME Len(q) # 1 PROVE p # <<>> /\ p[Len(p)] = q[Len(q)]
  <2>1. Len(p) \in 1..(Len(q) - 1) /\ Len(p) + 1 = Len(q)
    BY <1>1, <1>7
  <2>2. p[Len(p)] = q[Len(q)]
    BY <1>2, <2>1
  <2>3. p # <<>>
    BY <1>1, <2>1
  <2> QED BY <2>2, <2>3
<1>8. Follows(q, p)
  BY <1>1, <1>2, <1>3, <1>4, <1>5, <1>6, <1>7 DEF Follows
<1> QED BY <1>0, <1>8

\* p is the first n commands of the queue q.
Begins(q, n, p) ==
    /\ p \in Seq(Commands)
    /\ \A d \in Range(p) : d \in Range(q)
    /\ DOMAIN p = 1..n /\ \A i \in 1..n : p[i] = q[i] /\ i \in DOMAIN q

\* Losing the end of the queue.
LEMMA Truncated ==
  ASSUME NEW q \in Seq(Commands), NEW n \in 0..(Len(q) - 1)
  PROVE  Begins(q, n, SubSeq(q, 1, n))
<1>0. PICK p : p = SubSeq(q, 1, n)
  OBVIOUS
<1>1. Len(q) \in Nat /\ DOMAIN q = 1..Len(q) /\ n \in Nat /\ n <= Len(q)
  OBVIOUS
<1>2. p \in Seq(Commands) /\ Len(p) = n /\ \A i \in 1..n : p[i] = q[i]
  <2>1. \A i \in 1..n : q[i] \in Commands
    BY <1>1
  <2>2. p = [i \in 1..n |-> q[i]]
    BY <1>0, <1>1
  <2>3. p \in [1..n -> Commands]
    BY <2>1, <2>2
  <2> QED BY <1>1, <2>2, <2>3
<1>3. DOMAIN p = 1..n /\ \A i \in 1..n : i \in DOMAIN q
  BY <1>1, <1>2
<1>4. ASSUME NEW d \in Range(p) PROVE d \in Range(q)
  <2>1. PICK i \in 1..n : d = p[i]
    BY <1>3, <1>4 DEF Range
  <2> QED BY <1>2, <1>3, <2>1 DEF Range
<1>5. Begins(q, n, p)
  BY <1>2, <1>3, <1>4 DEF Begins
<1> QED BY <1>0, <1>5

(***************************************************************************)
(* The rows of a log.                                                      *)
(***************************************************************************)

\* The largest of some positions of a log is one of them.
LEMMA MaxFacts ==
  ASSUME NEW n \in Nat, NEW W, W \subseteq 1..n, W # {}
  PROVE  Max(W) \in W /\ \A y \in W : Max(W) >= y
<1> DEFINE D == {n - x : x \in W}
<1>1. D \subseteq Nat /\ D # {}
  OBVIOUS
<1>2. PICK m \in D : \A d \in D : m <= d
  <2> HIDE DEF D
  <2>1. PICK L : L = OpToRel(<, Nat)
    OBVIOUS
  <2>2. IsWellFoundedOn(L, Nat)
    BY <2>1, NatLessThanWellFounded
  <2>3. PICK m \in D : \A d \in D : <<d, m>> \notin L
    BY <1>1, <2>2, WFMin
  <2>4. ASSUME NEW d \in D PROVE m <= d
    <3>1. ~(d < m)
      BY <1>1, <2>1, <2>3 DEF OpToRel
    <3>2. d \in Nat /\ m \in Nat
      BY <1>1
    <3> QED BY <3>1, <3>2
  <2> QED BY <2>4
<1>3. PICK x \in W : m = n - x
  OBVIOUS
<1>4. ASSUME NEW y \in W PROVE x >= y
  <2>1. n - y \in D /\ x \in Nat /\ y \in Nat
    OBVIOUS
  <2>2. n - x <= n - y
    BY <1>2, <1>3, <2>1
  <2> QED BY <2>1, <2>2
<1>5. \E z \in W : \A y \in W : z >= y
  BY <1>4
<1> QED BY <1>5 DEF Max

\* What RowsAt and Late say, by half.
LEMMA RowsAtFacts ==
  ASSUME NEW k \in Keys
  PROVE  /\ \A n : RowsAt(n)[k] = Row(log, n, k)
         /\ Late(k) <=> LateIn(log, readAt, k)
<1>1. ASSUME NEW n PROVE RowsAt(n)[k] = Row(log, n, k)
  BY DEF RowsAt, Row
<1> QED BY <1>1 DEF Late, LateIn

\* A half's rows are values.
LEMMA RowType ==
  ASSUME NEW w \in Logs, NEW n \in 0..Len(w), NEW k
  PROVE  Row(w, n, k) \in Values
<1> DEFINE W == {i \in 1..n : w[i].key = k}
<1>1. Base \in Values /\ n \in Nat /\ W \subseteq 1..n
  BY DEF Base, Values, Logs
<1>2. CASE W = {}
  BY <1>1, <1>2 DEF Row
<1>3. CASE W # {}
  <2>1. PICK x : x = Max(W)
    OBVIOUS
  <2>2. Row(w, n, k) = w[x].value
    BY <1>3, <2>1 DEF Row
  <2> HIDE DEF W
  <2>3. x \in 1..n
    <3>1. x \in W
      BY <1>1, <1>3, <2>1, MaxFacts
    <3> QED BY <1>1, <3>1
  <2>4. w[x] \in [key : Keys, value : Values]
    <3>1. PICK R : R = [key : Keys, value : Values]
      OBVIOUS
    <3>2. w \in Seq(R) /\ x \in 1..Len(w)
      BY <2>3, <3>1 DEF Logs
    <3>3. w[x] \in R
      BY ONLY <3>2
    <3> QED BY <3>1, <3>3
  <2> QED BY <2>2, <2>4
<1> QED BY <1>2, <1>3

\* Without a write of the half between two positions its rows are the same.
LEMMA RowKept ==
  ASSUME NEW w, NEW n \in Nat, NEW m \in Nat, n <= m, NEW k,
         ~ \E i \in (n + 1)..m : w[i].key = k
  PROVE  Row(w, n, k) = Row(w, m, k)
<1>1. {i \in 1..n : w[i].key = k} = {i \in 1..m : w[i].key = k}
  OBVIOUS
<1> QED BY <1>1 DEF Row

\* What a write of v to the half j, from the log w to z, means for a half k.
Written(w, j, v, z, k) ==
    /\ z \in Logs /\ Len(z) = Len(w) + 1 /\ Len(w) \in Nat
    /\ \A n \in 0..Len(w) : Row(z, n, k) = Row(w, n, k)
    /\ Row(z, Len(z), k) = IF k = j THEN v ELSE Row(w, Len(w), k)
    /\ \A r \in 0..Len(w) : LateIn(w, r, k) => LateIn(z, r, k)
    /\ \A r \in 0..Len(w) : LateIn(z, r, j)

\* Rows up to a position do not depend on later writes; a write is the half's
\* new row.
LEMMA RowAppended ==
  ASSUME NEW w \in Logs, NEW j \in Keys, NEW v \in Values, NEW k
  PROVE  Written(w, j, v, Append(w, [key |-> j, value |-> v]), k)
<1>0. PICK z : z = Append(w, [key |-> j, value |-> v])
  OBVIOUS
<1>1. /\ z \in Logs /\ Len(z) = Len(w) + 1 /\ Len(w) \in Nat
      /\ \A i \in 1..Len(w) : z[i] = w[i]
      /\ z[Len(w) + 1] = [key |-> j, value |-> v]
  <2>1. [key |-> j, value |-> v] \in [key : Keys, value : Values]
    OBVIOUS
  <2> QED BY <1>0, <2>1, AppendProperties DEF Logs
<1>2. ASSUME NEW n \in 0..Len(w) PROVE Row(z, n, k) = Row(w, n, k)
  <2>1. PICK W : W = {i \in 1..n : w[i].key = k}
    OBVIOUS
  <2>2. W = {i \in 1..n : z[i].key = k} /\ n \in Nat /\ W \subseteq 1..n
    BY <1>1, <2>1
  <2>3. PICK x : x = Max(W)
    OBVIOUS
  <2>4. ASSUME W # {} PROVE w[x] = z[x]
    <3>1. x \in W
      BY <2>2, <2>3, <2>4, MaxFacts
    <3>2. x \in 1..Len(w)
      BY <1>1, <2>2, <3>1
    <3> QED BY <1>1, <3>2
  <2>5. /\ Row(w, n, k) = IF W = {} THEN Base ELSE w[x].value
        /\ Row(z, n, k) = IF W = {} THEN Base ELSE z[x].value
    BY <2>1, <2>2, <2>3 DEF Row
  <2> QED BY <2>4, <2>5
<1>3. Row(z, Len(z), k) = IF k = j THEN v ELSE Row(w, Len(w), k)
  <2>1. CASE k = j
    <3>1. PICK W : W = {i \in 1..Len(z) : z[i].key = k}
      OBVIOUS
    <3>2. PICK x : x = Max(W)
      OBVIOUS
    <3>3. PICK n \in Nat : n = Len(z)
      BY <1>1
    <3>4. z[n].key = k /\ z[n].value = v /\ n \in 1..n
      BY <1>1, <2>1, <3>3
    <3>5. n \in W /\ W \subseteq 1..n
      BY <3>1, <3>3, <3>4
    <3>6. x \in W /\ \A y \in W : x >= y
      BY <3>2, <3>5, MaxFacts
    <3>7. x = n
      BY <3>5, <3>6
    <3>8. Row(z, Len(z), k) = IF W = {} THEN Base ELSE z[x].value
      BY <3>1, <3>2 DEF Row
    <3> QED BY <2>1, <3>4, <3>5, <3>7, <3>8
  <2>2. CASE k # j
    <3>1. ~ \E i \in (Len(w) + 1)..Len(z) : z[i].key = k
      BY <1>1, <2>2
    <3>2. Row(z, Len(w), k) = Row(z, Len(z), k)
      <4>1. PICK n \in Nat, m \in Nat : n = Len(w) /\ m = Len(z)
        BY <1>1
      <4>2. n <= m /\ ~ \E i \in (n + 1)..m : z[i].key = k
        BY <1>1, <3>1, <4>1
      <4>3. Row(z, n, k) = Row(z, m, k)
        BY <4>2, RowKept
      <4> QED BY <4>1, <4>3
    <3>3. Row(z, Len(w), k) = Row(w, Len(w), k)
      BY <1>1, <1>2
    <3> QED BY <2>2, <3>2, <3>3
  <2> QED BY <2>1, <2>2
<1>4. ASSUME NEW r \in 0..Len(w), LateIn(w, r, k) PROVE LateIn(z, r, k)
  <2>1. PICK i \in (r + 1)..Len(w) : w[i].key = k
    BY <1>4 DEF LateIn
  <2>2. i \in (r + 1)..Len(z) /\ i \in 1..Len(w)
    BY <1>1
  <2> QED BY <1>1, <2>1, <2>2 DEF LateIn
<1>5. ASSUME NEW r \in 0..Len(w) PROVE LateIn(z, r, j)
  <2>1. Len(w) + 1 \in (r + 1)..Len(z) /\ z[Len(w) + 1].key = j
    BY <1>1
  <2> QED BY <2>1 DEF LateIn
<1>6. Written(w, j, v, z, k)
  BY <1>1, <1>2, <1>3, <1>4, <1>5 DEF Written
<1> QED BY <1>0, <1>6

(***************************************************************************)
(* Steps that leave the meta state and the record alone.                   *)
(***************************************************************************)
\* The invariant holds before the first split.
LEMMA InitIInv == Init => IInv
<1> SUFFICES ASSUME Init PROVE IInv
  OBVIOUS
<1> USE TabletFacts
<1>1. /\ Src = [state |-> "Active", gen |-> 1] /\ \A t \in Children : meta[t] = NoDesc
      /\ record = NoRecord /\ record.phase = "none" /\ record.attempt = 0
  BY DEF Init, Src, NoRecord
<1>2. MetaTypes
  <2>1. /\ NoDesc \in [state : States \cup {"absent"}, gen : Nat]
        /\ [state |-> "Active", gen |-> 1] \in [state : States \cup {"absent"}, gen : Nat]
    BY DEF NoDesc, States
  <2>2. meta \in [Tablets -> [state : States \cup {"absent"}, gen : Nat]]
    BY <2>1 DEF Init
  <2> QED BY <1>1, <2>2 DEF MetaTypes, NoDesc, Src
<1>3. ControlTypes
  <2>1. splits \in 0..MaxSplits
    BY TabletSplitAssumption DEF Init
  <2>2. waiting \in BOOLEAN /\ gone \in BOOLEAN /\ stray \in BOOLEAN /\ undone \subseteq Keys
    BY DEF Init
  <2>3. queue \in Seq(Commands) /\ record = NoRecord /\ ~gone
    BY DEF Init
  <2> QED BY <2>1, <2>2, <2>3 DEF ControlTypes
<1>4. DataTypes
  <2>1. NoRow \in Values /\ Base \in Values
    BY DEF NoRow, Base, Values
  <2> QED BY <2>1 DEF Init, DataTypes, Logs
<1>5. Range(queue) = {} /\ DOMAIN queue = {} /\ queue = <<>>
  BY DEF Init, Range
<1>6. Queued /\ DropsLast
  BY <1>5 DEF Queued, DropsLast
<1>7. Owned /\ Progress /\ Clean
  BY <1>1 DEF Owned, Progress, Clean, Up, Init, NoDesc, Recorded
<1>8. Served
  <2>1. ASSUME NEW k \in Keys PROVE Row(log, Len(log), k) = truth[k]
    <3>1. {i \in 1..Len(log) : log[i].key = k} = {}
      BY DEF Init
    <3> QED BY <3>1 DEF Init, Row
  <2> QED BY <1>1, <2>1 DEF Served, NoDesc
<1>9. "idle" \in Labels /\ At("idle")
  BY DEF Labels, At, Code, Init
<1>10. Local("idle")
  BY <1>1, <1>5 DEF Init, Local, Placed, Waits, Reached, Pinned, Copied, Undoing, Later,
                    Recorded, Phases
<1> QED BY <1>2, <1>3, <1>4, <1>6, <1>7, <1>8, <1>9, <1>10 DEF IInv, Global, Types

\* An idle driver awaits nothing.
LEMMA IdleWaitsNot ==
  ASSUME Waits("idle") PROVE waiting # TRUE
  BY DEF Waits, Awaits

\* A step of the driver or of the queue alone.
LEMMA Walk ==
  ASSUME Global, NEW m \in Labels, At(m)',
         UNCHANGED <<meta, record, pin, log, applied, rows, splits, gone, truth,
                     readAt, undone, stray>>,
         queue' \in Seq(Commands), waiting' \in BOOLEAN, Queued', DropsLast',
         Placed(m)', Waits(m)', Reached(m), Pinned(m), Copied(m),
         m = "apply" => Pending' = Pending
  PROVE  IInv'
<1>1. Types'
  BY DEF Global, Types, MetaTypes, ControlTypes, DataTypes, Src
<1>2. Owned' /\ Progress' /\ Clean' /\ Served'
  BY DEF Global, Owned, Progress, Clean, Served, Src, Kid, Recorded
<1>3. Reached(m)' /\ Pinned(m)'
  BY DEF Reached, Pinned, Src, Kid, Recorded
<1>4. Copied(m)'
  BY DEF Copied, Kid, KidRow, Built, CatchingUp, CaughtUp
<1> QED BY <1>1, <1>2, <1>3, <1>4 DEF IInv, Global, Local

\* The queue's commands stay what they are while nothing else changes.
LEMMA QueuedKept ==
  ASSUME Queued, UNCHANGED <<meta, record, splits, gone>>,
         \A d \in Range(queue') : d \in Range(queue)
  PROVE  Queued'
<1>1. ASSUME NEW c \in Range(queue') PROVE CommandOK(c)'
  <2>1. CommandOK(c)
    BY <1>1 DEF Queued
  <2> QED BY <2>1 DEF CommandOK, Turn, MarkOK, RestoreOK, RetireOK, DropOK, CreateOK,
                      PublishOK, Own, Src, Recorded
<1> QED BY <1>1 DEF Queued

\* What is known of a recorded split.
LEMMA RecordFacts ==
  ASSUME ControlTypes
  PROVE  /\ record = NoRecord => record.phase = "none" /\ record.attempt = 0
         /\ record # NoRecord =>
              /\ record.attempt = splits /\ splits \in Attempts
              /\ record.phase \in Phases /\ record.gen \in Nat
         /\ record.phase = "none" => record = NoRecord
         /\ splits \in Nat
<1>1. record = NoRecord => record.phase = "none" /\ record.attempt = 0
  BY DEF NoRecord
<1>2. ASSUME record # NoRecord
      PROVE  /\ record.attempt = splits /\ record.attempt \in Attempts
             /\ record.phase \in Phases /\ record.gen \in Nat
  BY <1>2 DEF ControlTypes
<1>3. record.phase = "none" => record = NoRecord
  BY <1>2 DEF Phases
<1>4. splits \in Nat
  BY DEF ControlTypes
<1> QED BY <1>1, <1>2, <1>3, <1>4

\* The children of the recorded split are tablets.
LEMMA KidFacts ==
  ASSUME ControlTypes, record # NoRecord
  PROVE  \A k \in Keys : /\ Child(splits, k) \in Children
                         /\ Child(record.attempt, k) = Child(splits, k)
                         /\ Child(splits, k)[1] = splits /\ Child(splits, k)[2] = k
  BY RecordFacts, TabletFacts

\* A driver that picks up the recorded split.
LEMMA ResumeIInv ==
  ASSUME IInv, ResumeSplit PROVE IInv'
<1>1. PICK l \in Labels : At(l) /\ Local(l)
  BY DEF IInv
<1>2. l = "idle"
  BY <1>1, DriverFacts DEF ResumeSplit
<1>3. Global /\ ControlTypes /\ waiting = FALSE /\ waiting' = FALSE
  BY <1>1, <1>2, IdleWaitsNot DEF IInv, Global, Types, ControlTypes, Local, ResumeSplit
<1>4. record.phase \in Phases
  BY <1>3, RecordFacts DEF ResumeSplit
<1>5. PICK m \in Labels :
        /\ todo' = Code(m, Pending') /\ Placed(m)
        /\ m \in {"mark", "createL", "pin", "pinBuild", "pinRead", "publish", "unpinRetire"}
  <2> DEFINE P(m) == /\ todo' = Code(m, Pending') /\ Placed(m)
                     /\ m \in {"mark", "createL", "pin", "pinBuild", "pinRead",
                               "publish", "unpinRetire"}
  <2>1. CASE record.phase = "Started"
    <3>1. P("mark")
      BY <2>1 DEF ResumeSplit, Code, Placed, Undoing
    <3> QED BY <3>1 DEF Labels
  <2>2. CASE record.phase = "MarkedSplitting"
    <3>1. P("createL")
      BY <2>2 DEF ResumeSplit, Code, Placed, Undoing
    <3> QED BY <3>1 DEF Labels
  <2>3. CASE record.phase = "ChildrenCreated"
    <3>1. P("pin")
      BY <2>3 DEF ResumeSplit, Code, Placed, Undoing
    <3> QED BY <3>1 DEF Labels
  <2>4. CASE record.phase = "SnapshotPinned"
    <3>1. P("pinBuild")
      BY <2>4 DEF ResumeSplit, Code, Placed, Undoing
    <3> QED BY <3>1 DEF Labels
  <2>5. CASE record.phase = "ChildrenBuilt"
    <3>1. P("pinRead")
      BY <2>5 DEF ResumeSplit, Code, Placed, Undoing
    <3> QED BY <3>1 DEF Labels
  <2>6. CASE record.phase = "CaughtUp"
    <3>1. P("publish")
      BY <2>6 DEF ResumeSplit, Code, Placed, Undoing
    <3> QED BY <3>1 DEF Labels
  <2>7. CASE record.phase = "Published"
    <3>1. P("unpinRetire")
      BY <2>7 DEF ResumeSplit, Code, Placed, Undoing
    <3> QED BY <3>1 DEF Labels
  <2> QED BY <1>4, <2>1, <2>2, <2>3, <2>4, <2>5, <2>6, <2>7 DEF Phases
<1>6. At(m)' /\ Placed(m)'
  BY <1>5 DEF At, Placed, ResumeSplit, history
<1>7. Waits(m)' /\ Reached(m) /\ Pinned(m) /\ Copied(m)
  BY <1>1, <1>2, <1>3, <1>5 DEF Local, Waits, Reached, Pinned, Copied
<1>8. UNCHANGED <<meta, record, pin, log, applied, rows, splits, gone, truth,
                  readAt, undone, stray, queue>>
  BY DEF ResumeSplit, data, history
<1>9. queue' \in Seq(Commands) /\ Queued' /\ DropsLast' /\ waiting' \in BOOLEAN
  <2>1. Queued'
    BY <1>3, <1>8, QueuedKept DEF Global
  <2> QED BY <1>3, <1>8, <2>1 DEF Global, Types, ControlTypes, DropsLast
<1> QED BY <1>3, <1>5, <1>6, <1>7, <1>8, <1>9, Walk

\* A driver that begins to undo the recorded split, or drops a pin left behind.
LEMMA AbortIInv ==
  ASSUME IInv, AbortSplit PROVE IInv'
<1>1. PICK l \in Labels : At(l) /\ Local(l)
  BY DEF IInv
<1>2. l = "idle"
  BY <1>1, DriverFacts DEF AbortSplit
<1>3. Global /\ ControlTypes /\ waiting = FALSE /\ waiting' = FALSE
  BY <1>1, <1>2, IdleWaitsNot DEF IInv, Global, Types, ControlTypes, Local, AbortSplit
<1>4. UNCHANGED <<meta, record, pin, log, applied, rows, splits, gone, truth,
                  readAt, undone, stray, queue>>
  BY DEF AbortSplit, data
<1>5. PICK m \in Labels :
        /\ todo' = Code(m, Pending') /\ m \in {"unpin", "removeL"} /\ Placed(m)'
  <2>1. CASE record = NoRecord
    <3>1. "unpin" \in Labels /\ todo' = Code("unpin", Pending')
      BY <2>1 DEF AbortSplit, Code, Labels
    <3>2. Placed("unpin")'
      BY <1>3, <1>4, <2>1, RecordFacts DEF Placed, Undoing
    <3> QED BY <3>1, <3>2
  <2>2. CASE record # NoRecord
    <3>1. "removeL" \in Labels /\ todo' = Code("removeL", Pending')
      BY <2>2 DEF AbortSplit, Code, Labels
    <3>2. record.phase \in Phases \ {"Published"} /\ record.attempt \in aborted'
      BY <1>3, <2>2, RecordFacts DEF AbortSplit
    <3>3. Placed("removeL")'
      BY <1>4, <3>2 DEF Placed
    <3> QED BY <3>1, <3>3
  <2> QED BY <2>1, <2>2
<1>6. At(m)'
  BY <1>5 DEF At
<1>7. Waits(m)' /\ Reached(m) /\ Pinned(m) /\ Copied(m)
  BY <1>1, <1>2, <1>3, <1>5 DEF Local, Waits, Reached, Pinned, Copied
<1>8. queue' \in Seq(Commands) /\ Queued' /\ DropsLast' /\ waiting' \in BOOLEAN
  <2>1. Queued'
    BY <1>3, <1>4, QueuedKept DEF Global
  <2> QED BY <1>3, <1>4, <2>1 DEF Global, Types, ControlTypes, DropsLast
<1> QED BY <1>3, <1>4, <1>5, <1>6, <1>7, <1>8, Walk

\* A call that ends early: the driver is idle, and the queue may be cut.
LEMMA GiveUp ==
  ASSUME IInv, todo' = <<>>, waiting' = FALSE,
         UNCHANGED <<meta, record, pin, log, applied, rows, splits, gone, truth,
                     readAt, undone, stray>>,
         queue' \in Seq(Commands), Queued', DropsLast'
  PROVE  IInv'
<1>1. PICK l \in Labels : At(l) /\ Local(l)
  BY DEF IInv
<1>2. "idle" \in Labels /\ At("idle")'
  BY <1>1, Moves DEF Labels
<1>3. Placed("idle")' /\ Waits("idle")'
  BY DEF Placed, Waits, Undoing
<1>4. Reached("idle") /\ Pinned("idle") /\ Copied("idle")
  BY <1>1 DEF Local, Reached, Pinned, Copied
<1> QED BY <1>2, <1>3, <1>4, Walk DEF IInv

\* A crash or a deadline.
LEMMA StopIInv ==
  ASSUME IInv, Stop PROVE IInv'
<1>1. /\ todo' = <<>> /\ waiting' = FALSE
      /\ UNCHANGED <<meta, record, pin, log, applied, rows, splits, gone, truth,
                     readAt, undone, stray, queue>>
  BY DEF Stop, Fail, data, history
<1>2. Queued'
  BY <1>1, QueuedKept DEF IInv, Global
<1>3. queue' \in Seq(Commands) /\ DropsLast'
  BY <1>1 DEF IInv, Global, Types, ControlTypes, DropsLast
<1> QED BY <1>1, <1>2, <1>3, GiveUp

\* A change of leader.
LEMMA LoseIInv ==
  ASSUME IInv, LoseProposals PROVE IInv'
<1>1. /\ queue # <<>> /\ queue \in Seq(Commands) /\ Global /\ waiting \in BOOLEAN
      /\ UNCHANGED <<meta, record, pin, log, applied, rows, splits, gone, truth,
                     readAt, aborted, undone, stray>>
  BY DEF IInv, Global, Types, ControlTypes, LoseProposals, data, history
<1>2. PICK n \in 0..(Len(queue) - 1) : queue' = SubSeq(queue, 1, n)
  BY DEF LoseProposals
<1>3. /\ queue' \in Seq(Commands) /\ \A d \in Range(queue') : d \in Range(queue)
      /\ DOMAIN queue' = 1..n /\ \A i \in 1..n : queue'[i] = queue[i] /\ i \in DOMAIN queue
  <2>1. Begins(queue, n, queue')
    BY <1>1, <1>2, Truncated
  <2> QED BY <2>1 DEF Begins
<1>4. Queued'
  BY <1>1, <1>3, QueuedKept DEF Global
<1>5. DropsLast'
  BY <1>1, <1>3 DEF Global, DropsLast
<1>6. CASE waiting
  <2>1. todo' = <<>> /\ waiting' = FALSE
    BY <1>6 DEF LoseProposals, Fail
  <2> QED BY <1>1, <1>3, <1>4, <1>5, <2>1, GiveUp
<1>7. CASE ~waiting
  <2>1. todo' = todo /\ waiting' = waiting
    BY <1>7 DEF LoseProposals, driver
  <2>2. PICK l \in Labels : At(l) /\ Local(l)
    BY DEF IInv
  <2>3. At(l)' /\ Pending' = Pending
    BY <2>1, <2>2, Moves
  <2>4. Placed(l)'
    BY <1>1, <2>2 DEF Local, Placed
  <2>5. Waits(l)'
    BY <1>1, <1>7, <2>1, <2>2 DEF Local, Waits
  <2> QED BY <1>1, <1>3, <1>4, <1>5, <2>1, <2>2, <2>3, <2>4, <2>5, Walk DEF Local
<1> QED BY <1>6, <1>7, <1>1

\* The first call of a split: its record, and no command that is its own.
LEMMA BeginIInv ==
  ASSUME IInv, BeginSplit PROVE IInv'
<1>1. PICK l \in Labels : At(l) /\ Local(l)
  BY DEF IInv
<1>2. l = "idle"
  BY <1>1, DriverFacts DEF BeginSplit
<1>3. Global /\ Types /\ ControlTypes /\ waiting = FALSE /\ waiting' = FALSE
  BY <1>1, <1>2, IdleWaitsNot DEF IInv, Global, Types, ControlTypes, Local, BeginSplit
<1>4. /\ UNCHANGED <<meta, queue, pin, log, applied, rows, gone, truth, aborted,
                     undone, stray>>
      /\ ~gone /\ Src.state = "Active" /\ readAt' = NotRead
      /\ record = NoRecord /\ record.phase = "none" /\ record.attempt = 0
      /\ splits' = splits + 1 /\ splits < MaxSplits /\ splits \in Nat
  BY <1>3, RecordFacts DEF BeginSplit, data, Src
<1>5. Src.gen \in Nat /\ MaxSplits \in Nat
  BY <1>3, TabletFacts, TabletSplitAssumption DEF Types, MetaTypes, Src
<1>6. splits' \in 0..MaxSplits /\ splits' \in Attempts
  BY <1>4, <1>5 DEF Attempts
<1>7. /\ record' = [attempt |-> splits', gen |-> Src.gen, phase |-> "Started"]
      /\ record'.attempt = splits' /\ record'.phase = "Started" /\ record'.gen = Src.gen
      /\ record' # NoRecord
  BY <1>4 DEF BeginSplit, Src, NoRecord
<1>8. Types'
  <2>1. ControlTypes'
    <3>1. record' \in [attempt : Attempts, gen : Nat, phase : Phases]
      BY <1>5, <1>6, <1>7 DEF Phases
    <3> QED BY <1>3, <1>4, <1>6, <1>7, <3>1 DEF ControlTypes
  <2>2. MetaTypes' /\ DataTypes'
    BY <1>3, <1>4 DEF Types, MetaTypes, DataTypes, Src
  <2> QED BY <2>1, <2>2 DEF Types
<1>9. Queued'
  <2>1. ASSUME NEW c \in Range(queue') PROVE CommandOK(c)'
    <3>1. CommandOK(c)
      BY <1>3, <1>4, <2>1 DEF Global, Queued
    <3>2. c.attempt \in 1..splits /\ c.attempt # splits' /\ c.attempt # 0
      BY <1>4, <3>1 DEF CommandOK, Turn
    <3>3. Turn(c)'
      BY <1>4, <1>7, <3>2 DEF Turn
    <3>4. ~Own(c) /\ ~Own(c)'
      BY <1>4, <1>7, <3>2 DEF Own
    <3>5. ~RetireOK(c) /\ ~DropOK(c)
      BY <1>4 DEF RetireOK, DropOK
    <3>6. /\ MarkOK(c) => MarkOK(c)'
          /\ RestoreOK(c) => RestoreOK(c)'
          /\ CreateOK(c) => CreateOK(c)'
          /\ PublishOK(c) => PublishOK(c)'
      BY <1>4, <3>4 DEF MarkOK, RestoreOK, CreateOK, PublishOK, Src
    <3> QED BY <3>1, <3>3, <3>5, <3>6 DEF CommandOK
  <2> QED BY <2>1 DEF Queued
<1>10. DropsLast'
  BY <1>3, <1>4 DEF Global, DropsLast
<1>11. ASSUME NEW t \in Children PROVE meta[t].state # "Active" /\ t[1] \in Nat
  BY <1>3, <1>4, TabletFacts DEF Global, Owned, Up, Attempts
<1>12. Owned'
  BY <1>3, <1>4, <1>11 DEF Global, Owned, Up, Src
<1>13. Progress'
  BY <1>4, <1>5, <1>7 DEF Progress, Up, Src
<1>14. Clean'
  BY <1>3, <1>4, <1>7 DEF Global, Clean, Recorded, Src
<1>15. Served'
  BY <1>3, <1>4, <1>11 DEF Global, Served, Src
<1>16. At("mark")' /\ "mark" \in Labels
  BY DEF At, Labels, Code, BeginSplit
<1>17. Local("mark")'
  BY <1>3, <1>4, <1>7 DEF Local, Placed, Waits, Reached, Pinned, Copied, Undoing, Later
<1> QED BY <1>8, <1>9, <1>10, <1>12, <1>13, <1>14, <1>15, <1>16, <1>17 DEF IInv, Global

(***************************************************************************)
(* Proposals.                                                              *)
(***************************************************************************)
\* A command that fits the state joins the queue, and its driver waits.
LEMMA ProposeStep ==
  ASSUME IInv, NEW l \in Labels, At(l), Local(l), NEW c \in Commands, Propose(c),
         UNCHANGED <<meta, record, pin, log, applied, rows, splits, gone, truth,
                     readAt, aborted, undone, stray>>,
         CommandOK(c), Awaits(l, c),
         IsCreate(c) => \A d \in Range(queue) : IsPublish(d) => d.attempt # c.attempt,
         IsDrop(c) \/ \A d \in Range(queue) : ~IsDrop(d)
  PROVE  IInv'
<1>1. /\ queue' = Append(queue, c) /\ waiting' = TRUE /\ todo' = todo
      /\ queue \in Seq(Commands) /\ Global
  BY DEF Propose, IInv, Global, Types, ControlTypes
<1>2. PICK q, p : q \in Seq(Commands) /\ q = queue /\ p = queue'
  BY <1>1
<1>3. /\ p \in Seq(Commands) /\ p # <<>> /\ p[Len(p)] = c
      /\ \A d \in Range(p) : d \in Range(q) \/ d = c
      /\ DOMAIN p = 1..(Len(q) + 1)
      /\ \A i \in 1..Len(q) : p[i] = q[i] /\ p[i] \in Range(q)
      /\ p[Len(q) + 1] = c
  <2>1. Extends(q, c, p)
    BY <1>1, <1>2, Appended
  <2> QED BY <2>1 DEF Extends
<1>4. Queued'
  <2>1. ASSUME NEW e \in Range(queue') PROVE CommandOK(e)'
    <3>1. CommandOK(e)
      BY <1>1, <1>2, <1>3, <2>1 DEF Global, Queued
    <3>2. /\ Turn(e)' = Turn(e) /\ MarkOK(e)' = MarkOK(e)
          /\ RestoreOK(e)' = RestoreOK(e) /\ RetireOK(e)' = RetireOK(e)
          /\ DropOK(e)' = DropOK(e) /\ CreateOK(e)' = CreateOK(e)
      BY DEF Turn, MarkOK, RestoreOK, RetireOK, DropOK, CreateOK, Own, Src, Recorded
    <3>3. ASSUME PublishOK(e) PROVE PublishOK(e)'
      <4>1. ASSUME NEW d \in Range(queue'), IsCreate(d) PROVE d.attempt # e.attempt
        <5>1. CASE d \in Range(queue)
          BY <3>3, <4>1, <5>1 DEF PublishOK
        <5>2. CASE d = c
          <6>1. e # c
            BY <3>3, <4>1, <5>2 DEF PublishOK, IsCreate, IsPublish
          <6>2. e \in Range(queue) /\ IsPublish(e)
            BY <1>2, <1>3, <2>1, <3>3, <6>1 DEF PublishOK
          <6> QED BY <4>1, <5>2, <6>2
        <5> QED BY <1>2, <1>3, <4>1, <5>1, <5>2
      <4> QED BY <3>3, <4>1 DEF PublishOK, Own
    <3> QED BY <3>1, <3>2, <3>3 DEF CommandOK
  <2> QED BY <2>1 DEF Queued
<1>5. DropsLast'
  <2>1. ASSUME NEW i \in DOMAIN p, NEW j \in DOMAIN p, i < j, IsDrop(p[i])
        PROVE  IsDrop(p[j])
    <3>1. Len(q) \in Nat /\ DOMAIN q = 1..Len(q)
      OBVIOUS
    <3>2. i \in 1..Len(q) /\ (j \in 1..Len(q) \/ j = Len(q) + 1)
      BY <1>3, <2>1, <3>1
    <3>3. IsDrop(q[i]) /\ q[i] \in Range(queue)
      BY <1>2, <1>3, <2>1, <3>2
    <3>4. IsDrop(c)
      BY <3>3
    <3>5. j \in 1..Len(q) => IsDrop(q[j])
      BY <1>1, <1>2, <2>1, <3>1, <3>2, <3>3 DEF Global, DropsLast
    <3> QED BY <1>3, <3>2, <3>4, <3>5
  <2> QED BY <1>2, <2>1 DEF DropsLast
<1>6. At(l)' /\ Pending' = Pending
  BY <1>1, Moves
<1>7. Placed(l)'
  BY DEF Local, Placed
<1>8. Waits(l)'
  <2>1. Awaits(l, c)'
    BY DEF Awaits, Own
  <2>2. l \notin {"saveMarked", "saveCreated", "savePublished"}
    BY DEF Awaits
  <2> QED BY <1>2, <1>3, <2>1, <2>2 DEF Waits
<1>9. queue' \in Seq(Commands) /\ waiting' \in BOOLEAN
  BY <1>1, <1>2, <1>3
<1> QED BY <1>1, <1>4, <1>5, <1>6, <1>7, <1>8, <1>9, Walk DEF Local

\* A command of the queue is judged by its kind.
LEMMA KindFacts ==
  ASSUME ControlTypes, NEW c, CommandOK(c)
  PROVE  /\ IsMark(c) => MarkOK(c)
         /\ IsRestore(c) => RestoreOK(c)
         /\ IsRetire(c) => RetireOK(c)
         /\ IsDrop(c) => DropOK(c)
         /\ IsCreate(c) => CreateOK(c)
         /\ IsPublish(c) => PublishOK(c)
<1>1. c.attempt \in Attempts
  <2>1. c.attempt \in 1..splits
    BY DEF CommandOK, Turn
  <2>2. splits \in 0..MaxSplits /\ MaxSplits \in Nat
    BY TabletSplitAssumption DEF ControlTypes
  <2> QED BY <2>1, <2>2 DEF Attempts
<1>2. OnChild(c) => c.tablet # Source
  BY <1>1, TabletFacts DEF OnChild
<1>3. CASE MarkOK(c) \/ RestoreOK(c) \/ RetireOK(c)
  BY <1>2, <1>3 DEF MarkOK, RestoreOK, RetireOK, IsMark, IsRestore, IsRetire, IsDrop,
                    IsCreate, IsPublish, OnSource
<1>4. CASE DropOK(c) \/ PublishOK(c)
  BY <1>2, <1>4 DEF DropOK, PublishOK, IsMark, IsRestore, IsRetire, IsDrop, IsCreate,
                    IsPublish, OnSource
<1>5. CASE CreateOK(c) \/ IsUncreate(c)
  BY <1>2, <1>5 DEF CreateOK, IsUncreate, IsMark, IsRestore, IsRetire, IsDrop, IsCreate,
                    IsPublish, OnSource
<1> QED BY <1>3, <1>4, <1>5 DEF CommandOK

\* The source is removed by a published split only.
LEMMA NoDrops ==
  ASSUME ControlTypes, Queued, record.phase # "Published", ~gone
  PROVE  \A d \in Range(queue) : ~IsDrop(d) /\ ~IsRetire(d)
<1>1. ASSUME NEW d \in Range(queue) PROVE ~IsDrop(d) /\ ~IsRetire(d)
  <2>1. CommandOK(d)
    BY DEF Queued
  <2>2. ~DropOK(d) /\ ~RetireOK(d)
    BY DEF DropOK, RetireOK
  <2> QED BY <2>1, <2>2, KindFacts
<1> QED BY <1>1

\* Past the mark, a split's creations and publication are in the queue only in
\* the phase that proposes them.
LEMMA NoStrangers ==
  ASSUME ControlTypes, Queued, record # NoRecord, record.phase # "Started"
  PROVE  \A d \in Range(queue) :
           /\ Own(d) /\ ~IsMark(d)
           /\ IsPublish(d) => record.phase = "CaughtUp"
           /\ IsCreate(d) => record.phase = "MarkedSplitting"
<1>1. ASSUME NEW d \in Range(queue)
      PROVE  /\ Own(d) /\ ~IsMark(d)
             /\ IsPublish(d) => record.phase = "CaughtUp"
             /\ IsCreate(d) => record.phase = "MarkedSplitting"
  <2>1. CommandOK(d) /\ Own(d)
    BY DEF Queued, CommandOK, Turn, Recorded
  <2>2. /\ MarkOK(d) => record.phase = "Started"
        /\ PublishOK(d) => record.phase = "CaughtUp"
        /\ CreateOK(d) => record.phase = "MarkedSplitting"
    BY <2>1 DEF PublishOK, CreateOK, MarkOK
  <2> QED BY <2>1, <2>2, KindFacts
<1> QED BY <1>1

\* A driver at work has a record, and the source is not torn down.
LEMMA Working ==
  ASSUME IInv, NEW l \in Labels, Local(l), l \notin {"idle", "unpin"}
  PROVE  /\ Global /\ MetaTypes /\ ControlTypes /\ DataTypes /\ Placed(l)
         /\ Queued /\ DropsLast /\ Owned /\ Progress /\ Clean /\ Served
         /\ record # NoRecord /\ ~gone
         /\ record.attempt = splits /\ splits \in Attempts /\ splits \in Nat \ {0}
         /\ record.phase \in Phases /\ record.gen \in Nat
<1>1. /\ Global /\ MetaTypes /\ ControlTypes /\ DataTypes /\ Placed(l)
      /\ Queued /\ DropsLast /\ Owned /\ Progress /\ Clean /\ Served
  BY DEF IInv, Global, Types, Local
<1>2. record.phase # "none"
  BY <1>1 DEF Placed, Labels, Undoing, Phases
<1>3. record # NoRecord
  BY <1>1, <1>2, RecordFacts
<1>4. ~gone
  BY <1>1, <1>3 DEF Progress
<1>5. /\ record.attempt = splits /\ splits \in Attempts
      /\ record.phase \in Phases /\ record.gen \in Nat
  BY <1>1, <1>3, RecordFacts
<1>6. splits \in Nat \ {0}
  BY <1>5 DEF Attempts
<1> QED BY <1>1, <1>3, <1>4, <1>5, <1>6

\* The command a driver proposes.
LEMMA CommandFacts ==
  ASSUME record.attempt \in Attempts,
         NEW kind \in {"Set", "Remove", "Publish"}, NEW t \in Tablets,
         NEW state \in States \cup {"absent"}, NEW gen \in Nat, NEW c,
         c = Command(kind, t, state, gen)
  PROVE  /\ c \in Commands /\ c.kind = kind /\ c.tablet = t
         /\ c.attempt = record.attempt /\ Own(c)
         /\ c.desc.state = state /\ c.desc.gen = gen
  BY DEF Command, Commands, Own

\* A driver proposes to mark the source as splitting.
LEMMA MarkIInv ==
  ASSUME IInv, MarkSourceSplitting PROVE IInv'
<1>1. PICK l \in Labels : At(l) /\ Local(l)
  BY DEF IInv
<1>2. l = "mark"
  BY <1>1, Executing, Places DEF MarkSourceSplitting
<1>3. /\ ControlTypes /\ MetaTypes /\ Queued /\ Progress
      /\ record # NoRecord /\ ~gone /\ record.phase = "Started"
      /\ record.attempt = splits /\ splits \in Attempts /\ splits \in Nat \ {0}
      /\ record.gen \in Nat
  BY <1>1, <1>2, Working DEF Placed
<1>4. PICK c : c = SetTablet(Source, "Splitting", record.gen + 1)
  OBVIOUS
<1>5. /\ c \in Commands /\ c.kind = "Set" /\ c.tablet = Source /\ Own(c)
      /\ c.attempt = splits /\ c.desc.state = "Splitting" /\ c.desc.gen = record.gen + 1
  <2>1. "Splitting" \in States \cup {"absent"} /\ record.gen + 1 \in Nat
    BY <1>3 DEF States
  <2> QED BY <1>3, <1>4, <2>1, TabletFacts, CommandFacts DEF SetTablet
<1>6. CommandOK(c)
  <2>1. Turn(c)
    BY <1>3, <1>5 DEF Turn
  <2>2. Src # NoDesc /\ Src.gen \in Nat /\ record.gen + (IF Src.state = "Active" THEN 0 ELSE 1) <= Src.gen
    BY <1>3, TabletFacts DEF Progress, Recorded, NoDesc, MetaTypes, Src
  <2>3. MarkOK(c)
    BY <1>3, <1>5, <2>2 DEF MarkOK, IsMark, OnSource
  <2> QED BY <2>1, <2>3 DEF CommandOK
<1>7. Awaits(l, c) /\ ~IsCreate(c)
  BY <1>2, <1>5 DEF Awaits, IsMark, OnSource, IsCreate
<1>8. \A d \in Range(queue) : ~IsDrop(d)
  BY <1>3, NoDrops
<1>9. /\ Propose(c)
      /\ UNCHANGED <<meta, record, pin, log, applied, rows, splits, gone, truth,
                     readAt, aborted, undone, stray>>
  BY <1>4 DEF MarkSourceSplitting, Executes, ExecutesPlan
<1> QED BY <1>1, <1>5, <1>6, <1>7, <1>8, <1>9, ProposeStep

\* A driver proposes to create a child.
LEMMA CreateIInv ==
  ASSUME IInv, CreateChild PROVE IInv'
<1>1. PICK l \in Labels : At(l) /\ Local(l)
  BY DEF IInv
<1>2. l \in {"createL", "createU"} /\ Arg = Operand(l, Pending)
  BY <1>1, Executing, Places DEF CreateChild
<1>3. /\ ControlTypes /\ Owned /\ Queued
      /\ record # NoRecord /\ ~gone /\ record.phase = "MarkedSplitting"
      /\ record.attempt = splits /\ splits \in Attempts /\ splits \in Nat \ {0}
      /\ record.gen \in Nat
  BY <1>1, <1>2, Working DEF Placed
<1>4. PICK k \in Keys : k = Arg
  BY <1>2, KeyFacts DEF Operand
<1>5. PICK c : c = SetTablet(Child(splits, k), "Creating", record.gen + 1)
  OBVIOUS
<1>6. /\ c \in Commands /\ c.kind = "Set" /\ c.tablet = Child(splits, k) /\ Own(c)
      /\ c.attempt = splits /\ c.desc.state = "Creating"
  <2>1. "Creating" \in States \cup {"absent"} /\ record.gen + 1 \in Nat
    BY <1>3 DEF States
  <2>2. Child(splits, k) \in Tablets
    BY <1>3, TabletFacts
  <2> QED BY <1>3, <1>5, <2>1, <2>2, CommandFacts DEF SetTablet
<1>7. IsCreate(c)
  BY <1>6 DEF IsCreate, OnChild
<1>8. CommandOK(c)
  <2>1. Turn(c)
    BY <1>3, <1>6 DEF Turn
  <2>2. Child(splits, k) \in Children
    BY <1>3, TabletFacts
  <2>3. meta[c.tablet].state # "Active"
    BY <1>3, <1>6, <2>2 DEF Owned
  <2> QED BY <1>3, <1>7, <2>1, <2>3 DEF CommandOK, CreateOK
<1>9. Awaits(l, c) /\ \A d \in Range(queue) : ~IsDrop(d) /\ ~IsPublish(d)
  BY <1>2, <1>3, <1>6, <1>7, NoDrops, NoStrangers DEF Awaits
<1>10. /\ Propose(c)
       /\ UNCHANGED <<meta, record, pin, log, applied, rows, splits, gone, truth,
                      readAt, aborted, undone, stray>>
  BY <1>3, <1>4, <1>5 DEF CreateChild, Executes, ExecutesPlan
<1> QED BY <1>1, <1>6, <1>8, <1>9, <1>10, ProposeStep

\* A driver proposes the publication.
LEMMA PublishIInv ==
  ASSUME IInv, PublishChildren PROVE IInv'
<1>1. PICK l \in Labels : At(l) /\ Local(l)
  BY DEF IInv
<1>2. l = "publish"
  BY <1>1, Executing, Places DEF PublishChildren
<1>3. /\ ControlTypes /\ Owned /\ Queued
      /\ record # NoRecord /\ ~gone /\ record.phase = "CaughtUp"
      /\ record.attempt = splits /\ splits \in Attempts /\ splits \in Nat \ {0}
      /\ record.gen \in Nat
  BY <1>1, <1>2, Working DEF Placed
<1>4. PICK c : c = PublishSplit
  OBVIOUS
<1>5. /\ c \in Commands /\ c.kind = "Publish" /\ c.tablet = Source /\ Own(c)
      /\ c.attempt = splits /\ c.desc.state = "Retiring" /\ c.desc.gen = record.gen + 2
  <2>1. "Retiring" \in States \cup {"absent"} /\ record.gen + 2 \in Nat
    BY <1>3 DEF States
  <2> QED BY <1>3, <1>4, <2>1, TabletFacts, CommandFacts DEF PublishSplit
<1>6. IsPublish(c) /\ ~IsCreate(c)
  BY <1>5 DEF IsPublish, IsCreate
<1>7. \A d \in Range(queue) : ~IsDrop(d) /\ ~IsCreate(d)
  BY <1>3, NoDrops, NoStrangers
<1>8. CommandOK(c)
  <2>1. Turn(c)
    BY <1>3, <1>5 DEF Turn
  <2> QED BY <1>3, <1>5, <1>6, <1>7, <2>1 DEF CommandOK, PublishOK
<1>9. Awaits(l, c)
  BY <1>2, <1>5, <1>6 DEF Awaits
<1>10. /\ Propose(c)
       /\ UNCHANGED <<meta, record, pin, log, applied, rows, splits, gone, truth,
                      readAt, aborted, undone, stray>>
  BY <1>4 DEF PublishChildren, Executes, ExecutesPlan
<1> QED BY <1>1, <1>5, <1>6, <1>7, <1>8, <1>9, <1>10, ProposeStep

\* A driver that goes on to the next instruction and changes nothing else.
LEMMA PassStep ==
  ASSUME IInv, NEW l \in Labels, At(l), Local(l), NEW m, m = Then(l),
         NEW op, Doing(op), Skip,
         UNCHANGED <<meta, record, pin, log, applied, rows, splits, gone, truth,
                     readAt, aborted, undone, stray>>,
         m \notin {"saveMarked", "saveCreated", "savePublished"},
         Placed(m), Reached(m), Pinned(m), Copied(m)
  PROVE  IInv'
<1>1. /\ todo' = Tail(todo) /\ waiting' = waiting /\ queue' = queue /\ Global
      /\ waiting \in BOOLEAN
  BY DEF Skip, Advance, IInv, Global, Types, ControlTypes
<1>2. ~waiting /\ At(m)'
  BY <1>1, Executing
<1>3. m \in Labels \ {"apply"}
  BY CodeFacts
<1>4. queue' \in Seq(Commands) /\ DropsLast'
  BY <1>1 DEF Global, Types, ControlTypes, DropsLast
<1>5. Queued'
  BY <1>1, QueuedKept DEF Global
<1>6. Placed(m)' /\ Waits(m)'
  BY <1>1, <1>2 DEF Placed, Waits
<1> QED BY <1>1, <1>2, <1>3, <1>4, <1>5, <1>6, Walk

\* A driver that gives up at an instruction.
LEMMA RefuseStep ==
  ASSUME IInv, Refuse,
         UNCHANGED <<meta, record, pin, log, applied, rows, splits, gone, truth,
                     readAt, aborted, undone, stray>>
  PROVE  IInv'
<1>1. todo' = <<>> /\ waiting' = FALSE /\ queue' = queue
  BY DEF Refuse, Fail
<1>2. Queued'
  BY <1>1, QueuedKept DEF IInv, Global
<1>3. queue' \in Seq(Commands) /\ DropsLast'
  BY <1>1 DEF IInv, Global, Types, ControlTypes, DropsLast
<1> QED BY <1>1, <1>2, <1>3, GiveUp

\* A driver proposes to retire the source, or finds it retired.
LEMMA RetireIInv ==
  ASSUME IInv, RetireSource PROVE IInv'
<1>1. PICK l \in Labels : At(l) /\ Local(l)
  BY DEF IInv
<1>2. l = "retire"
  BY <1>1, Executing, Places DEF RetireSource
<1>3. /\ ControlTypes /\ MetaTypes /\ Queued
      /\ record # NoRecord /\ ~gone /\ record.phase = "Published"
      /\ record.attempt = splits /\ splits \in Attempts /\ splits \in Nat \ {0}
      /\ Src.gen \in Nat
  <2>1. Src.gen \in Nat
    BY <1>1, <1>2, Working, TabletFacts DEF MetaTypes, Src
  <2> QED BY <1>1, <1>2, <2>1, Working DEF Placed
<1>4. UNCHANGED <<meta, record, pin, log, applied, rows, splits, gone, truth,
                  readAt, aborted, undone, stray>>
  BY DEF RetireSource, Executes, ExecutesPlan
<1>5. CASE Src.state \in {"absent", "Retired"} /\ Skip
  <2>1. Then(l) = "drop"
    BY <1>2 DEF Then
  <2>2. Placed("drop") /\ Reached("drop") /\ Pinned("drop") /\ Copied("drop")
    BY <1>1, <1>3, <1>5 DEF Local, Placed, Reached, Pinned, Copied, Undoing
  <2> QED BY <1>1, <1>4, <1>5, <2>1, <2>2, PassStep DEF RetireSource
<1>6. CASE /\ Src.state \notin {"absent", "Retired"}
           /\ CanTransition(Src.state, "Retired")
           /\ Propose(SetTablet(Source, "Retired", Src.gen + 1))
  <2>1. PICK c : c = SetTablet(Source, "Retired", Src.gen + 1)
    OBVIOUS
  <2>2. /\ c \in Commands /\ c.kind = "Set" /\ c.tablet = Source /\ Own(c)
        /\ c.attempt = splits /\ c.desc.state = "Retired" /\ c.desc.gen = Src.gen + 1
    <3>1. "Retired" \in States \cup {"absent"} /\ Src.gen + 1 \in Nat
      BY <1>3 DEF States
    <3> QED BY <1>3, <2>1, <3>1, TabletFacts, CommandFacts DEF SetTablet
  <2>3. Src.state = "Retiring"
    BY <1>3, <1>6 DEF CanTransition, MetaTypes
  <2>4. IsRetire(c) /\ ~IsCreate(c)
    BY <2>2 DEF IsRetire, OnSource, IsCreate
  <2>5. CommandOK(c)
    BY <1>3, <2>2, <2>3, <2>4 DEF CommandOK, Turn, RetireOK
  <2>6. Awaits(l, c)
    BY <1>2, <2>2, <2>4 DEF Awaits
  <2>7. ASSUME NEW d \in Range(queue) PROVE ~IsDrop(d)
    BY <1>3, <2>3, KindFacts DEF Queued, DropOK
  <2> QED BY <1>1, <1>4, <1>6, <2>1, <2>2, <2>4, <2>5, <2>6, <2>7, ProposeStep
<1>7. CASE Refuse
  BY <1>4, <1>7, RefuseStep
<1>8. \/ Src.state \in {"absent", "Retired"} /\ Skip
      \/ /\ Src.state \notin {"absent", "Retired"}
         /\ CanTransition(Src.state, "Retired")
         /\ Propose(SetTablet(Source, "Retired", Src.gen + 1))
      \/ Refuse
  <2>1. CASE Src.state \in {"absent", "Retired"}
    BY <2>1 DEF RetireSource, Src, CanTransition
  <2>2. CASE Src.state \notin {"absent", "Retired"}
    BY <2>2 DEF RetireSource, Src
  <2> QED BY <2>1, <2>2
<1> QED BY <1>5, <1>6, <1>7, <1>8

\* A driver proposes to remove the source, or finds it removed.
LEMMA DropIInv ==
  ASSUME IInv, RemoveSource PROVE IInv'
<1>1. PICK l \in Labels : At(l) /\ Local(l)
  BY DEF IInv
<1>2. l = "drop"
  BY <1>1, Executing, Places DEF RemoveSource
<1>3. /\ ControlTypes /\ MetaTypes
      /\ record # NoRecord /\ ~gone /\ record.phase = "Published"
      /\ record.attempt = splits /\ splits \in Attempts /\ splits \in Nat \ {0}
      /\ Src.gen \in Nat /\ Src.state \in {"Retired", "absent"}
  <2>1. Src.gen \in Nat
    BY <1>1, <1>2, Working, TabletFacts DEF MetaTypes, Src
  <2> QED BY <1>1, <1>2, <2>1, Working DEF Placed, Local, Reached
<1>4. UNCHANGED <<meta, record, pin, log, applied, rows, splits, gone, truth,
                  readAt, aborted, undone, stray>>
  BY DEF RemoveSource, Executes, ExecutesPlan
<1>5. CASE Src = NoDesc /\ Skip
  <2>1. Then(l) = "teardown"
    BY <1>2 DEF Then
  <2>2. Placed("teardown") /\ Reached("teardown") /\ Pinned("teardown")
        /\ Copied("teardown")
    BY <1>1, <1>3, <1>5 DEF Local, Placed, Reached, Pinned, Copied, Undoing
  <2> QED BY <1>1, <1>4, <1>5, <2>1, <2>2, PassStep DEF RemoveSource
<1>6. CASE Propose(RemoveTablet(Source))
  <2>1. PICK c : c = RemoveTablet(Source)
    OBVIOUS
  <2>2. /\ c \in Commands /\ c.kind = "Remove" /\ c.tablet = Source /\ Own(c)
        /\ c.attempt = splits
    <3>1. c = Command("Remove", Source, "absent", Src.gen)
      BY <2>1 DEF RemoveTablet, Src
    <3> QED BY <1>3, <3>1, TabletFacts, CommandFacts
  <2>3. IsDrop(c) /\ ~IsCreate(c)
    BY <2>2 DEF IsDrop, IsCreate
  <2>4. CommandOK(c)
    BY <1>3, <2>2, <2>3 DEF CommandOK, Turn, DropOK
  <2>5. Awaits(l, c)
    BY <1>2, <2>2, <2>3 DEF Awaits
  <2> QED BY <1>1, <1>4, <1>6, <2>1, <2>2, <2>3, <2>4, <2>5, ProposeStep
<1> QED BY <1>5, <1>6 DEF RemoveSource, Src

\* An abort proposes to remove a child, or finds none.
LEMMA RemoveChildIInv ==
  ASSUME IInv, RemoveChild PROVE IInv'
<1>1. PICK l \in Labels : At(l) /\ Local(l)
  BY DEF IInv
<1>2. l \in {"removeL", "removeU"} /\ Arg = Operand(l, Pending)
  BY <1>1, Executing, Places DEF RemoveChild
<1>3. /\ ControlTypes /\ MetaTypes /\ Queued
      /\ record # NoRecord /\ ~gone /\ record.phase # "Published"
      /\ record.attempt = splits /\ splits \in Attempts /\ splits \in Nat \ {0}
  BY <1>1, <1>2, Working DEF Placed, Undoing
<1>4. PICK k \in Keys : /\ k = Arg
                        /\ l = "removeL" => k = Lower
                        /\ l = "removeU" => k = Upper
  BY <1>2, KeyFacts DEF Operand
<1>5. UNCHANGED <<meta, record, pin, log, applied, rows, splits, gone, truth,
                  readAt, aborted, undone, stray>>
  BY DEF RemoveChild, Executes, ExecutesPlan
<1>6. CASE Kid(k) = NoDesc /\ Skip
  <2>1. PICK m : m = Then(l)
    OBVIOUS
  <2>2. (l = "removeL" => m = "removeU") /\ (l = "removeU" => m = "restore")
    BY <2>1 DEF Then
  <2>3. Placed(m) /\ Reached(m) /\ Pinned(m) /\ Copied(m)
    BY <1>1, <1>2, <1>4, <1>6, <2>2 DEF Local, Placed, Reached, Pinned, Copied, Undoing
  <2> QED BY <1>1, <1>2, <1>5, <1>6, <2>1, <2>2, <2>3, PassStep DEF RemoveChild
<1>7. CASE Propose(RemoveTablet(Child(splits, k)))
  <2>1. PICK c : c = RemoveTablet(Child(splits, k))
    OBVIOUS
  <2>2. /\ c \in Commands /\ c.kind = "Remove" /\ c.tablet = Child(splits, k) /\ Own(c)
        /\ c.attempt = splits
    <3>1. c = Command("Remove", Child(splits, k), "absent", Kid(k).gen)
      BY <2>1 DEF RemoveTablet, Kid
    <3>2. Child(splits, k) \in Tablets
      BY <1>3, TabletFacts
    <3>3. Kid(k).gen \in Nat
      BY <1>3, <3>2 DEF MetaTypes, Kid
    <3> QED BY <1>3, <3>1, <3>2, <3>3, CommandFacts
  <2>3. IsUncreate(c) /\ ~IsCreate(c)
    BY <2>2 DEF IsUncreate, IsCreate, OnChild
  <2>4. CommandOK(c)
    BY <1>3, <2>2, <2>3 DEF CommandOK, Turn
  <2>5. Awaits(l, c)
    BY <1>2, <1>3, <1>4, <2>2, <2>3 DEF Awaits
  <2>6. \A d \in Range(queue) : ~IsDrop(d)
    BY <1>3, NoDrops
  <2> QED BY <1>1, <1>5, <1>7, <2>1, <2>2, <2>3, <2>4, <2>5, <2>6, ProposeStep
<1>8. Child(record.attempt, Arg) = Child(splits, k)
  BY <1>3, <1>4
<1>9. (Kid(k) = NoDesc /\ Skip) \/ Propose(RemoveTablet(Child(splits, k)))
  BY <1>8 DEF RemoveChild, Kid
<1> QED BY <1>6, <1>7, <1>9

\* An abort proposes to restore the source, or finds it serving.
LEMMA RestoreIInv ==
  ASSUME IInv, RestoreSource PROVE IInv'
<1>1. PICK l \in Labels : At(l) /\ Local(l)
  BY DEF IInv
<1>2. l = "restore"
  BY <1>1, Executing, Places DEF RestoreSource
<1>3. /\ ControlTypes /\ MetaTypes /\ Queued
      /\ record # NoRecord /\ ~gone /\ record.phase # "Published"
      /\ record.attempt = splits /\ splits \in Attempts /\ splits \in Nat \ {0}
      /\ Src.gen \in Nat
  <2>1. Src.gen \in Nat
    BY <1>1, <1>2, Working, TabletFacts DEF MetaTypes, Src
  <2> QED BY <1>1, <1>2, <2>1, Working DEF Placed, Undoing
<1>4. UNCHANGED <<meta, record, pin, log, applied, rows, splits, gone, truth,
                  readAt, aborted, undone, stray>>
  BY DEF RestoreSource, Executes, ExecutesPlan
<1>5. CASE Src.state = "Active" /\ Skip
  <2>1. Then(l) = "wipe"
    BY <1>2 DEF Then
  <2>2. Placed("wipe") /\ Reached("wipe") /\ Pinned("wipe") /\ Copied("wipe")
    BY <1>1, <1>2, <1>5 DEF Local, Placed, Reached, Pinned, Copied, Undoing, Up
  <2> QED BY <1>1, <1>4, <1>5, <2>1, <2>2, PassStep DEF RestoreSource
<1>6. CASE /\ Src.state # "Active"
           /\ CanTransition(Src.state, "Active")
           /\ Propose(SetTablet(Source, "Active", Src.gen + 1))
  <2>1. PICK c : c = SetTablet(Source, "Active", Src.gen + 1)
    OBVIOUS
  <2>2. /\ c \in Commands /\ c.kind = "Set" /\ c.tablet = Source /\ Own(c)
        /\ c.attempt = splits /\ c.desc.state = "Active" /\ c.desc.gen = Src.gen + 1
    <3>1. "Active" \in States \cup {"absent"} /\ Src.gen + 1 \in Nat
      BY <1>3 DEF States
    <3> QED BY <1>3, <2>1, <3>1, TabletFacts, CommandFacts DEF SetTablet
  <2>3. Src.state = "Splitting"
    BY <1>3, <1>6 DEF CanTransition, MetaTypes
  <2>4. IsRestore(c) /\ ~IsCreate(c)
    BY <2>2 DEF IsRestore, OnSource, IsCreate
  <2>5. CommandOK(c)
    BY <1>3, <2>2, <2>3, <2>4 DEF CommandOK, Turn, RestoreOK, NoDesc
  <2>6. Awaits(l, c)
    BY <1>2, <2>2, <2>4 DEF Awaits
  <2>7. \A d \in Range(queue) : ~IsDrop(d)
    BY <1>3, NoDrops
  <2> QED BY <1>1, <1>4, <1>6, <2>1, <2>2, <2>4, <2>5, <2>6, <2>7, ProposeStep
<1>7. CASE Refuse
  BY <1>4, <1>7, RefuseStep
<1>8. \/ Src.state = "Active" /\ Skip
      \/ /\ Src.state # "Active"
         /\ CanTransition(Src.state, "Active")
         /\ Propose(SetTablet(Source, "Active", Src.gen + 1))
      \/ Refuse
  <2>1. CASE Src.state = "Active"
    BY <2>1 DEF RestoreSource, Src, CanTransition
  <2>2. CASE Src.state # "Active"
    BY <2>2 DEF RestoreSource, Src
  <2> QED BY <2>1, <2>2
<1> QED BY <1>5, <1>6, <1>7, <1>8

(***************************************************************************)
(* The record, the pin and the children's rows.                            *)
(***************************************************************************)
\* A phase becomes durable.
LEMMA SaveIInv ==
  ASSUME IInv, SaveProgress PROVE IInv'
<1>1. PICK l \in Labels : At(l) /\ Local(l)
  BY DEF IInv
<1>2. /\ l \in {"saveMarked", "saveCreated", "savePinned", "saveBuilt", "saveCaughtUp",
                "savePublished"}
      /\ Arg = Operand(l, Pending) /\ ~waiting
  BY <1>1, Executing, Places DEF SaveProgress
<1>3. /\ MetaTypes /\ ControlTypes /\ DataTypes /\ Placed(l)
      /\ Queued /\ DropsLast /\ Owned /\ Progress /\ Clean /\ Served
      /\ record # NoRecord /\ ~gone
      /\ record.attempt = splits /\ splits \in Attempts /\ splits \in Nat \ {0}
      /\ record.phase \in Phases /\ record.gen \in Nat
  BY <1>1, <1>2, Working
<1>4. /\ UNCHANGED <<meta, queue, pin, log, applied, rows, waiting, splits, gone, truth,
                     readAt, aborted, undone, stray>>
      /\ todo' = Tail(todo)
  BY DEF SaveProgress, Executes, ExecutesPlan, Advance
<1>5. PICK p \in Phases \ {"Started"} :
        /\ p = Arg
        /\ l = "saveMarked" => p = "MarkedSplitting" /\ record.phase = "Started"
        /\ l = "saveCreated" => p = "ChildrenCreated" /\ record.phase = "MarkedSplitting"
        /\ l = "savePinned" => p = "SnapshotPinned" /\ record.phase = "ChildrenCreated"
        /\ l = "saveBuilt" => p = "ChildrenBuilt" /\ record.phase = "SnapshotPinned"
        /\ l = "saveCaughtUp" => p = "CaughtUp" /\ record.phase = "ChildrenBuilt"
        /\ l = "savePublished" => p = "Published" /\ record.phase = "CaughtUp"
  <2>1. PICK p : p = Arg
    OBVIOUS
  <2>2. /\ l = "saveMarked" => p = "MarkedSplitting"
        /\ l = "saveCreated" => p = "ChildrenCreated"
        /\ l = "savePinned" => p = "SnapshotPinned"
        /\ l = "saveBuilt" => p = "ChildrenBuilt"
        /\ l = "saveCaughtUp" => p = "CaughtUp"
        /\ l = "savePublished" => p = "Published"
    BY <1>2, <2>1 DEF Operand
  <2>3. p \in Phases \ {"Started"}
    BY <1>2, <2>2 DEF Phases
  <2>4. /\ l = "saveMarked" => record.phase = "Started"
        /\ l = "saveCreated" => record.phase = "MarkedSplitting"
        /\ l = "savePinned" => record.phase = "ChildrenCreated"
        /\ l = "saveBuilt" => record.phase = "SnapshotPinned"
        /\ l = "saveCaughtUp" => record.phase = "ChildrenBuilt"
        /\ l = "savePublished" => record.phase = "CaughtUp"
    BY <1>3 DEF Placed
  <2> QED BY <2>1, <2>2, <2>3, <2>4
<1>6. /\ record' \in [attempt : Attempts, gen : Nat, phase : Phases]
      /\ record'.attempt = splits /\ record'.gen = record.gen /\ record'.phase = p
      /\ record' # NoRecord
  <2>1. record \in [attempt : Attempts, gen : Nat, phase : Phases]
    BY <1>3 DEF ControlTypes
  <2>2. record' = [record EXCEPT !.phase = p]
    BY <1>5 DEF SaveProgress
  <2>3. p # "none"
    BY <1>5 DEF Phases
  <2> QED BY <1>3, <2>1, <2>2, <2>3 DEF NoRecord
<1>7. Types'
  BY <1>3, <1>4, <1>6 DEF Types, MetaTypes, ControlTypes, DataTypes, Src
<1>8. Queued'
  <2>1. CASE queue = <<>>
    <3>1. Range(queue') = {}
      BY <1>4, <2>1 DEF Range
    <3> QED BY <3>1 DEF Queued
  <2>2. CASE l \in {"savePinned", "saveBuilt", "saveCaughtUp"}
    <3>1. ASSUME NEW c \in Range(queue') PROVE CommandOK(c)'
      <4>1. CommandOK(c) /\ Own(c) /\ ~IsMark(c) /\ ~IsPublish(c) /\ ~IsCreate(c)
        BY <1>3, <1>4, <1>5, <2>2, <3>1, NoStrangers DEF Queued
      <4>2. ~IsDrop(c) /\ ~IsRetire(c)
        BY <1>3, <1>4, <1>5, <2>2, <3>1, NoDrops
      <4>3. Turn(c)'
        BY <1>3, <1>4, <1>5, <1>6, <2>2, <4>1 DEF CommandOK, Turn, Own
      <4>4. RestoreOK(c) \/ IsUncreate(c)
        BY <4>1, <4>2 DEF CommandOK, MarkOK, RetireOK, DropOK, CreateOK, PublishOK
      <4>5. RestoreOK(c) => RestoreOK(c)'
        BY <1>4 DEF RestoreOK, Src
      <4> QED BY <4>3, <4>4, <4>5 DEF CommandOK
    <3> QED BY <3>1 DEF Queued
  <2>3. queue = <<>> \/ l \in {"savePinned", "saveBuilt", "saveCaughtUp"}
    BY <1>1, <1>2 DEF Local, Waits
  <2> QED BY <2>1, <2>2, <2>3
<1>9. DropsLast' /\ Clean' /\ Served'
  BY <1>3, <1>4, <1>6 DEF DropsLast, Clean, Served, Recorded, Src
<1>10. record.phase \in {"CaughtUp", "Published"} => p = "Published"
  BY <1>2, <1>5
<1>11. Owned'
  BY <1>3, <1>4, <1>6, <1>10 DEF Owned, Src, Kid
<1>12. p = "Published" => Src.state \notin Up /\ \A k \in Keys : Kid(k).state = "Active"
  BY <1>1, <1>2, <1>5 DEF Local, Reached
<1>13. Progress'
  <2>1. Src.state \notin Up => p = "Published"
    BY <1>3, <1>10 DEF Progress
  <2>2. Src.state \in {"Retired", "absent"} => p = "Published"
    BY <1>3, <2>1 DEF Up
  <2> QED BY <1>3, <1>4, <1>6, <1>12, <2>1, <2>2 DEF Progress, Recorded, Src, Kid
<1>14. PICK m : m = Then(l)
  OBVIOUS
<1>15. m \in {"idle", "unpin"} /\ (m = "unpin" => l = "savePublished") /\ At(m)'
  BY <1>1, <1>2, <1>4, <1>14, Executing DEF Then, SaveProgress
<1>16. Placed(m)' /\ Waits(m)' /\ Reached(m)'
  <2>1. Placed(m)'
    BY <1>5, <1>6, <1>15 DEF Placed, Undoing
  <2>2. Waits(m)'
    BY <1>2, <1>4, <1>15 DEF Waits
  <2> QED BY <1>15, <2>1, <2>2 DEF Reached
<1>17. Pinned(m)'
  BY <1>1, <1>2, <1>3, <1>4, <1>5, <1>6, <1>15 DEF Local, Pinned, Recorded
<1>18. Copied(m)'
  <2>1. ASSUME NEW k \in Keys
        PROVE  /\ p = "ChildrenBuilt" => Built(k)
               /\ p = "CaughtUp" /\ Kid(k).state = "Creating" => CaughtUp(k)
    <3>1. p = "ChildrenBuilt" => l = "saveBuilt"
      BY <1>2, <1>5
    <3>2. p = "CaughtUp" => l = "saveCaughtUp"
      BY <1>2, <1>5
    <3>3. l = "saveBuilt" => Built(k)
      BY <1>1, KeyFacts DEF Local, Copied, Built
    <3>4. l = "saveCaughtUp" /\ Kid(k).state = "Creating" => CaughtUp(k)
      BY <1>1 DEF Local, Copied
    <3> QED BY <3>1, <3>2, <3>3, <3>4
  <2> QED BY <1>4, <1>6, <1>15, <2>1 DEF Copied, Kid, KidRow, Built, CaughtUp
<1> QED BY <1>7, <1>8, <1>9, <1>11, <1>13, <1>15, <1>16, <1>17, <1>18
        DEF IInv, Global, Local, Labels

\* The driver's clock, whether its process runs the source's replica, and
\* whether that keeps its history.
SourceTypes == splitTs \in 0..MaxWrites /\ hosted \in BOOLEAN /\ kept \in BOOLEAN

\* No step leaves these types.
LEMMA SourceInvariant == Spec => []SourceTypes
<1>1. Init => SourceTypes
  <2>1. Init => splitTs \in 0..MaxWrites
    BY TabletSplitAssumption DEF Init
  <2>2. Init => hosted \in BOOLEAN /\ kept \in BOOLEAN
    BY Zenon DEF Init
  <2> QED BY <2>1, <2>2 DEF SourceTypes
<1>2. ASSUME SourceTypes, [Next]_vars PROVE SourceTypes'
  <2>1. CASE BeginSplit
    BY <1>2, <2>1 DEF BeginSplit, SourceTypes
  <2>2. CASE Execute
    <3>1. splitTs' = splitTs \/ splitTs' = 0
      BY <2>2 DEF Execute, SaveProgress, MarkSourceSplitting, CreateChild, PinSnapshot,
         InstallStaged, ReadDeltas, ApplyDelta, PublishChildren, ReleaseSnapshot,
         RetireSource, RemoveSource, TeardownSource, RemoveChild, RestoreSource,
         TeardownChildren, ForgetSplit, Executes
    <3>2. hosted' = hosted \/ hosted' = FALSE
      BY <2>2 DEF Execute, SaveProgress, MarkSourceSplitting, CreateChild, PinSnapshot,
         InstallStaged, ReadDeltas, ApplyDelta, PublishChildren, ReleaseSnapshot,
         RetireSource, RemoveSource, TeardownSource, RemoveChild, RestoreSource,
         TeardownChildren, ForgetSplit
    <3>3. kept' = kept \/ kept' = TRUE \/ kept' = FALSE
      BY <2>2 DEF Execute, SaveProgress, MarkSourceSplitting, CreateChild, PinSnapshot,
         InstallStaged, ReadDeltas, ApplyDelta, PublishChildren, ReleaseSnapshot,
         RetireSource, RemoveSource, TeardownSource, RemoveChild, RestoreSource,
         TeardownChildren, ForgetSplit, Executes
    <3>4. splitTs' \in 0..MaxWrites
      BY <1>2, <3>1, TabletSplitAssumption DEF SourceTypes
    <3>5. hosted' \in BOOLEAN /\ kept' \in BOOLEAN
      BY <1>2, <3>2, <3>3, Zenon DEF SourceTypes
    <3> QED BY <3>4, <3>5 DEF SourceTypes
  <2>3. CASE StopInPin \/ Restart
    <3>1. splitTs' = splitTs \/ splitTs' = 0
      BY <2>3 DEF StopInPin, Restart
    <3>2. splitTs' \in 0..MaxWrites
      BY <1>2, <3>1, TabletSplitAssumption DEF SourceTypes
    <3>3. hosted' \in BOOLEAN /\ kept' \in BOOLEAN
      BY <1>2, <2>3, Zenon DEF StopInPin, Restart, SourceTypes
    <3> QED BY <3>2, <3>3 DEF SourceTypes
  <2>4. CASE UNCHANGED source
    BY <1>2, <2>4 DEF source, SourceTypes
  <2>5. Next \/ UNCHANGED vars => \/ BeginSplit \/ Execute \/ StopInPin \/ Restart
                                  \/ UNCHANGED source
    BY DEF Next, ResumeSplit, AbortSplit, ApplyMeta, Stop, LoseProposals, WriteSource,
           ReplicaApplies, WriteChild, source, vars
  <2> QED BY <1>2, <2>1, <2>2, <2>3, <2>4, <2>5
<1> QED BY <1>1, <1>2, PTL DEF Spec

\* The epoch a pin may fix is one the driver's replica has applied.
LEMMA EpochReached ==
  ASSUME SourceTypes, DataTypes PROVE PinEpochs \subseteq 0..applied
<1>1. splitTs \in Nat /\ applied \in Nat
  BY TabletSplitAssumption DEF SourceTypes, DataTypes, Logs
<1>2. \E x \in {splitTs, applied} : \A y \in {splitTs, applied} : x <= y
  BY <1>1
<1>3. /\ SplitEpoch \in {splitTs, applied}
      /\ \A y \in {splitTs, applied} : SplitEpoch <= y
  BY <1>2 DEF SplitEpoch, Min
<1> QED BY <1>1, <1>3 DEF PinEpochs

\* The first pin of a split fixes the epoch; another split's pin refuses.
LEMMA PinIInv ==
  ASSUME IInv, SourceTypes, PinSnapshot PROVE IInv'
<1>1. PICK l \in Labels : At(l) /\ Local(l)
  BY DEF IInv
<1>2. l \in {"pin", "pinBuild", "pinRead"} /\ ~waiting
  BY <1>1, Executing, Places DEF PinSnapshot
<1>3. /\ MetaTypes /\ ControlTypes /\ DataTypes /\ Placed(l) /\ Global
      /\ Queued /\ DropsLast /\ Owned /\ Progress /\ Clean /\ Served
      /\ record # NoRecord /\ record.attempt = splits /\ splits \in Attempts
      /\ splits \in Nat \ {0}
  BY <1>1, <1>2, Working
<1>4. /\ UNCHANGED <<meta, record, log, applied, rows, splits, gone, truth,
                     readAt, aborted, undone, stray>>
  BY DEF PinSnapshot, Executes, ExecutesPlan
<1>5. PICK m : m = Then(l)
  OBVIOUS
<1>6. /\ l = "pin" => m = "savePinned"
      /\ l = "pinBuild" => m = "installL"
      /\ l = "pinRead" => m = "read"
  BY <1>5 DEF Then
<1>7. Placed(m) /\ Reached(m) /\ Copied(m) /\ m \in Labels \ {"apply"}
  BY <1>1, <1>2, <1>3, <1>6 DEF Local, Placed, Reached, Copied, Labels, Undoing
<1>8. CASE pin = NoPin /\ pin' # NoPin
  <2>1. PICK n \in 0..applied : pin' = [attempt |-> record.attempt, at |-> n] /\ Skip
    BY <1>3, <1>8, EpochReached DEF PinSnapshot
  <2>2. Skip
    BY <2>1
  <2>3. /\ todo' = Tail(todo) /\ waiting' = waiting /\ queue' = queue
    BY <2>2 DEF Skip, Advance
  <2>4. pin.attempt = 0 /\ pin'.attempt = record.attempt /\ pin'.at = n
    BY <1>8, <2>1 DEF NoPin
  <2>5. l = "pin"
    BY <1>1, <1>2, <1>3, <2>4 DEF Local, Pinned, Placed
  <2>6. At(m)'
    BY <1>1, <1>5, <2>3, Executing DEF PinSnapshot
  <2>7. Types'
    BY <1>3, <1>4, <2>3, <2>4 DEF Types, MetaTypes, ControlTypes, DataTypes, Src
  <2>8. Queued'
    BY <1>3, <1>4, <2>3, QueuedKept
  <2>9. DropsLast' /\ Owned' /\ Progress' /\ Clean' /\ Served'
    BY <1>3, <1>4, <2>3 DEF DropsLast, Owned, Progress, Clean, Served, Src, Kid, Recorded
  <2>10. Placed(m)' /\ Waits(m)' /\ Reached(m)'
    BY <1>2, <1>4, <1>6, <1>7, <2>3, <2>5 DEF Placed, Waits, Reached
  <2>11. Pinned(m)'
    BY <1>1, <1>3, <1>4, <1>6, <2>4, <2>5 DEF Local, Pinned, Placed, Recorded
  <2>12. Copied(m)'
    <3>1. record.phase = "ChildrenCreated" /\ m = "savePinned"
      BY <1>3, <1>6, <2>5 DEF Placed
    <3> QED BY <1>4, <3>1 DEF Copied
  <2> QED BY <1>7, <2>6, <2>7, <2>8, <2>9, <2>10, <2>11, <2>12 DEF IInv, Global, Local
<1>9. CASE pin # NoPin /\ pin.attempt = record.attempt /\ (kept \/ Retained(pin.at))
  <2>1. Skip /\ pin' = pin
    BY <1>9 DEF PinSnapshot
  <2>2. Pinned(m)
    BY <1>1, <1>2, <1>6, <1>9 DEF Local, Pinned
  <2>3. m \notin {"saveMarked", "saveCreated", "savePublished"}
    BY <1>2, <1>6
  <2> QED BY <1>1, <1>4, <1>5, <1>7, <2>1, <2>2, <2>3, PassStep DEF PinSnapshot
<1>10. CASE \/ pin = NoPin /\ pin' = NoPin
            \/ pin # NoPin /\ pin.attempt # record.attempt
            \/ pin # NoPin /\ ~(kept \/ Retained(pin.at))
  <2>1. \A n : NoPin # [attempt |-> record.attempt, at |-> n]
    <3>1. NoPin.attempt # record.attempt
      BY <1>3 DEF NoPin
    <3> QED BY <3>1
  <2>2. Refuse /\ pin' = pin
    BY <1>10, <2>1 DEF PinSnapshot
  <2> QED BY <1>4, <2>2, RefuseStep
<1> QED BY <1>8, <1>9, <1>10

\* A fault between the pin's file and the retention of its history.
LEMMA StopInPinIInv ==
  ASSUME IInv, SourceTypes, StopInPin PROVE IInv'
<1>1. PICK l \in Labels : At(l) /\ Local(l)
  BY DEF IInv
<1>2. l \in {"pin", "pinBuild", "pinRead"} /\ ~waiting
  BY <1>1, Executing, Places DEF StopInPin
<1>3. /\ MetaTypes /\ ControlTypes /\ DataTypes /\ Placed(l) /\ Global
      /\ Queued /\ DropsLast /\ Owned /\ Progress /\ Clean /\ Served
      /\ record # NoRecord /\ record.attempt = splits /\ splits \in Attempts
      /\ splits \in Nat \ {0}
  BY <1>1, <1>2, Working
<1>4. /\ UNCHANGED <<meta, queue, record, log, applied, rows, splits, gone, truth,
                     readAt, aborted, undone, stray>>
      /\ todo' = <<>> /\ waiting' = FALSE
  BY DEF StopInPin, Fail, data, history
<1>5. PICK n \in 0..applied : pin' = [attempt |-> record.attempt, at |-> n]
  BY <1>3, EpochReached DEF StopInPin
<1>6. pin.attempt = 0 /\ pin'.attempt = record.attempt /\ pin'.at = n
  BY <1>5 DEF StopInPin, NoPin
<1>7. record.phase = "ChildrenCreated"
  BY <1>1, <1>2, <1>3, <1>6 DEF Local, Pinned, Placed
<1>8. "idle" \in Labels /\ At("idle")'
  BY <1>1, <1>4, Moves DEF Labels
<1>9. Types'
  BY <1>3, <1>4, <1>6 DEF Types, MetaTypes, ControlTypes, DataTypes, Src
<1>10. Queued'
  BY <1>3, <1>4, QueuedKept
<1>11. DropsLast' /\ Owned' /\ Progress' /\ Clean' /\ Served'
  BY <1>3, <1>4 DEF DropsLast, Owned, Progress, Clean, Served, Src, Kid, Recorded
<1>12. Placed("idle")' /\ Waits("idle")'
  BY <1>4 DEF Placed, Waits, Undoing
<1>13. Reached("idle")' /\ Pinned("idle")' /\ Copied("idle")'
  BY <1>1, <1>2, <1>3, <1>4, <1>6, <1>7
     DEF Local, Reached, Pinned, Copied, Placed, Recorded
<1> QED BY <1>8, <1>9, <1>10, <1>11, <1>12, <1>13 DEF IInv, Global, Local

\* A child receives its half of the pinned rows.
LEMMA InstallIInv ==
  ASSUME IInv, InstallStaged PROVE IInv'
<1>1. PICK l \in Labels : At(l) /\ Local(l)
  BY DEF IInv
<1>2. l \in {"installL", "installU"} /\ ~waiting /\ Arg = Operand(l, Pending)
  BY <1>1, Executing, Places DEF InstallStaged
<1>3. /\ MetaTypes /\ ControlTypes /\ DataTypes /\ Placed(l)
      /\ Queued /\ DropsLast /\ Owned /\ Progress /\ Clean /\ Served
      /\ record # NoRecord /\ ~gone /\ record.attempt = splits /\ splits \in Attempts
      /\ record.phase = "SnapshotPinned"
  BY <1>1, <1>2, Working DEF Placed
<1>4. /\ UNCHANGED <<meta, queue, record, pin, log, applied, waiting, splits, gone, truth,
                     readAt, aborted, undone, stray>>
      /\ todo' = Tail(todo)
  BY DEF InstallStaged, Executes, ExecutesPlan, Skip, Advance
<1>5. PICK k \in Keys : k = Arg /\ (l = "installL" => k = Lower) /\ (l = "installU" => k = Upper)
  BY <1>2, KeyFacts DEF Operand
<1>6. PICK v \in Values : v = Row(log, pin.at, k)
  <2>1. pin.at \in 0..Len(log)
    BY <1>3 DEF DataTypes, NoPin
  <2> QED BY <1>3, <2>1, RowType DEF DataTypes
<1>7. PICK t \in Children : t = Child(splits, k)
  BY <1>3, TabletFacts
<1>8. rows' = [rows EXCEPT ![t] = v]
  BY <1>3, <1>5, <1>6, <1>7, RowsAtFacts DEF InstallStaged
<1>9. rows' \in [Children -> Values] /\ rows'[t] = v /\ \A s \in Children : s # t => rows'[s] = rows[s]
  BY <1>3, <1>8 DEF DataTypes
<1>10. \A s \in Children : meta[s].state # "Active"
  BY <1>3 DEF Owned
<1>11. Types'
  BY <1>3, <1>4, <1>9 DEF Types, MetaTypes, ControlTypes, DataTypes, Src
<1>12. Queued'
  BY <1>3, <1>4, QueuedKept
<1>13. DropsLast' /\ Owned' /\ Progress' /\ Clean'
  BY <1>3, <1>4 DEF DropsLast, Owned, Progress, Clean, Src, Kid, Recorded
<1>14. Served'
  BY <1>3, <1>4, <1>10 DEF Served, Src
<1>15. PICK m : m = Then(l)
  OBVIOUS
<1>16. (l = "installL" => m = "installU") /\ (l = "installU" => m = "saveBuilt")
  BY <1>15 DEF Then
<1>17. m \in Labels /\ At(m)'
  BY <1>1, <1>2, <1>4, <1>15, <1>16, Executing DEF InstallStaged, Labels
<1>18. Placed(m)' /\ Waits(m)' /\ Reached(m)' /\ Pinned(m)'
  BY <1>1, <1>2, <1>3, <1>4, <1>16
     DEF Local, Placed, Waits, Reached, Pinned, Undoing, Recorded
<1>19. Copied(m)'
  <2>1. /\ Child(splits, Lower) \in Children /\ Child(splits, Upper) \in Children
        /\ Child(splits, Lower) # Child(splits, Upper)
    BY <1>3, TabletFacts, KeyFacts
  <2>2. rows'[Child(splits, Lower)] = Row(log, pin.at, Lower)
    <3>1. CASE l = "installL"
      BY <1>5, <1>6, <1>7, <1>9, <3>1
    <3>2. CASE l = "installU"
      BY <1>1, <1>5, <1>7, <1>9, <2>1, <3>2 DEF Local, Copied, KidRow
    <3> QED BY <1>2, <3>1, <3>2
  <2>3. l = "installU" => rows'[Child(splits, Upper)] = Row(log, pin.at, Upper)
    BY <1>5, <1>6, <1>7, <1>9
  <2> QED BY <1>2, <1>3, <1>4, <1>16, <2>2, <2>3 DEF Copied, KidRow
<1> QED BY <1>11, <1>12, <1>13, <1>14, <1>17, <1>18, <1>19 DEF IInv, Global, Local

\* One instruction before another.
LEMMA Joined ==
  ASSUME NEW a, NEW b
  PROVE  <<a>> \o <<b>> = <<a, b>>
<1>1. PICK p, q : p = <<a>> /\ q = <<b>>
  OBVIOUS
<1>2. p \in Seq({a, b}) /\ q \in Seq({a, b}) /\ Len(p) = 1 /\ Len(q) = 1
      /\ p[1] = a /\ q[1] = b
  BY <1>1
<1>3. PICK s : s = p \o q
  OBVIOUS
<1>4. /\ s \in Seq({a, b}) /\ Len(s) = Len(p) + Len(q)
      /\ \A i \in 1..(Len(p) + Len(q)) : s[i] = IF i <= Len(p) THEN p[i] ELSE q[i - Len(p)]
  BY <1>2, <1>3, ConcatProperties
<1>5. Len(s) = 2 /\ s[1] = a /\ s[2] = b
  BY <1>2, <1>4
<1>6. PICK t : t = <<a, b>>
  OBVIOUS
<1>7. t \in Seq({a, b}) /\ Len(t) = 2 /\ t[1] = a /\ t[2] = b
  BY <1>6
<1>8. \A i \in 1..Len(s) : s[i] = t[i]
  BY <1>5, <1>7
<1>9. s = t
  BY <1>4, <1>5, <1>7, <1>8, SeqEqual
<1> QED BY <1>1, <1>3, <1>6, <1>9

\* Up to the catch-up read, and after it for a half that is not late, the
\* replica's rows of the half are those of every later position.
LEMMA NotLate ==
  ASSUME NEW w \in Logs, NEW r \in Nat, NEW n \in Nat, r <= n, n <= Len(w), NEW k,
         ~LateIn(w, r, k)
  PROVE  Row(w, r, k) = Row(w, n, k)
<1>1. ~ \E i \in (r + 1)..n : w[i].key = k
  <2>1. Len(w) \in Nat
    BY DEF Logs
  <2> QED BY <2>1 DEF LateIn
<1> QED BY <1>1, RowKept

\* The driver reads what changed since the pin.
LEMMA ReadIInv ==
  ASSUME IInv, ReadDeltas PROVE IInv'
<1>1. PICK l \in Labels : At(l) /\ Local(l)
  BY DEF IInv
<1>2. l = "read" /\ ~waiting
  BY <1>1, Executing, Places DEF ReadDeltas
<1>3. /\ MetaTypes /\ ControlTypes /\ DataTypes /\ Placed(l)
      /\ Queued /\ DropsLast /\ Owned /\ Progress /\ Clean /\ Served
      /\ record # NoRecord /\ ~gone /\ record.attempt = splits /\ splits \in Attempts
      /\ record.phase = "ChildrenBuilt"
  BY <1>1, <1>2, Working DEF Placed
<1>4. /\ UNCHANGED <<meta, queue, record, pin, log, applied, rows, waiting, splits, gone,
                     truth, aborted, undone, stray>>
      /\ readAt' = IF readAt = NotRead THEN applied ELSE readAt
  BY DEF ReadDeltas, Executes, ExecutesPlan
<1>5. PICK g : g = [k \in Deltas |-> RowsAt(applied)[k]]
  OBVIOUS
<1>6. /\ DOMAIN g = Deltas /\ \A k \in Deltas : k \in Keys /\ g[k] = Row(log, applied, k)
      /\ \A k \in Keys \ Deltas : Row(log, pin.at, k) = Row(log, applied, k)
  BY <1>5, RowsAtFacts DEF Deltas
<1>7. todo' = Code("apply", g)
  <2>1. todo = <<Do("Read"), Save("CaughtUp")>>
    BY <1>1, <1>2 DEF At, Code
  <2>2. Tail(todo) = <<Save("CaughtUp")>>
    BY <2>1
  <2>3. todo' = <<<<"Apply", g>>>> \o <<Save("CaughtUp")>>
    BY <1>5, <2>2 DEF ReadDeltas
  <2>4. <<<<"Apply", g>>>> \o <<Save("CaughtUp")>> = <<<<"Apply", g>>, Save("CaughtUp")>>
    BY Joined
  <2> QED BY <2>3, <2>4 DEF Code
<1>8. "apply" \in Labels /\ At("apply")' /\ Pending' = g
  <2>1. Code("apply", g) = <<<<"Apply", g>>, Save("CaughtUp")>>
    BY DEF Code
  <2>2. todo' # <<>> /\ Head(todo')[2] = g
    BY <1>7, <2>1
  <2>3. Pending' = g
    BY <2>2 DEF Pending, Idle, Arg
  <2> QED BY <1>7, <2>3 DEF At, Labels
<1>9. PICK w \in Logs : w = log /\ applied \in 0..Len(w) /\ Len(w) \in Nat
  BY <1>3 DEF DataTypes, Logs
<1>10. PICK r \in 0..applied : r = readAt' /\ r # NotRead
  BY <1>3, <1>4, <1>9 DEF DataTypes, NotRead
<1>11. Types'
  BY <1>3, <1>4, <1>9, <1>10 DEF Types, MetaTypes, ControlTypes, DataTypes, Src
<1>12. Queued'
  BY <1>3, <1>4, QueuedKept
<1>13. DropsLast' /\ Owned' /\ Progress' /\ Clean'
  BY <1>3, <1>4 DEF DropsLast, Owned, Progress, Clean, Src, Kid, Recorded
<1>14. Served'
  <2>1. \A s \in Children : meta[s].state # "Active"
    BY <1>3 DEF Owned
  <2> QED BY <1>3, <1>4, <2>1 DEF Served, Src
<1>15. Placed("apply")' /\ Waits("apply")' /\ Reached("apply")'
  BY <1>2, <1>3, <1>4 DEF Placed, Waits, Reached, Undoing
<1>16. Pinned("apply")'
  BY <1>1, <1>3, <1>4, <1>10 DEF Local, Pinned
<1>17. ASSUME NEW k \in Keys, ~LateIn(w, r, k)
       PROVE  Row(w, r, k) = Row(w, applied, k)
  BY <1>9, <1>10, <1>17, NotLate
<1>18. ASSUME NEW k \in Keys, Kid(k) # NoDesc PROVE Built(k)' /\ CatchingUp(k)'
  <2>1. Built(k)
    BY <1>1, <1>3, <1>18 DEF Local, Copied
  <2>2. PICK x : x = KidRow(k) /\ x = KidRow(k)'
    BY <1>4 DEF KidRow
  <2>3. x = Row(w, pin.at, k) \/ (r = readAt /\ (LateIn(w, r, k) \/ x = Row(w, r, k)))
    BY <1>4, <1>9, <1>10, <2>1, <2>2 DEF Built, CaughtUp
  <2>4. Built(k)'
    BY <1>4, <1>9, <1>10, <2>2, <2>3 DEF Built, CaughtUp
  <2>5. CASE k \in Deltas
    BY <1>4, <1>6, <1>8, <1>9, <1>10, <1>17, <2>4, <2>5 DEF CatchingUp
  <2>6. CASE k \notin Deltas
    BY <1>4, <1>6, <1>8, <1>9, <1>10, <1>17, <2>2, <2>3, <2>4, <2>6 DEF CatchingUp
  <2> QED BY <2>4, <2>5, <2>6
<1>19. \A k \in DOMAIN Pending' : k \in Keys /\ Pending'[k] \in Values
  <2>1. ASSUME NEW k PROVE Row(w, applied, k) \in Values
    BY <1>9, RowType
  <2> QED BY <1>6, <1>8, <1>9, <2>1
<1>20. Copied("apply")'
  <2>1. ASSUME NEW k \in Keys PROVE Kid(k)' = Kid(k)
    BY <1>4 DEF Kid
  <2> QED BY <1>3, <1>4, <1>18, <1>19, <2>1 DEF Copied
<1> QED BY <1>8, <1>11, <1>12, <1>13, <1>14, <1>15, <1>16, <1>20 DEF IInv, Global, Local

\* The driver applies one delta, or finds that none is left.
LEMMA ApplyDeltaIInv ==
  ASSUME IInv, ApplyDelta PROVE IInv'
<1>1. PICK l \in Labels : At(l) /\ Local(l)
  BY DEF IInv
<1>2. l = "apply" /\ ~waiting /\ Arg = Pending
  BY <1>1, Executing, Places DEF ApplyDelta, Operand
<1>3. /\ MetaTypes /\ ControlTypes /\ DataTypes /\ Placed(l)
      /\ Queued /\ DropsLast /\ Owned /\ Progress /\ Clean /\ Served
      /\ record # NoRecord /\ ~gone /\ record.attempt = splits /\ splits \in Attempts
      /\ record.phase = "ChildrenBuilt" /\ readAt # NotRead
  BY <1>1, <1>2, Working DEF Placed, Local, Pinned
<1>4. UNCHANGED <<meta, record, pin, log, applied, splits, gone, truth, readAt, aborted,
                  undone, stray>>
  BY DEF ApplyDelta, Executes, ExecutesPlan
<1>5. PICK f : f = Pending
  OBVIOUS
<1>6. /\ \A k \in DOMAIN f : k \in Keys /\ f[k] \in Values
      /\ \A k \in Keys : Kid(k) # NoDesc => Built(k) /\ CatchingUp(k)
  BY <1>1, <1>2, <1>3, <1>5 DEF Local, Copied
<1>7. CASE DOMAIN f = {}
  <2>1. Skip /\ rows' = rows
    BY <1>2, <1>5, <1>7 DEF ApplyDelta
  <2>2. Then(l) = "saveCaughtUp"
    BY <1>2 DEF Then
  <2>3. Placed("saveCaughtUp") /\ Reached("saveCaughtUp") /\ Pinned("saveCaughtUp")
    BY <1>1, <1>2, <1>3 DEF Local, Placed, Reached, Pinned, Undoing
  <2>4. ASSUME NEW k \in Keys, Kid(k).state = "Creating" PROVE CaughtUp(k)
    <3>1. Kid(k) # NoDesc
      BY <2>4 DEF NoDesc
    <3> QED BY <1>5, <1>6, <1>7, <3>1 DEF CatchingUp, CaughtUp
  <2>5. Copied("saveCaughtUp")
    BY <1>3, <1>6, <2>4 DEF Copied
  <2> QED BY <1>1, <1>4, <2>1, <2>2, <2>3, <2>5, PassStep DEF ApplyDelta
<1>8. CASE DOMAIN f # {}
  <2>1. PICK j \in DOMAIN f :
          /\ rows' = [rows EXCEPT ![Child(record.attempt, j)] = f[j]]
          /\ todo' = <<<<"Apply", [i \in DOMAIN f \ {j} |-> f[i]]>>>> \o Tail(todo)
          /\ UNCHANGED <<queue, waiting>>
    BY <1>2, <1>5, <1>8 DEF ApplyDelta
  <2>2. PICK g : g = [i \in DOMAIN f \ {j} |-> f[i]]
    OBVIOUS
  <2>3. DOMAIN g = DOMAIN f \ {j} /\ \A i \in DOMAIN g : g[i] = f[i]
    BY <2>2
  <2>4. todo' = <<<<"Apply", g>>, Save("CaughtUp")>>
    <3>1. todo = <<<<"Apply", f>>, Save("CaughtUp")>>
      BY <1>1, <1>2, <1>5 DEF At, Code
    <3>2. Tail(todo) = <<Save("CaughtUp")>>
      BY <3>1
    <3>3. todo' = <<<<"Apply", g>>>> \o <<Save("CaughtUp")>>
      BY <2>1, <2>2, <3>2
    <3> QED BY <3>3, Joined
  <2>5. "apply" \in Labels /\ At("apply")' /\ Pending' = g
    <3>1. todo' # <<>> /\ Head(todo')[2] = g
      BY <2>4
    <3>2. Pending' = g
      BY <3>1 DEF Pending, Idle, Arg
    <3>3. Code("apply", g) = <<<<"Apply", g>>, Save("CaughtUp")>>
      BY DEF Code
    <3> QED BY <2>4, <3>2, <3>3 DEF At, Labels
  <2>6. PICK t \in Children : t = Child(splits, j)
    BY <1>3, <1>6, TabletFacts
  <2>7. PICK v \in Values : v = f[j]
    BY <1>6
  <2>8. rows' = [rows EXCEPT ![t] = v]
    BY <1>3, <2>1, <2>6, <2>7
  <2>9. rows' \in [Children -> Values] /\ rows'[t] = v
        /\ \A s \in Children : s # t => rows'[s] = rows[s]
    BY <1>3, <2>8 DEF DataTypes
  <2>10. /\ KidRow(j)' = v
         /\ \A k \in Keys \ {j} : KidRow(k)' = KidRow(k)
    <3>1. KidRow(j)' = v
      BY <1>4, <2>6, <2>9 DEF KidRow
    <3>2. ASSUME NEW k \in Keys \ {j} PROVE KidRow(k)' = KidRow(k)
      <4>1. Child(splits, k) \in Children /\ Child(splits, k) # t
        BY <1>3, <1>6, <2>6, TabletFacts
      <4> QED BY <1>4, <2>9, <4>1 DEF KidRow
    <3> QED BY <3>1, <3>2
  <2>11. Types'
    BY <1>3, <1>4, <2>1, <2>9 DEF Types, MetaTypes, ControlTypes, DataTypes, Src
  <2>12. Queued'
    BY <1>3, <1>4, <2>1, QueuedKept
  <2>13. DropsLast' /\ Owned' /\ Progress' /\ Clean'
    BY <1>3, <1>4, <2>1 DEF DropsLast, Owned, Progress, Clean, Src, Kid, Recorded
  <2>14. Served'
    <3>1. \A s \in Children : meta[s].state # "Active"
      BY <1>3 DEF Owned
    <3> QED BY <1>3, <1>4, <3>1 DEF Served, Src
  <2>15. Placed("apply")' /\ Waits("apply")' /\ Reached("apply")' /\ Pinned("apply")'
    BY <1>1, <1>2, <1>3, <1>4, <2>1
       DEF Local, Placed, Waits, Reached, Pinned, Undoing, Recorded
  <2>16. ASSUME NEW k \in Keys, Kid(k) # NoDesc PROVE Built(k)' /\ CatchingUp(k)'
    <3>1. Built(k) /\ CatchingUp(k)
      BY <1>6, <2>16
    <3>2. CASE k = j
      <4>1. LateIn(log, readAt, j) \/ v = Row(log, readAt, j)
        BY <1>5, <2>1, <2>7, <3>1, <3>2 DEF CatchingUp
      <4>2. CaughtUp(j)'
        BY <1>4, <2>10, <4>1 DEF CaughtUp
      <4>3. j \notin DOMAIN Pending'
        BY <2>3, <2>5
      <4> QED BY <1>3, <1>4, <3>2, <4>2, <4>3 DEF Built, CatchingUp, CaughtUp
    <3>3. CASE k # j
      <4>1. KidRow(k)' = KidRow(k)
        BY <2>10, <3>3
      <4>2. /\ k \in DOMAIN Pending' <=> k \in DOMAIN Pending
            /\ k \in DOMAIN Pending => Pending'[k] = Pending[k]
        BY <1>5, <2>3, <2>5, <3>3
      <4> QED BY <1>3, <1>4, <3>1, <4>1, <4>2 DEF Built, CatchingUp, CaughtUp
    <3> QED BY <3>2, <3>3
  <2>17. Copied("apply")'
    <3>1. ASSUME NEW k \in Keys PROVE Kid(k)' = Kid(k)
      BY <1>4 DEF Kid
    <3>2. \A k \in DOMAIN Pending' : k \in Keys /\ Pending'[k] \in Values
      BY <1>6, <2>3, <2>5
    <3> QED BY <1>3, <1>4, <2>16, <3>1, <3>2 DEF Copied
  <2> QED BY <2>5, <2>11, <2>12, <2>13, <2>14, <2>15, <2>17 DEF IInv, Global, Local
<1> QED BY <1>7, <1>8

\* The pin is released when no instruction left needs it.
LEMMA UnpinIInv ==
  ASSUME IInv, ReleaseSnapshot PROVE IInv'
<1>1. PICK l \in Labels : At(l) /\ Local(l)
  BY DEF IInv
<1>2. l \in {"unpinRetire", "unpin"} /\ ~waiting
  BY <1>1, Executing, Places DEF ReleaseSnapshot
<1>3. /\ Types /\ MetaTypes /\ ControlTypes /\ DataTypes
      /\ Queued /\ DropsLast /\ Owned /\ Progress /\ Clean /\ Served
      /\ record.phase \in {"none", "Published"}
  BY <1>1, <1>2 DEF IInv, Global, Types, Local, Placed
<1>4. /\ UNCHANGED <<meta, queue, record, log, applied, rows, waiting, splits, gone, truth,
                     readAt, aborted, undone, stray>>
      /\ todo' = Tail(todo) /\ pin' = NoPin
  BY DEF ReleaseSnapshot, Executes, ExecutesPlan, Skip, Advance
<1>5. PICK m : m = Then(l)
  OBVIOUS
<1>6. (l = "unpinRetire" => m = "retire") /\ (l = "unpin" => m = "idle")
  BY <1>5 DEF Then
<1>7. m \in Labels /\ At(m)'
  BY <1>1, <1>2, <1>4, <1>5, <1>6, Executing DEF ReleaseSnapshot, Labels
<1>8. Types'
  BY <1>3, <1>4 DEF Types, MetaTypes, ControlTypes, DataTypes, Src
<1>9. Queued'
  BY <1>3, <1>4, QueuedKept
<1>10. DropsLast' /\ Owned' /\ Progress' /\ Clean' /\ Served'
  BY <1>3, <1>4 DEF DropsLast, Owned, Progress, Clean, Served, Src, Kid, Recorded
<1>11. Placed(m)' /\ Waits(m)' /\ Reached(m)'
  BY <1>1, <1>2, <1>3, <1>4, <1>6 DEF Local, Placed, Waits, Reached, Undoing
<1>12. Pinned(m)'
  <2>1. record.phase = "none" => ~Recorded
    BY <1>3, RecordFacts DEF Recorded
  <2> QED BY <1>1, <1>2, <1>3, <1>4, <1>6, <2>1 DEF Local, Pinned, Recorded
<1>13. Copied(m)'
  BY <1>2, <1>3, <1>4, <1>6 DEF Copied
<1> QED BY <1>7, <1>8, <1>9, <1>10, <1>11, <1>12, <1>13 DEF IInv, Global, Local

\* The source's replica goes, and its record with it.
LEMMA TeardownIInv ==
  ASSUME IInv, TeardownSource PROVE IInv'
<1>1. PICK l \in Labels : At(l) /\ Local(l)
  BY DEF IInv
<1>2. l = "teardown" /\ ~waiting
  BY <1>1, Executing, Places DEF TeardownSource
<1>3. /\ MetaTypes /\ ControlTypes /\ DataTypes
      /\ Queued /\ DropsLast /\ Owned /\ Progress /\ Clean /\ Served
      /\ record # NoRecord /\ record.phase = "Published" /\ Src = NoDesc
      /\ splits \in Attempts
  BY <1>1, <1>2, Working DEF Placed, Local, Reached
<1>4. /\ UNCHANGED <<meta, queue, log, applied, rows, waiting, splits, truth,
                     readAt, aborted, undone, stray>>
      /\ todo' = Tail(todo) /\ pin' = NoPin /\ record' = NoRecord /\ gone' = TRUE
  BY DEF TeardownSource, Executes, ExecutesPlan, Skip, Advance
<1>5. /\ "idle" \in Labels /\ At("idle")'
  <2>1. Then(l) = "idle"
    BY <1>2 DEF Then
  <2> QED BY <1>1, <1>4, <2>1, Executing DEF TeardownSource, Labels
<1>6. record'.phase = "none" /\ record'.attempt = 0
  BY <1>4 DEF NoRecord
<1>7. Types'
  BY <1>3, <1>4 DEF Types, MetaTypes, ControlTypes, DataTypes, Src
<1>8. Queued'
  <2>1. ASSUME NEW c \in Range(queue') PROVE CommandOK(c)'
    <3>1. CommandOK(c) /\ Turn(c)
      BY <1>3, <1>4, <2>1 DEF Queued, CommandOK
    <3>2. ~RetireOK(c)
      BY <1>3 DEF RetireOK, IsRetire, OnSource, NoDesc
    <3>3. DropOK(c)
      <4>1. IsRetire(c) \/ IsDrop(c)
        BY <1>3, <3>1 DEF Turn
      <4> QED BY <1>3, <3>1, <3>2, <4>1, KindFacts
    <3>4. Turn(c)' /\ DropOK(c)'
      BY <1>4, <3>1, <3>3 DEF Turn, DropOK, Src, Recorded
    <3> QED BY <3>4 DEF CommandOK
  <2> QED BY <2>1 DEF Queued
<1>9. DropsLast' /\ Owned' /\ Progress' /\ Clean' /\ Served'
  BY <1>3, <1>4, <1>6 DEF DropsLast, Owned, Progress, Clean, Served, Src, Kid, Recorded
<1>10. Local("idle")'
  BY <1>2, <1>4, <1>6
     DEF Local, Placed, Waits, Reached, Pinned, Copied, Undoing, Recorded
<1> QED BY <1>5, <1>7, <1>8, <1>9, <1>10 DEF IInv, Global

\* An abort wipes the children's replicas; the meta state knows none of them
\* in the phases in which their rows mattered.
LEMMA WipeIInv ==
  ASSUME IInv, TeardownChildren PROVE IInv'
<1>1. PICK l \in Labels : At(l) /\ Local(l)
  BY DEF IInv
<1>2. l = "wipe" /\ ~waiting
  BY <1>1, Executing, Places DEF TeardownChildren
<1>3. /\ MetaTypes /\ ControlTypes /\ DataTypes
      /\ Queued /\ DropsLast /\ Owned /\ Progress /\ Clean /\ Served
      /\ record # NoRecord /\ record.phase \in Phases \ {"Published"} /\ Src.state \in Up
  BY <1>1, <1>2, Working DEF Placed, Local, Reached, Undoing
<1>4. /\ UNCHANGED <<meta, queue, record, pin, log, applied, waiting, splits, gone, truth,
                     readAt, aborted, undone, stray>>
      /\ todo' = Tail(todo)
      /\ rows' = [t \in Children |-> IF t[1] = record.attempt THEN NoRow ELSE rows[t]]
  BY DEF TeardownChildren, Executes, ExecutesPlan, Skip, Advance
<1>5. "forget" \in Labels /\ At("forget")'
  <2>1. Then(l) = "forget"
    BY <1>2 DEF Then
  <2> QED BY <1>1, <1>4, <2>1, Executing DEF TeardownChildren, Labels
<1>6. rows' \in [Children -> Values]
  BY <1>3, <1>4 DEF DataTypes, NoRow, Values
<1>7. Types'
  BY <1>3, <1>4, <1>6 DEF Types, MetaTypes, ControlTypes, DataTypes, Src
<1>8. Queued'
  BY <1>3, <1>4, QueuedKept
<1>9. DropsLast' /\ Owned' /\ Progress' /\ Clean'
  BY <1>3, <1>4 DEF DropsLast, Owned, Progress, Clean, Src, Kid, Recorded
<1>10. Served'
  <2>1. \A s \in Children : meta[s].state # "Active"
    BY <1>3 DEF Owned
  <2> QED BY <1>3, <1>4, <2>1 DEF Served, Src
<1>11. Placed("forget")' /\ Waits("forget")' /\ Reached("forget")' /\ Pinned("forget")'
  BY <1>1, <1>2, <1>4
     DEF Local, Placed, Waits, Reached, Pinned, Undoing, Src, Kid, Recorded
<1>12. Copied("forget")'
  <2>1. record.phase \in Later => \A k \in Keys : Kid(k) = NoDesc
    BY <1>1, <1>2, KeyFacts DEF Local, Reached
  <2>2. record.phase \in {"ChildrenBuilt", "CaughtUp"} =>
          \A k \in Keys : Kid(k)' = NoDesc /\ Kid(k)'.state # "Creating"
    BY <1>4, <2>1 DEF Later, Kid, NoDesc
  <2> QED BY <1>4, <2>2 DEF Copied
<1> QED BY <1>5, <1>7, <1>8, <1>9, <1>10, <1>11, <1>12 DEF IInv, Global, Local

\* An abort removes the record: what the queue still holds is nobody's.
LEMMA ForgetIInv ==
  ASSUME IInv, ForgetSplit PROVE IInv'
<1>1. PICK l \in Labels : At(l) /\ Local(l)
  BY DEF IInv
<1>2. l = "forget" /\ ~waiting
  BY <1>1, Executing, Places DEF ForgetSplit
<1>3. /\ MetaTypes /\ ControlTypes /\ DataTypes
      /\ Queued /\ DropsLast /\ Owned /\ Progress /\ Clean /\ Served
      /\ record # NoRecord /\ record.phase \in Phases \ {"Published"} /\ Src.state \in Up
      /\ ~gone /\ record.attempt = splits /\ splits \in Attempts
      /\ ~stray => Src.state = "Active"
      /\ ~stray \/ record.phase \in Later => \A k \in Keys : Kid(k) = NoDesc
  BY <1>1, <1>2, Working, KeyFacts DEF Placed, Local, Reached, Undoing
<1>4. /\ UNCHANGED <<meta, queue, pin, log, applied, rows, waiting, splits, gone, truth,
                     readAt, aborted, undone, stray>>
      /\ todo' = Tail(todo) /\ record' = NoRecord
  BY DEF ForgetSplit, Executes, ExecutesPlan, Skip, Advance
<1>5. "unpin" \in Labels /\ At("unpin")'
  <2>1. Then(l) = "unpin"
    BY <1>2 DEF Then
  <2> QED BY <1>1, <1>4, <2>1, Executing DEF ForgetSplit, Labels
<1>6. record'.phase = "none" /\ record'.attempt = 0
  BY <1>4 DEF NoRecord
<1>7. Types'
  BY <1>3, <1>4 DEF Types, MetaTypes, ControlTypes, DataTypes, Src
<1>8. Queued'
  <2>1. ASSUME NEW c \in Range(queue') PROVE CommandOK(c)'
    <3>1. CommandOK(c) /\ Turn(c)
      BY <1>3, <1>4, <2>1 DEF Queued, CommandOK
    <3>2. ~RetireOK(c) /\ ~DropOK(c)
      BY <1>3 DEF RetireOK, DropOK
    <3>3. c.attempt \in 1..splits /\ c.attempt # 0
      BY <1>3, <3>1 DEF Turn
    <3>4. Turn(c)' /\ ~Own(c)'
      BY <1>3, <1>4, <1>6, <3>3 DEF Turn, Own, Recorded
    <3>5. PublishOK(c) => PublishOK(c)'
      <4>1. ASSUME PublishOK(c) PROVE \A k \in Keys : meta[Child(c.attempt, k)] = NoDesc
        <5>1. CASE Own(c)
          BY <1>3, <4>1, <5>1 DEF PublishOK, Own, Kid, Later
        <5>2. CASE ~Own(c)
          BY <4>1, <5>2 DEF PublishOK
        <5> QED BY <5>1, <5>2
      <4> QED BY <1>4, <3>4, <4>1 DEF PublishOK
    <3>6. /\ MarkOK(c) => MarkOK(c)'
          /\ RestoreOK(c) => RestoreOK(c)'
          /\ CreateOK(c) => CreateOK(c)'
      BY <1>4, <3>4 DEF MarkOK, RestoreOK, CreateOK, Src
    <3> QED BY <3>1, <3>2, <3>4, <3>5, <3>6 DEF CommandOK
  <2> QED BY <2>1 DEF Queued
<1>9. \A s \in Children : meta[s].state # "Active"
  BY <1>3 DEF Owned
<1>10. Owned' /\ Served'
  BY <1>3, <1>4, <1>9 DEF Owned, Served, Src
<1>11. DropsLast' /\ Progress'
  BY <1>3, <1>4, <1>6 DEF DropsLast, Progress, Src, Up, Recorded
<1>12. Clean'
  <2>1. ASSUME ~stray, NEW t \in Children PROVE meta[t] = NoDesc
    <3>1. CASE t[1] # splits
      BY <1>3, <2>1, <3>1 DEF Clean
    <3>2. CASE t[1] = splits
      <4>1. t[2] \in Keys /\ t = Child(splits, t[2])
        BY <3>2, TabletFacts
      <4> QED BY <1>3, <2>1, <4>1 DEF Kid
    <3> QED BY <3>1, <3>2
  <2> QED BY <1>3, <1>4, <2>1 DEF Clean, Src
<1>13. Local("unpin")'
  BY <1>2, <1>4, <1>6
     DEF Local, Placed, Waits, Reached, Pinned, Copied, Undoing, Recorded
<1> QED BY <1>5, <1>7, <1>8, <1>10, <1>11, <1>12, <1>13 DEF IInv, Global

(***************************************************************************)
(* Clients and the driver's replica.                                       *)
(***************************************************************************)
\* A write of the source: the half it changes is late for every read so far.
LEMMA WriteSourceIInv ==
  ASSUME IInv, WriteSource PROVE IInv'
<1>1. PICK l \in Labels : At(l) /\ Local(l)
  BY DEF IInv
<1>2. /\ Types /\ MetaTypes /\ ControlTypes /\ DataTypes
      /\ Queued /\ DropsLast /\ Owned /\ Progress /\ Clean /\ Served
  BY DEF IInv, Global, Types
<1>3. /\ UNCHANGED <<meta, queue, record, pin, applied, rows, todo, waiting, splits, gone,
                     readAt, aborted, undone, stray>>
  BY DEF WriteSource, driver, history
<1>4. PICK j \in Keys, v \in Values :
        /\ log' = Append(log, [key |-> j, value |-> v])
        /\ truth' = [truth EXCEPT ![j] = v]
  BY DEF WriteSource
<1>5. PICK w, z : w \in Logs /\ w = log /\ z = log'
  BY <1>2 DEF DataTypes
<1>6. /\ z \in Logs /\ Len(z) = Len(w) + 1 /\ Len(w) \in Nat
      /\ \A k : /\ \A n \in 0..Len(w) : Row(z, n, k) = Row(w, n, k)
                /\ Row(z, Len(z), k) = IF k = j THEN v ELSE Row(w, Len(w), k)
                /\ \A r \in 0..Len(w) : LateIn(w, r, k) => LateIn(z, r, k)
      /\ \A r \in 0..Len(w) : LateIn(z, r, j)
  <2>1. z = Append(w, [key |-> j, value |-> v])
    BY <1>4, <1>5
  <2>2. ASSUME NEW k PROVE Written(w, j, v, z, k)
    BY <1>5, <2>1, RowAppended
  <2> QED BY <2>2 DEF Written
<1>7. /\ applied \in 0..Len(w)
      /\ pin.at \in 0..Len(w)
      /\ readAt = NotRead \/ readAt \in 0..Len(w)
  BY <1>2, <1>5, <1>6 DEF DataTypes, NoPin
<1>8. Types'
  <2>1. truth' \in [Keys -> Values]
    BY <1>2, <1>4 DEF DataTypes
  <2>2. applied \in 0..Len(z)
    BY <1>6, <1>7
  <2> QED BY <1>2, <1>3, <1>5, <1>6, <2>1, <2>2
          DEF Types, MetaTypes, ControlTypes, DataTypes, Src
<1>9. Queued'
  BY <1>2, <1>3, QueuedKept
<1>10. DropsLast' /\ Owned' /\ Progress' /\ Clean'
  BY <1>2, <1>3 DEF DropsLast, Owned, Progress, Clean, Src, Kid, Recorded
<1>11. \A k \in Keys : truth'[k] = IF k = j THEN v ELSE truth[k]
  BY <1>2, <1>4 DEF DataTypes
<1>12. Served'
  <2>1. ASSUME NEW t \in Children, meta[t].state = "Active"
        PROVE  readAt # NotRead /\ (LateIn(z, readAt, t[2]) \/ rows[t] = truth'[t[2]])
    <3>1. readAt # NotRead /\ (LateIn(w, readAt, t[2]) \/ rows[t] = truth[t[2]])
      BY <1>2, <1>5, <2>1 DEF Served
    <3>2. readAt \in 0..Len(w) /\ t[2] \in Keys
      BY <1>7, <3>1, TabletFacts
    <3>3. CASE t[2] = j
      BY <1>6, <3>1, <3>2, <3>3
    <3>4. CASE t[2] # j
      BY <1>6, <1>11, <3>1, <3>2, <3>4
    <3> QED BY <3>3, <3>4
  <2>2. ASSUME Src.state \in Up, NEW k \in Keys PROVE Row(z, Len(z), k) = truth'[k]
    <3>1. Row(w, Len(w), k) = truth[k]
      BY <1>2, <1>5, <2>2 DEF Served
    <3> QED BY <1>6, <1>11, <3>1
  <2> QED BY <1>3, <1>5, <2>1, <2>2 DEF Served, Src
<1>13. At(l)' /\ Pending' = Pending
  BY <1>1, <1>3, Moves
<1>14. Placed(l)' /\ Waits(l)' /\ Reached(l)' /\ Pinned(l)'
  BY <1>1, <1>3
     DEF Local, Placed, Waits, Awaits, Own, Reached, Pinned, Src, Kid, Recorded
<1>15. Copied(l)'
  <2>1. ASSUME NEW k \in Keys PROVE Kid(k)' = Kid(k) /\ KidRow(k)' = KidRow(k)
    BY <1>3 DEF Kid, KidRow
  <2>2. ASSUME NEW k \in Keys, readAt # NotRead
        PROVE  /\ CaughtUp(k) => CaughtUp(k)'
               /\ CatchingUp(k) => CatchingUp(k)'
    <3>1. readAt \in 0..Len(w)
      BY <1>7, <2>2
    <3>2. Row(z, readAt, k) = Row(w, readAt, k) /\ (LateIn(w, readAt, k) => LateIn(z, readAt, k))
      BY <1>6, <3>1
    <3> QED BY <1>3, <1>5, <1>13, <2>1, <3>2 DEF CaughtUp, CatchingUp
  <2>3. ASSUME NEW k \in Keys, Built(k) PROVE Built(k)'
    <3>1. Row(z, pin.at, k) = Row(w, pin.at, k)
      BY <1>6, <1>7
    <3> QED BY <1>3, <1>5, <2>1, <2>2, <2>3, <3>1 DEF Built
  <2>4. /\ l \in {"apply", "saveCaughtUp"} \/ record.phase = "CaughtUp" => readAt # NotRead
        /\ Row(z, pin.at, Lower) = Row(w, pin.at, Lower)
        /\ Row(z, pin.at, Upper) = Row(w, pin.at, Upper)
    BY <1>1, <1>6, <1>7 DEF Local, Pinned
  <2>5. Lower \in Keys /\ Upper \in Keys /\ Copied(l)
    BY <1>1, KeyFacts DEF Local
  <2> QED BY <1>3, <1>5, <1>13, <2>1, <2>2, <2>3, <2>4, <2>5 DEF Copied
<1> QED BY <1>8, <1>9, <1>10, <1>12, <1>13, <1>14, <1>15 DEF IInv, Global, Local

\* The driver's replica catches up by one entry.
LEMMA ReplicaIInv ==
  ASSUME IInv, ReplicaApplies PROVE IInv'
<1>1. PICK l \in Labels : At(l) /\ Local(l)
  BY DEF IInv
<1>2. /\ Types /\ MetaTypes /\ ControlTypes /\ DataTypes
      /\ Queued /\ DropsLast /\ Owned /\ Progress /\ Clean /\ Served
  BY DEF IInv, Global, Types
<1>3. /\ UNCHANGED <<meta, queue, record, pin, log, rows, truth, todo, waiting, splits,
                     gone, readAt, aborted, undone, stray>>
      /\ applied' = applied + 1 /\ applied < Len(log)
  BY DEF ReplicaApplies, driver, history
<1>4. Types'
  <2>1. Len(log) \in Nat /\ applied \in 0..Len(log)
    BY <1>2 DEF DataTypes, Logs
  <2>2. DataTypes'
    BY <1>2, <1>3, <2>1 DEF DataTypes
  <2> QED BY <1>2, <1>3, <2>2 DEF Types, MetaTypes, ControlTypes, Src
<1>5. Queued'
  BY <1>2, <1>3, QueuedKept
<1>6. DropsLast' /\ Owned' /\ Progress' /\ Clean' /\ Served'
  BY <1>2, <1>3 DEF DropsLast, Owned, Progress, Clean, Served, Src, Kid, Recorded
<1>7. At(l)' /\ Pending' = Pending
  BY <1>1, <1>3, Moves
<1>8. Placed(l)' /\ Waits(l)' /\ Reached(l)' /\ Pinned(l)'
  BY <1>1, <1>3
     DEF Local, Placed, Waits, Awaits, Own, Reached, Pinned, Src, Kid, Recorded
<1>9. Copied(l)'
  BY <1>1, <1>3, <1>7 DEF Local, Copied, Kid, KidRow, Built, CatchingUp, CaughtUp
<1> QED BY <1>4, <1>5, <1>6, <1>7, <1>8, <1>9 DEF IInv, Global, Local

\* A write of a published child.
LEMMA WriteChildIInv ==
  ASSUME IInv, WriteChild PROVE IInv'
<1>1. PICK l \in Labels : At(l) /\ Local(l)
  BY DEF IInv
<1>2. /\ Types /\ MetaTypes /\ ControlTypes /\ DataTypes
      /\ Queued /\ DropsLast /\ Owned /\ Progress /\ Clean /\ Served
  BY DEF IInv, Global, Types
<1>3. PICK t \in Children, v \in Values :
        /\ meta[t].state = "Active"
        /\ rows' = [rows EXCEPT ![t] = v]
        /\ truth' = [truth EXCEPT ![t[2]] = v]
        /\ UNCHANGED <<meta, queue, record, pin, log, applied, driver, splits,
                       stops, gone, history>>
  BY DEF WriteChild
<1>4. UNCHANGED <<meta, queue, record, pin, log, applied, todo, waiting, splits,
                  gone, readAt, aborted, undone, stray>>
  BY <1>3 DEF driver, history
<1>5. t[2] \in Keys /\ t[1] = splits /\ t = Child(splits, t[2])
  BY <1>2, <1>3, TabletFacts DEF Owned
<1>6. record.phase \notin {"SnapshotPinned", "ChildrenBuilt"}
  <2>1. record.phase \in {"CaughtUp", "Published"} \/ record = NoRecord
    BY <1>2, <1>3 DEF Owned, Progress
  <2> QED BY <1>2, <2>1, RecordFacts
<1>7. Src.state \notin Up
  BY <1>2, <1>3 DEF Owned
<1>8. /\ rows' \in [Children -> Values] /\ truth' \in [Keys -> Values]
      /\ rows'[t] = v /\ truth'[t[2]] = v
      /\ \A s \in Children : s # t => rows'[s] = rows[s]
      /\ \A k \in Keys : k # t[2] => truth'[k] = truth[k]
  BY <1>2, <1>3, <1>5 DEF DataTypes
<1>9. Types'
  BY <1>2, <1>4, <1>8 DEF Types, MetaTypes, ControlTypes, DataTypes, Src
<1>10. Queued'
  BY <1>2, <1>4, QueuedKept
<1>11. DropsLast' /\ Owned' /\ Progress' /\ Clean'
  BY <1>2, <1>4 DEF DropsLast, Owned, Progress, Clean, Src, Kid, Recorded
<1>12. Served'
  <2>1. ASSUME NEW s \in Children, meta[s].state = "Active"
        PROVE  readAt # NotRead /\ (LateIn(log, readAt, s[2]) \/ rows'[s] = truth'[s[2]])
    <3>1. readAt # NotRead /\ (LateIn(log, readAt, s[2]) \/ rows[s] = truth[s[2]])
      BY <1>2, <2>1 DEF Served
    <3>2. CASE s = t
      BY <1>8, <3>1, <3>2
    <3>3. CASE s # t
      <4>1. s[2] \in Keys /\ s = Child(splits, s[2])
        BY <1>2, <2>1, TabletFacts DEF Owned
      <4>2. s[2] # t[2]
        BY <1>5, <3>3, <4>1
      <4> QED BY <1>8, <3>1, <3>3, <4>1, <4>2
    <3> QED BY <3>2, <3>3
  <2> QED BY <1>4, <1>7, <2>1 DEF Served, Src
<1>13. At(l)' /\ Pending' = Pending
  BY <1>1, <1>4, Moves
<1>14. Placed(l)' /\ Waits(l)' /\ Reached(l)' /\ Pinned(l)'
  BY <1>1, <1>4
     DEF Local, Placed, Waits, Awaits, Own, Reached, Pinned, Src, Kid, Recorded
<1>15. Copied(l)'
  <2>1. l \notin {"installU", "saveBuilt", "apply", "saveCaughtUp"}
    BY <1>1, <1>6 DEF Local, Placed
  <2>2. ASSUME NEW k \in Keys, record.phase = "CaughtUp", Kid(k).state = "Creating"
        PROVE  CaughtUp(k)'
    <3>1. CaughtUp(k)
      BY <1>1, <2>2 DEF Local, Copied
    <3>2. Child(splits, k) \in Children /\ Child(splits, k) # t
      <4>1. splits \in Attempts
        BY <1>2, <2>2, RecordFacts
      <4> QED BY <1>3, <2>2, <4>1, TabletFacts DEF Kid
    <3>3. KidRow(k)' = KidRow(k)
      BY <1>4, <1>8, <3>2 DEF KidRow
    <3> QED BY <1>4, <3>1, <3>3 DEF CaughtUp
  <2>3. ASSUME NEW k \in Keys PROVE Kid(k)' = Kid(k)
    BY <1>4 DEF Kid
  <2> QED BY <1>4, <1>6, <2>1, <2>2, <2>3 DEF Copied
<1> QED BY <1>9, <1>10, <1>11, <1>12, <1>13, <1>14, <1>15 DEF IInv, Global, Local

(***************************************************************************)
(* Applying a meta command.                                                *)
(***************************************************************************)
\* A command c of the queue is applied while the driver is at l.
Applying(l, c) ==
    /\ MetaTypes /\ ControlTypes /\ Queued /\ Owned /\ Progress /\ Clean /\ Served
    /\ l \in Labels /\ Local(l)
    /\ queue # <<>> /\ c \in Commands /\ c \in Range(queue) /\ CommandOK(c)
    /\ \A d \in Range(queue') :
         /\ d \in Range(queue) /\ d \in Commands
         /\ IsDrop(c) => IsDrop(d)
    /\ UNCHANGED <<record, pin, log, applied, rows, truth, splits, gone, readAt, aborted>>
    /\ Awaited => Awaits(l, c)
    /\ ~stray' => /\ ~stray
                  /\ Awaited \/ meta' = meta \/ (Own(c) /\ c.attempt \notin aborted)

\* What the meta state keeps, whatever the command; a driver that does not
\* wait for it stays where it is.
Settles(l) ==
    /\ MetaTypes' /\ Queued' /\ Owned' /\ Progress' /\ Clean' /\ Served'
    /\ record.phase \in {"ChildrenBuilt", "CaughtUp"} =>
         \A k \in Keys : /\ Kid(k)' # NoDesc => Kid(k) # NoDesc
                         /\ Kid(k)'.state = "Creating" => Kid(k).state = "Creating"
    /\ ~Awaited => Reached(l)'

\* What Applying says of the state, in the form the cases use.
LEMMA ApplyingFacts ==
  ASSUME NEW l, NEW c, Applying(l, c)
  PROVE  /\ l # "savePublished"
         /\ Src.gen \in Nat /\ c.desc.gen \in Nat /\ c.attempt \in Attempts
         /\ c.attempt # 0 /\ c.attempt \in 1..splits /\ splits \in Nat
         /\ Src.state \notin Up => splits \in Attempts
         /\ Awaited => Own(c)
         /\ Own(c) => record # NoRecord /\ c.attempt = splits /\ splits \in Attempts
         /\ l \in Undoing => /\ record.attempt \in aborted /\ ~gone
                             /\ record # NoRecord /\ record.phase # "Published"
                             /\ splits \in Attempts
         /\ \A d \in Range(queue') : CommandOK(d) /\ d.desc.gen \in Nat /\ d.attempt \in Attempts
<1>1. l # "savePublished"
  BY DEF Applying, Local, Waits
<1>2. Src.gen \in Nat /\ c.desc.gen \in Nat
  BY TabletFacts DEF Applying, MetaTypes, Src, Commands
<1>3. c.attempt \in 1..splits /\ splits \in Nat /\ c.attempt \in Attempts /\ c.attempt # 0
  <2>1. c.attempt \in 1..splits
    BY DEF Applying, CommandOK, Turn
  <2>2. c.attempt \in Attempts /\ splits \in 0..MaxSplits
    BY DEF Applying, Commands, ControlTypes
  <2> QED BY <2>1, <2>2 DEF Attempts
<1>4. Src.state \notin Up => splits \in Attempts
  <2>1. Src.state \notin Up => gone \/ record # NoRecord
    BY RecordFacts DEF Applying, Progress
  <2> QED BY <2>1, RecordFacts DEF Applying, ControlTypes
<1>5. Awaited => Own(c)
  BY DEF Applying, Awaits
<1>6. Own(c) => record # NoRecord /\ c.attempt = splits /\ splits \in Attempts
  BY <1>3, RecordFacts DEF Applying, Own
<1>7. l \in Undoing => /\ record.attempt \in aborted /\ record.phase \in Phases \ {"Published"}
  BY DEF Applying, Local, Placed
<1>8. l \in Undoing => record # NoRecord
  BY <1>7, RecordFacts DEF Applying, Phases
<1>9. l \in Undoing => splits \in Attempts /\ ~gone
  BY <1>8, RecordFacts DEF Applying, Progress
<1>10. \A d \in Range(queue') : CommandOK(d) /\ d.desc.gen \in Nat /\ d.attempt \in Attempts
  BY DEF Applying, Queued, Commands
<1> QED BY <1>1, <1>2, <1>3, <1>4, <1>5, <1>6, <1>7, <1>8, <1>9, <1>10

\* The commands behind one that changes the source only.
LEMMA SourceOnly ==
  ASSUME NEW l, NEW c, Applying(l, c), \A t \in Children : meta'[t] = meta[t]
  PROVE  /\ \A d \in Range(queue') : /\ Turn(d)'
                                     /\ CreateOK(d) => CreateOK(d)'
                                     /\ PublishOK(d) => PublishOK(d)'
         /\ splits \in Attempts => \A k \in Keys : Kid(k)' = Kid(k)
<1>1. ASSUME NEW d \in Range(queue')
      PROVE  Turn(d)' /\ (CreateOK(d) => CreateOK(d)') /\ (PublishOK(d) => PublishOK(d)')
  <2>1. Turn(d) /\ d.attempt \in Attempts
    BY ApplyingFacts DEF CommandOK
  <2>2. Turn(d)'
    BY <2>1 DEF Turn, Own, Recorded, Applying
  <2>3. \A k \in Keys : meta'[Child(d.attempt, k)] = meta[Child(d.attempt, k)]
    BY <2>1, TabletFacts
  <2>4. CreateOK(d) => CreateOK(d)'
    BY <2>3 DEF CreateOK, IsCreate, OnChild, Own, Applying
  <2>5. PublishOK(d) => PublishOK(d)'
    BY <2>3 DEF PublishOK, Own, Applying
  <2> QED BY <2>2, <2>4, <2>5
<1>2. ASSUME splits \in Attempts, NEW k \in Keys PROVE Kid(k)' = Kid(k)
  BY <1>2, TabletFacts DEF Kid, Applying
<1> QED BY <1>1, <1>2

\* The source is marked: it stays routable.
LEMMA MarkEffect ==
  ASSUME NEW l, NEW c, Applying(l, c), IsMark(c), MetaTypes',
         \A t \in Children : meta'[t] = meta[t], undone' = undone,
         Src.state = "Active", Src'.state = "Splitting", Src'.gen = Src.gen + 1
  PROVE  Settles(l)
<1>1. ~gone /\ record.phase # "Published" /\ Src \notin {NoDesc} /\ Src' # NoDesc
  <2>1. Src # NoDesc /\ Src' # NoDesc
    BY DEF NoDesc
  <2> QED BY <2>1 DEF Applying, Progress, Up
<1>2. Queued'
  <2>1. ASSUME NEW d \in Range(queue') PROVE CommandOK(d)'
    <3>1. CommandOK(d) /\ d.desc.gen \in Nat /\ Src.gen \in Nat /\ Turn(d)'
      BY ApplyingFacts, SourceOnly
    <3>2. ~RetireOK(d) /\ ~DropOK(d)
      BY DEF RetireOK, DropOK, IsRetire, OnSource
    <3>3. MarkOK(d) => MarkOK(d)'
      BY <1>1, <3>1 DEF MarkOK, Own, Applying
    <3>4. RestoreOK(d) => RestoreOK(d)'
      BY <1>1, <3>1 DEF RestoreOK
    <3>5. (CreateOK(d) => CreateOK(d)') /\ (PublishOK(d) => PublishOK(d)')
      BY SourceOnly
    <3> QED BY <3>1, <3>2, <3>3, <3>4, <3>5 DEF CommandOK
  <2> QED BY <2>1 DEF Queued
<1>3. Owned'
  BY DEF Applying, Owned, Up
<1>4. Progress'
  <2>1. Src.gen \in Nat
    BY ApplyingFacts
  <2>2. Recorded => record.gen \in Nat /\ record.gen <= Src.gen
    <3>1. Recorded => record.gen \in Nat
      BY RecordFacts DEF Applying, Recorded
    <3>2. Recorded => record.gen + 0 <= Src.gen
      BY <1>1 DEF Applying, Progress
    <3> QED BY <2>1, <3>1, <3>2
  <2>3. Recorded' => record'.gen + 1 <= Src'.gen
    <3>1. record' = record
      BY DEF Applying
    <3> QED BY <2>1, <2>2, <3>1 DEF Recorded
  <2>4. Src'.state \in Up /\ ~gone' /\ record'.phase # "Published" /\ Src'.state # "Active"
        /\ Src'.state \notin {"Retired", "absent"}
    BY <1>1 DEF Applying, Up
  <2> QED BY <2>3, <2>4 DEF Progress
<1>5. meta' # meta
  BY DEF Src
<1>6. stray' \/ (Own(c) /\ (Awaited \/ c.attempt \notin aborted))
  BY <1>5, ApplyingFacts DEF Applying
<1>7. Clean'
  <2>1. ~stray' => Recorded
    BY <1>6, ApplyingFacts DEF Recorded
  <2>2. ~stray' => ~stray
    BY DEF Applying
  <2> QED BY <2>1, <2>2 DEF Applying, Clean, Recorded
<1>8. Served'
  BY DEF Applying, Served, Up
<1>9. record.phase \in {"ChildrenBuilt", "CaughtUp"} => splits \in Attempts
  BY RecordFacts DEF Applying
<1>10. ASSUME ~Awaited PROVE Reached(l)'
  <2>1. l \notin {"savePublished", "drop", "teardown"}
    BY <1>1, ApplyingFacts DEF Applying, Local, Reached
  <2>2. l \in {"wipe", "forget"} => stray'
    BY <1>6, <1>10, ApplyingFacts DEF Undoing, Own
  <2>3. l \in {"removeU", "restore", "wipe", "forget"} => Kid(Lower)' = Kid(Lower)
    BY ApplyingFacts, SourceOnly, KeyFacts DEF Undoing
  <2>4. l \in {"restore", "wipe", "forget"} => Kid(Upper)' = Kid(Upper)
    BY ApplyingFacts, SourceOnly, KeyFacts DEF Undoing
  <2>5. Reached(l) /\ (~stray' => ~stray) /\ record' = record
    BY DEF Applying, Local
  <2> QED BY <2>1, <2>2, <2>3, <2>4, <2>5 DEF Reached, Up
<1> QED BY <1>2, <1>3, <1>4, <1>7, <1>8, <1>9, <1>10, SourceOnly DEF Settles

\* The abort's restoration: the source is Active again.
LEMMA RestoreEffect ==
  ASSUME NEW l, NEW c, Applying(l, c), IsRestore(c), MetaTypes',
         \A t \in Children : meta'[t] = meta[t], undone' = undone,
         Src.state = "Splitting", Src'.state = "Active", Src'.gen = Src.gen + 1
  PROVE  Settles(l)
<1>1. ~gone /\ record.phase # "Published" /\ Src \notin {NoDesc} /\ Src' # NoDesc
  <2>1. Src # NoDesc /\ Src' # NoDesc
    BY DEF NoDesc
  <2> QED BY <2>1 DEF Applying, Progress, Up
<1>2. Queued'
  <2>1. ASSUME NEW d \in Range(queue') PROVE CommandOK(d)'
    <3>1. CommandOK(d) /\ d.desc.gen \in Nat /\ Src.gen \in Nat /\ Turn(d)'
      BY ApplyingFacts, SourceOnly
    <3>2. ~RetireOK(d) /\ ~DropOK(d)
      BY DEF RetireOK, DropOK, IsRetire, OnSource
    <3>3. MarkOK(d) => MarkOK(d)'
      BY <1>1, <3>1 DEF MarkOK, Own, Applying
    <3>4. RestoreOK(d) => RestoreOK(d)'
      BY <1>1, <3>1 DEF RestoreOK
    <3>5. (CreateOK(d) => CreateOK(d)') /\ (PublishOK(d) => PublishOK(d)')
      BY SourceOnly
    <3> QED BY <3>1, <3>2, <3>3, <3>4, <3>5 DEF CommandOK
  <2> QED BY <2>1 DEF Queued
<1>3. Owned'
  BY DEF Applying, Owned, Up
<1>4. Progress'
  <2>1. Src.gen \in Nat
    BY ApplyingFacts
  <2>2. Recorded => record.gen \in Nat /\ record.gen + 1 <= Src.gen
    <3>1. Recorded => record.gen \in Nat
      BY RecordFacts DEF Applying, Recorded
    <3>2. Recorded => record.gen + 1 <= Src.gen
      BY <1>1 DEF Applying, Progress
    <3> QED BY <2>1, <3>1, <3>2
  <2>3. Recorded' => record'.gen + 0 <= Src'.gen
    <3>1. record' = record
      BY DEF Applying
    <3> QED BY <2>1, <2>2, <3>1 DEF Recorded
  <2>4. Src'.state \in Up /\ ~gone' /\ record'.phase # "Published"
        /\ Src'.state \notin {"Retired", "absent"}
    BY <1>1 DEF Applying, Up
  <2> QED BY <2>3, <2>4 DEF Progress
<1>5. Clean'
  BY DEF Applying, Clean, Recorded
<1>6. Served'
  BY DEF Applying, Served, Up
<1>7. record.phase \in {"ChildrenBuilt", "CaughtUp"} => splits \in Attempts
  BY RecordFacts DEF Applying
<1>8. ASSUME ~Awaited PROVE Reached(l)'
  <2>1. l \notin {"savePublished", "drop", "teardown"}
    BY <1>1, ApplyingFacts DEF Applying, Local, Reached
  <2>2. l \in {"removeU", "restore", "wipe", "forget"} => Kid(Lower)' = Kid(Lower)
    BY ApplyingFacts, SourceOnly, KeyFacts DEF Undoing
  <2>3. l \in {"restore", "wipe", "forget"} => Kid(Upper)' = Kid(Upper)
    BY ApplyingFacts, SourceOnly, KeyFacts DEF Undoing
  <2>4. Reached(l) /\ (~stray' => ~stray) /\ record' = record
    BY DEF Applying, Local
  <2> QED BY <2>1, <2>2, <2>3, <2>4 DEF Reached, Up
<1> QED BY <1>2, <1>3, <1>4, <1>5, <1>6, <1>7, <1>8, SourceOnly DEF Settles

\* A command that changes nothing.
LEMMA NoEffect ==
  ASSUME NEW l, NEW c, Applying(l, c), meta' = meta, undone' = undone
  PROVE  Settles(l)
<1>1. MetaTypes' /\ Owned' /\ Progress' /\ Served'
  BY DEF Applying, MetaTypes, Owned, Progress, Served, Src, Kid, Recorded
<1>2. Clean'
  BY DEF Applying, Clean, Src, Recorded
<1>3. Queued'
  BY QueuedKept DEF Applying
<1>4. Reached(l)'
  <2>1. Reached(l) /\ (~stray' => ~stray) /\ record' = record /\ splits' = splits
    BY DEF Applying, Local
  <2> QED BY <2>1 DEF Reached, Src, Kid
<1>5. \A k \in Keys : Kid(k)' = Kid(k)
  BY DEF Applying, Kid
<1> QED BY <1>1, <1>2, <1>3, <1>4, <1>5 DEF Settles

\* The source is retired once its children serve.
LEMMA RetireEffect ==
  ASSUME NEW l, NEW c, Applying(l, c), IsRetire(c), MetaTypes',
         \A t \in Children : meta'[t] = meta[t], undone' = undone,
         Src.state = "Retiring", c.desc.gen = Src.gen + 1, Src' = c.desc
  PROVE  Settles(l)
<1>1. record.phase = "Published" /\ record # NoRecord /\ ~gone /\ splits \in Attempts
  <2>1. RetireOK(c)
    BY KindFacts DEF Applying
  <2>2. record.phase = "Published"
    BY <2>1 DEF RetireOK
  <2>3. record # NoRecord /\ splits \in Attempts
    BY <2>2, RecordFacts DEF Applying
  <2> QED BY <2>2, <2>3 DEF Applying, Progress
<1>2. Src'.state = "Retired" /\ Src' # NoDesc /\ Src'.gen = Src.gen + 1 /\ Src.gen \in Nat
  BY ApplyingFacts DEF IsRetire, OnSource, NoDesc
<1>3. Queued'
  <2>1. ASSUME NEW d \in Range(queue') PROVE CommandOK(d)'
    <3>1. CommandOK(d) /\ d \in Commands /\ Turn(d)' /\ Turn(d)
      BY ApplyingFacts, SourceOnly DEF Applying, CommandOK
    <3>2. IsRetire(d) \/ IsDrop(d)
      BY <1>1, <3>1 DEF Turn
    <3>3. ~IsDrop(d)
      <4>1. ~DropOK(d)
        BY DEF DropOK
      <4> QED BY <3>1, <4>1, KindFacts DEF Applying
    <3>4. RetireOK(d) /\ d.desc.state = "Retired"
      BY <3>1, <3>2, <3>3, KindFacts DEF Applying, IsRetire, OnSource
    <3>5. d.desc.gen = Src.gen + 1
      BY <3>4 DEF RetireOK
    <3>6. d.desc = c.desc
      <4>1. d.desc \in [state : States \cup {"absent"}, gen : Nat]
            /\ c.desc \in [state : States \cup {"absent"}, gen : Nat]
        BY <3>1 DEF Applying, Commands
      <4>2. c.desc.state = "Retired"
        BY DEF IsRetire, OnSource
      <4> QED BY <3>4, <3>5, <4>1, <4>2
    <3>7. RetireOK(d)'
      BY <3>4, <3>6 DEF RetireOK, Applying
    <3> QED BY <3>1, <3>7 DEF CommandOK
  <2> QED BY <2>1 DEF Queued
<1>4. \A k \in Keys : Kid(k)' = Kid(k)
  BY <1>1, SourceOnly
<1>5. Owned'
  BY <1>2, <1>4 DEF Applying, Owned, Up
<1>6. Progress'
  <2>1. record.gen \in Nat /\ record.gen + 1 <= Src.gen
    <3>1. record.gen \in Nat
      BY <1>1, RecordFacts DEF Applying
    <3>2. Src # NoDesc
      BY DEF NoDesc
    <3> QED BY <1>1, <3>1, <3>2 DEF Applying, Progress, Recorded
  <2>2. record.gen + 1 <= Src'.gen
    BY <1>2, <2>1
  <2>3. \A k \in Keys : Kid(k)'.state = "Active"
    BY <1>1, <1>4 DEF Applying, Progress
  <2>4. record' = record /\ gone' = gone
    BY DEF Applying
  <2> QED BY <1>1, <1>2, <2>2, <2>3, <2>4 DEF Progress, Up
<1>7. Clean'
  BY <1>1 DEF Applying, Clean, Recorded
<1>8. Served'
  BY <1>2 DEF Applying, Served, Up
<1>9. ASSUME ~Awaited PROVE Reached(l)'
  <2>1. l \notin {"savePublished", "teardown"} /\ l \notin Undoing
    <3>1. l # "teardown"
      BY DEF Applying, Local, Reached, NoDesc
    <3> QED BY <1>1, <3>1, ApplyingFacts
  <2>2. record' = record
    BY DEF Applying
  <2> QED BY <1>2, <2>1, <2>2 DEF Reached, Undoing
<1> QED BY <1>3, <1>4, <1>5, <1>6, <1>7, <1>8, <1>9 DEF Settles

\* The source's descriptor is removed.
LEMMA DropEffect ==
  ASSUME NEW l, NEW c, Applying(l, c), IsDrop(c), MetaTypes',
         \A t \in Children : meta'[t] = meta[t], undone' = undone, Src' = NoDesc
  PROVE  Settles(l)
<1>1. /\ Src.state \in {"Retired", "absent"}
      /\ gone \/ (record.phase = "Published" /\ record # NoRecord)
      /\ splits \in Attempts
  <2>1. DropOK(c)
    BY KindFacts DEF Applying
  <2>2. Src.state \notin Up
    BY <2>1 DEF DropOK, Up
  <2>3. gone \/ (record.phase = "Published" /\ record # NoRecord)
    BY <2>1, RecordFacts DEF DropOK, Applying
  <2> QED BY <2>1, <2>2, <2>3, ApplyingFacts DEF DropOK
<1>2. Src'.state = "absent"
  BY DEF NoDesc
<1>3. Queued'
  <2>1. ASSUME NEW d \in Range(queue') PROVE CommandOK(d)'
    <3>1. CommandOK(d) /\ Turn(d)' /\ IsDrop(d)
      BY ApplyingFacts, SourceOnly DEF Applying
    <3>2. DropOK(d)'
      BY <1>1, <1>2, <3>1 DEF DropOK, Applying
    <3> QED BY <3>1, <3>2 DEF CommandOK
  <2> QED BY <2>1 DEF Queued
<1>4. \A k \in Keys : Kid(k)' = Kid(k)
  BY <1>1, SourceOnly
<1>5. Owned'
  BY <1>1, <1>2, <1>4 DEF Applying, Owned, Up
<1>6. Progress'
  <2>1. \A k \in Keys : Kid(k)'.state = "Active"
    BY <1>1, <1>4 DEF Applying, Progress
  <2>2. gone => record = NoRecord
    BY DEF Applying, Progress
  <2>3. record' = record /\ gone' = gone
    BY DEF Applying
  <2> QED BY <1>1, <1>2, <2>1, <2>2, <2>3 DEF Progress, Up
<1>7. Clean'
  BY <1>1 DEF Applying, Clean, Recorded
<1>8. Served'
  BY <1>2 DEF Applying, Served, Up
<1>9. ASSUME ~Awaited PROVE Reached(l)'
  <2>1. l # "savePublished" /\ l \notin Undoing
    BY <1>1, ApplyingFacts
  <2>2. record' = record
    BY DEF Applying
  <2> QED BY <1>2, <2>1, <2>2 DEF Reached, Undoing
<1> QED BY <1>3, <1>4, <1>5, <1>6, <1>7, <1>8, <1>9 DEF Settles

\* A child is created.
LEMMA CreateEffect ==
  ASSUME NEW l, NEW c, Applying(l, c), IsCreate(c), MetaTypes', meta' # meta,
         meta'[c.tablet] = c.desc, undone' = undone,
         \A s \in Tablets : s # c.tablet => meta'[s] = meta[s]
  PROVE  Settles(l)
<1>1. PICK j \in Keys : c.tablet = Child(c.attempt, j)
  BY DEF IsCreate, OnChild
<1>2. /\ c.tablet \in Children /\ c.tablet[1] = c.attempt /\ c.tablet # Source
      /\ meta'[c.tablet].state = "Creating" /\ meta[c.tablet].state # "Active"
      /\ Src' = Src
  <2>1. c.tablet \in Children /\ c.tablet[1] = c.attempt /\ c.tablet # Source
    BY <1>1, ApplyingFacts, TabletFacts
  <2>2. CreateOK(c)
    BY KindFacts DEF Applying
  <2> QED BY <2>1, <2>2, TabletFacts DEF CreateOK, IsCreate, Src
<1>3. ~gone /\ record.phase # "Published"
  BY <1>2 DEF Applying, CommandOK, Turn, IsCreate, IsRetire, IsDrop, OnSource
<1>4. record.phase \in {"none", "Started", "MarkedSplitting"}
  <2>1. CASE record = NoRecord
    BY <2>1, RecordFacts DEF Applying
  <2>2. CASE record # NoRecord /\ record.phase # "Started"
    BY <2>2, NoStrangers DEF Applying
  <2> QED BY <2>1, <2>2
<1>5. Src.state \in Up
  BY <1>3, <1>4 DEF Applying, Progress
<1>6. \A s \in Children : s # c.tablet => meta'[s] = meta[s]
  BY TabletFacts
<1>7. Queued'
  <2>1. ASSUME NEW d \in Range(queue') PROVE CommandOK(d)'
    <3>1. CommandOK(d) /\ d.attempt \in Attempts /\ Turn(d)
      BY ApplyingFacts DEF CommandOK
    <3>2. /\ Turn(d)' /\ (MarkOK(d) => MarkOK(d)') /\ (RestoreOK(d) => RestoreOK(d)')
          /\ (RetireOK(d) => RetireOK(d)') /\ (DropOK(d) => DropOK(d)')
      BY <1>2, <3>1
         DEF Turn, MarkOK, RestoreOK, RetireOK, DropOK, Own, Recorded, Applying
    <3>3. ASSUME CreateOK(d) PROVE CreateOK(d)'
      <4>1. d.tablet \in Children /\ meta[d.tablet].state # "Active"
        BY <3>1, <3>3, TabletFacts DEF CreateOK, IsCreate, OnChild
      <4>2. meta'[d.tablet].state # "Active"
        BY <1>2, <1>6, <4>1
      <4> QED BY <3>3, <4>2 DEF CreateOK, Own, Applying
    <3>4. ASSUME PublishOK(d) PROVE PublishOK(d)'
      <4>1. d.attempt # c.attempt
        BY <3>4 DEF PublishOK, Applying
      <4>2. ASSUME NEW k \in Keys
            PROVE  meta'[Child(d.attempt, k)] = meta[Child(d.attempt, k)]
        <5>1. Child(d.attempt, k) \in Children /\ Child(d.attempt, k)[1] = d.attempt
          BY <3>1, TabletFacts
        <5> QED BY <1>2, <1>6, <4>1, <5>1
      <4> QED BY <3>4, <4>2 DEF PublishOK, Own, Applying
    <3> QED BY <3>1, <3>2, <3>3, <3>4 DEF CommandOK
  <2> QED BY <2>1 DEF Queued
<1>8. Owned'
  <2>1. \A s \in Children : meta'[s].state = "Active" => meta[s].state = "Active"
    BY <1>2, <1>6
  <2>2. \A s \in Children : s[1] > splits => meta'[s] = NoDesc
    <3>1. ~(c.tablet[1] > splits)
      BY <1>2, ApplyingFacts
    <3> QED BY <1>6, <3>1 DEF Applying, Owned
  <2> QED BY <1>2, <1>5, <2>1, <2>2 DEF Applying, Owned
<1>9. Progress'
  BY <1>2, <1>3, <1>5 DEF Applying, Progress, Up, Recorded
<1>10. ~stray' => ~stray /\ Own(c) /\ (Awaited \/ c.attempt \notin aborted)
  BY ApplyingFacts DEF Applying
<1>11. Clean'
  <2>1. ~stray' => c.tablet[1] = splits /\ Recorded
    BY <1>2, <1>10, ApplyingFacts DEF Recorded
  <2> QED BY <1>2, <1>6, <1>10, <2>1 DEF Applying, Clean, Recorded
<1>12. Served'
  BY <1>2, <1>6 DEF Applying, Served
<1>13. ASSUME ~Awaited PROVE Reached(l)'
  <2>1. l \notin {"savePublished", "drop", "teardown"}
    BY <1>3, ApplyingFacts DEF Applying, Local, Placed
  <2>2. l \in Undoing => stray'
    BY <1>10, <1>13, ApplyingFacts DEF Own
  <2>3. Reached(l) /\ record' = record
    BY DEF Applying, Local
  <2>4. record'.phase \notin Later
    BY <1>4, <2>3 DEF Later
  <2> QED BY <1>2, <2>1, <2>2, <2>3, <2>4 DEF Reached, Undoing
<1> QED BY <1>4, <1>7, <1>8, <1>9, <1>11, <1>12, <1>13 DEF Settles

\* A child is removed.
LEMMA UncreateEffect ==
  ASSUME NEW l, NEW c, Applying(l, c), IsUncreate(c), MetaTypes',
         meta'[c.tablet] = NoDesc,
         undone' = IF meta[c.tablet].state = "Active"
                   THEN undone \cup {c.tablet[2]} ELSE undone,
         \A s \in Tablets : s # c.tablet => meta'[s] = meta[s]
  PROVE  Settles(l)
<1>1. PICK j \in Keys : c.tablet = Child(c.attempt, j)
  BY DEF IsUncreate, OnChild
<1>2. /\ c.tablet \in Children /\ c.tablet # Source /\ Src' = Src
      /\ NoDesc.state = "absent"
  <2>1. c.tablet \in Children /\ c.tablet # Source
    BY <1>1, ApplyingFacts, TabletFacts
  <2> QED BY <2>1, TabletFacts DEF Src, NoDesc
<1>3. ~gone /\ record.phase # "Published"
  BY <1>2 DEF Applying, CommandOK, Turn, IsUncreate, IsRetire, IsDrop, OnSource
<1>4. \A s \in Children : meta'[s] = meta[s] \/ (s = c.tablet /\ meta'[s] = NoDesc)
  BY TabletFacts
<1>5. splits \in Attempts =>
        \A k \in Keys : /\ Kid(k)' = Kid(k) \/ Kid(k)' = NoDesc
                        /\ Kid(k).state = "Active" =>
                             Kid(k)'.state = "Active" \/ k \in undone'
  <2>1. ASSUME splits \in Attempts, NEW k \in Keys
        PROVE  /\ Kid(k)' = Kid(k) \/ Kid(k)' = NoDesc
               /\ Kid(k).state = "Active" => Kid(k)'.state = "Active" \/ k \in undone'
    <3>1. Child(splits, k) \in Children /\ Child(splits, k)[2] = k
      BY <2>1, TabletFacts
    <3>2. /\ Kid(k) = meta[Child(splits, k)]
          /\ Kid(k)' = meta'[Child(splits, k)]
      BY DEF Kid, Applying
    <3> QED BY <1>4, <3>1, <3>2
  <2> QED BY <2>1
<1>6. Queued'
  <2>1. ASSUME NEW d \in Range(queue') PROVE CommandOK(d)'
    <3>1. CommandOK(d) /\ d.attempt \in Attempts /\ Turn(d)
      BY ApplyingFacts DEF CommandOK
    <3>2. /\ Turn(d)' /\ (MarkOK(d) => MarkOK(d)') /\ (RestoreOK(d) => RestoreOK(d)')
          /\ (RetireOK(d) => RetireOK(d)') /\ (DropOK(d) => DropOK(d)')
      BY <1>2, <3>1
         DEF Turn, MarkOK, RestoreOK, RetireOK, DropOK, Own, Recorded, Applying
    <3>3. ASSUME CreateOK(d) PROVE CreateOK(d)'
      <4>1. d.tablet \in Children /\ meta[d.tablet].state # "Active"
        BY <3>1, <3>3, TabletFacts DEF CreateOK, IsCreate, OnChild
      <4>2. meta'[d.tablet].state # "Active"
        BY <1>2, <1>4, <4>1
      <4> QED BY <3>3, <4>2 DEF CreateOK, Own, Applying
    <3>4. ASSUME PublishOK(d) PROVE PublishOK(d)'
      <4>1. ASSUME NEW k \in Keys, meta[Child(d.attempt, k)] = NoDesc
            PROVE  meta'[Child(d.attempt, k)] = NoDesc
        BY <1>4, <3>1, <4>1, TabletFacts
      <4> QED BY <3>4, <4>1 DEF PublishOK, Own, Applying
    <3> QED BY <3>1, <3>2, <3>3, <3>4 DEF CommandOK
  <2> QED BY <2>1 DEF Queued
<1>7. Owned'
  <2>1. \A s \in Children : meta'[s].state = "Active" => meta[s].state = "Active"
    BY <1>2, <1>4
  <2>2. \A s \in Children : s[1] > splits => meta'[s] = NoDesc
    BY <1>4 DEF Applying, Owned
  <2>3. ASSUME Src.state \notin Up, NEW k \in Keys
        PROVE  k \in undone' \/ Kid(k)'.state = "Active"
    <3>1. splits \in Attempts
      BY <2>3, ApplyingFacts
    <3>2. k \in undone \/ Kid(k).state = "Active"
      BY <2>3 DEF Applying, Owned
    <3> QED BY <1>5, <3>1, <3>2
  <2> QED BY <1>2, <2>1, <2>2, <2>3 DEF Applying, Owned
<1>8. Progress'
  BY <1>2, <1>3 DEF Applying, Progress, Recorded
<1>9. Clean'
  BY <1>2, <1>4 DEF Applying, Clean, Recorded
<1>10. Served'
  BY <1>2, <1>4 DEF Applying, Served
<1>11. record.phase \in {"ChildrenBuilt", "CaughtUp"} => splits \in Attempts
  BY RecordFacts DEF Applying
<1>12. ASSUME ~Awaited PROVE Reached(l)'
  <2>1. l \notin {"savePublished", "drop", "teardown"}
    BY <1>3, ApplyingFacts DEF Applying, Local, Placed
  <2>2. l \in Undoing => /\ Kid(Lower)' = Kid(Lower) \/ Kid(Lower)' = NoDesc
                         /\ Kid(Upper)' = Kid(Upper) \/ Kid(Upper)' = NoDesc
    BY <1>5, ApplyingFacts, KeyFacts
  <2>3. Reached(l) /\ record' = record /\ (~stray' => ~stray)
    BY DEF Applying, Local
  <2> QED BY <1>2, <2>1, <2>2, <2>3 DEF Reached, Undoing
<1>13. record.phase \in {"ChildrenBuilt", "CaughtUp"} =>
         \A k \in Keys : /\ Kid(k)' # NoDesc => Kid(k) # NoDesc
                         /\ Kid(k)'.state = "Creating" => Kid(k).state = "Creating"
  BY <1>2, <1>5, <1>11
<1> QED BY <1>6, <1>7, <1>8, <1>9, <1>10, <1>12, <1>13 DEF Settles

\* The publication swaps the source for its children, which hold what the
\* first catch-up read saw.
LEMMA PublishEffect ==
  ASSUME NEW l, NEW c, Applying(l, c), DataTypes, IsPublish(c), Own(c), MetaTypes',
         Src.state = "Splitting", c.desc.gen = Src.gen + 1,
         Src'.state = "Retiring", Src'.gen = c.desc.gen, undone' = undone,
         \A k \in Keys : Kid(k).state = "Creating" /\ Kid(k)'.state = "Active",
         \A s \in Children : s[1] # splits => meta'[s] = meta[s]
  PROVE  Settles(l)
<1>1. /\ record # NoRecord /\ record.attempt = splits /\ splits \in Attempts /\ ~gone
      /\ record.phase = "CaughtUp" /\ c.desc.gen = record.gen + 2
      /\ record.gen \in Nat /\ Src.gen \in Nat
  <2>1. PublishOK(c)
    BY KindFacts DEF Applying
  <2>2. record # NoRecord
    BY ApplyingFacts
  <2> QED BY <2>1, <2>2, RecordFacts, ApplyingFacts DEF PublishOK, Applying, Progress
<1>2. /\ \A k \in Keys : Kid(k) # NoDesc /\ Kid(k)' = meta'[Child(splits, k)]
      /\ Src # NoDesc /\ Src' # NoDesc
  <2>1. \A k \in Keys : Kid(k)' = meta'[Child(splits, k)]
    BY DEF Kid, Applying
  <2> QED BY <2>1 DEF NoDesc
<1>3. \A s \in Children : s[1] = splits => s[2] \in Keys /\ s = Child(splits, s[2])
  BY TabletFacts
<1>4. Queued'
  <2>1. ASSUME NEW d \in Range(queue') PROVE CommandOK(d)'
    <3>1. CommandOK(d) /\ d.desc.gen \in Nat /\ d \in Range(queue) /\ Turn(d)
      BY ApplyingFacts DEF CommandOK, Applying
    <3>2. Own(d) /\ ~IsMark(d) /\ ~IsCreate(d) /\ ~IsDrop(d) /\ ~IsRetire(d)
      BY <1>1, <3>1, NoStrangers, NoDrops DEF Applying
    <3>3. ~MarkOK(d) /\ ~CreateOK(d) /\ ~DropOK(d) /\ ~RetireOK(d)
      BY <3>2 DEF MarkOK, CreateOK, DropOK, RetireOK
    <3>4. Turn(d)'
      BY <3>1 DEF Turn, Own, Recorded, Applying
    <3>5. RestoreOK(d) => RestoreOK(d)'
      BY <1>1, <1>2, <3>1 DEF RestoreOK
    <3>6. PublishOK(d) => PublishOK(d)'
      BY <3>2 DEF PublishOK, Own, Applying
    <3> QED BY <3>1, <3>3, <3>4, <3>5, <3>6 DEF CommandOK
  <2> QED BY <2>1 DEF Queued
<1>5. \A s \in Children : s[1] # splits => meta[s].state # "Active"
  BY DEF Applying, Owned
<1>6. Owned'
  <2>1. splits' = splits /\ record' = record /\ splits \in Nat
    BY ApplyingFacts DEF Applying
  <2>2. \A s \in Children : meta'[s].state = "Active" => s[1] = splits
    BY <1>5
  <2>3. \A s \in Children : s[1] > splits => meta'[s] = NoDesc
    BY <2>1 DEF Applying, Owned
  <2> QED BY <1>1, <2>1, <2>2, <2>3 DEF Owned, Up
<1>7. Progress'
  <2>1. record' = record /\ gone' = gone
    BY DEF Applying
  <2>2. record.gen + 1 <= Src'.gen
    BY <1>1
  <2> QED BY <1>1, <2>1, <2>2 DEF Progress, Up
<1>8. Clean'
  BY <1>1 DEF Applying, Clean, Recorded
<1>9. ASSUME NEW k \in Keys
      PROVE  readAt # NotRead /\ (LateIn(log, readAt, k) \/ KidRow(k) = truth[k])
  <2>1. readAt # NotRead /\ CaughtUp(k)
    BY <1>1 DEF Applying, Local, Pinned, Copied
  <2>2. PICK r, n : r = readAt /\ n = Len(log)
    OBVIOUS
  <2>3. log \in Logs /\ r \in Nat /\ n \in Nat /\ r <= n
    BY <2>1, <2>2 DEF DataTypes, Logs
  <2>4. Row(log, n, k) = truth[k]
    BY <2>2 DEF Applying, Served, Up
  <2>5. LateIn(log, r, k) \/ Row(log, r, k) = Row(log, n, k)
    BY <2>2, <2>3, NotLate
  <2> QED BY <2>1, <2>2, <2>4, <2>5 DEF CaughtUp
<1>10. Served'
  <2>1. ASSUME NEW s \in Children, meta'[s].state = "Active"
        PROVE  readAt # NotRead /\ (LateIn(log, readAt, s[2]) \/ rows[s] = truth[s[2]])
    <3>1. s[2] \in Keys /\ s = Child(splits, s[2])
      BY <1>3, <1>5, <2>1
    <3> QED BY <1>9, <3>1 DEF KidRow
  <2> QED BY <2>1 DEF Applying, Served, Up
<1>11. ASSUME ~Awaited PROVE Reached(l)'
  <2>1. l \notin {"savePublished", "drop", "teardown"}
    BY <1>1, ApplyingFacts DEF Applying, Local, Placed
  <2>2. l \notin {"removeU", "restore", "wipe", "forget"}
    BY <1>1, <1>2, KeyFacts DEF Applying, Local, Reached, Later
  <2> QED BY <2>1, <2>2 DEF Reached
<1> QED BY <1>2, <1>4, <1>6, <1>7, <1>8, <1>10, <1>11 DEF Settles

\* What ApplyMeta does to the meta state with a command.
Changes(c) ==
    /\ meta' = IF Accepts(c) THEN Result(c) ELSE meta
    /\ undone' = IF /\ c.kind = "Remove" /\ Accepts(c)
                    /\ meta[c.tablet].state = "Active"
                 THEN undone \cup {c.tablet[2]} ELSE undone

\* A Set of a tablet: by generation, and a Set of what is there is a no-op.
LEMMA SetChanges ==
  ASSUME NEW l, NEW c, Applying(l, c), Changes(c), c.kind = "Set"
  PROVE  /\ MetaTypes' /\ undone' = undone /\ c.tablet \in Tablets
         /\ meta' = meta
            \/ /\ c.desc.gen > meta[c.tablet].gen
               /\ \A s \in Tablets : s # c.tablet => meta'[s] = meta[s]
         /\ Accepts(c) => meta'[c.tablet] = c.desc
<1>1. /\ Accepts(c) = AcceptsSet(c) /\ Result(c) = [meta EXCEPT ![c.tablet] = c.desc]
      /\ undone' = undone
  BY DEF Accepts, Result, Changes
<1>2. /\ c.tablet \in Tablets /\ c.desc \in [state : States \cup {"absent"}, gen : Nat]
      /\ MetaTypes /\ meta \in [Tablets -> [state : States \cup {"absent"}, gen : Nat]]
  BY DEF Applying, Commands, MetaTypes
<1>3. CASE ~Accepts(c)
  <2>1. meta' = meta
    BY <1>3 DEF Changes
  <2> QED BY <1>1, <1>2, <1>3, <2>1 DEF MetaTypes, Src
<1>4. CASE Accepts(c)
  <2>1. meta' = [meta EXCEPT ![c.tablet] = c.desc]
    BY <1>1, <1>4 DEF Changes
  <2>2. /\ meta' \in [Tablets -> [state : States \cup {"absent"}, gen : Nat]]
        /\ meta'[c.tablet] = c.desc
        /\ \A s \in Tablets : s # c.tablet => meta'[s] = meta[s]
    BY <1>2, <2>1
  <2>3. /\ c.desc.state # "absent"
        /\ c.tablet = Source => c.desc.state # "Creating"
        /\ c.tablet \in Children => c.desc.state = "Creating"
    <3>1. IsMark(c) \/ IsRestore(c) \/ IsRetire(c) \/ IsCreate(c)
      BY DEF Applying, CommandOK, MarkOK, RestoreOK, RetireOK, DropOK, CreateOK, PublishOK,
             IsDrop, IsUncreate, IsPublish
    <3>2. OnChild(c) => c.tablet # Source
      BY ApplyingFacts, TabletFacts DEF OnChild
    <3> QED BY <3>1, <3>2, TabletFacts DEF IsMark, IsRestore, IsRetire, IsCreate, OnSource
  <2>4. MetaTypes'
    <3>1. \A t \in Tablets : meta'[t].state = "absent" => meta'[t] = NoDesc
      BY <1>2, <2>2, <2>3 DEF MetaTypes
    <3>2. \A t \in Children : meta'[t].state \in {"absent", "Creating", "Active"}
      BY <1>2, <2>2, <2>3, TabletFacts DEF MetaTypes
    <3>3. Src'.state # "Creating"
      BY <1>2, <2>2, <2>3, TabletFacts DEF MetaTypes, Src
    <3> QED BY <2>2, <3>1, <3>2, <3>3 DEF MetaTypes
  <2>5. CASE c.desc.gen > meta[c.tablet].gen
    BY <1>1, <1>2, <2>2, <2>4, <2>5
  <2>6. CASE c.desc = meta[c.tablet]
    <3>1. meta' = meta
      BY <1>2, <2>1, <2>6
    <3> QED BY <1>1, <1>2, <2>2, <2>4, <3>1
  <2> QED BY <1>1, <1>4, <2>5, <2>6 DEF AcceptsSet
<1> QED BY <1>3, <1>4

\* A Remove of a tablet.
LEMMA RemoveChanges ==
  ASSUME NEW l, NEW c, Applying(l, c), Changes(c), c.kind = "Remove"
  PROVE  /\ MetaTypes' /\ c.tablet \in Tablets
         /\ ~Accepts(c) => meta' = meta /\ undone' = undone
         /\ Accepts(c) =>
              /\ meta'[c.tablet] = NoDesc
              /\ \A s \in Tablets : s # c.tablet => meta'[s] = meta[s]
              /\ undone' = IF meta[c.tablet].state = "Active"
                           THEN undone \cup {c.tablet[2]} ELSE undone
<1>1. Result(c) = [meta EXCEPT ![c.tablet] = NoDesc]
  BY DEF Result
<1>2. /\ c.tablet \in Tablets /\ MetaTypes
      /\ meta \in [Tablets -> [state : States \cup {"absent"}, gen : Nat]]
  BY DEF Applying, Commands, MetaTypes
<1>3. CASE ~Accepts(c)
  <2>1. meta' = meta /\ undone' = undone
    BY <1>3 DEF Changes
  <2> QED BY <1>2, <1>3, <2>1 DEF MetaTypes, Src
<1>4. CASE Accepts(c)
  <2>1. /\ meta' = [meta EXCEPT ![c.tablet] = NoDesc]
        /\ undone' = IF meta[c.tablet].state = "Active"
                     THEN undone \cup {c.tablet[2]} ELSE undone
    BY <1>1, <1>4 DEF Changes
  <2>2. NoDesc \in [state : States \cup {"absent"}, gen : Nat] /\ NoDesc.state = "absent"
    BY DEF NoDesc
  <2>3. /\ meta' \in [Tablets -> [state : States \cup {"absent"}, gen : Nat]]
        /\ meta'[c.tablet] = NoDesc
        /\ \A s \in Tablets : s # c.tablet => meta'[s] = meta[s]
    BY <1>2, <2>1, <2>2
  <2>4. MetaTypes'
    <3>1. \A t \in Tablets : meta'[t].state = "absent" => meta'[t] = NoDesc
      BY <1>2, <2>3 DEF MetaTypes
    <3>2. \A t \in Children : meta'[t].state \in {"absent", "Creating", "Active"}
      BY <1>2, <2>2, <2>3, TabletFacts DEF MetaTypes
    <3>3. Src'.state # "Creating"
      BY <1>2, <2>2, <2>3, TabletFacts DEF MetaTypes, Src
    <3> QED BY <2>3, <3>1, <3>2, <3>3 DEF MetaTypes
  <2> QED BY <1>2, <1>4, <2>1, <2>3, <2>4
<1> QED BY <1>3, <1>4

\* A publication: of the recorded split's children, or a no-op.
LEMMA PublishChanges ==
  ASSUME NEW l, NEW c, Applying(l, c), Changes(c), c.kind = "Publish"
  PROVE  /\ MetaTypes' /\ undone' = undone
         /\ Accepts(c) => /\ Src'.state = "Retiring"
                          /\ Own(c) => \A k \in Keys : Kid(k)'.state = "Active"
         /\ meta' = meta
            \/ /\ Own(c) /\ Src.state = "Splitting" /\ c.desc.gen = Src.gen + 1
               /\ Src'.state = "Retiring" /\ Src'.gen = c.desc.gen
               /\ \A k \in Keys : Kid(k).state = "Creating" /\ Kid(k)'.state = "Active"
               /\ \A s \in Children : s[1] # splits => meta'[s] = meta[s]
<1>1. /\ Accepts(c) = AcceptsPublish(c) /\ Result(c) = Publication(c.attempt, c.desc.gen)
      /\ undone' = undone
  BY DEF Accepts, Result, Changes
<1>2. PICK a, g : a = c.attempt /\ g = c.desc.gen
  OBVIOUS
<1>3. /\ a \in Attempts /\ g \in Nat /\ MetaTypes /\ Src.gen \in Nat
      /\ meta \in [Tablets -> [state : States \cup {"absent"}, gen : Nat]]
      /\ CommandOK(c) /\ ControlTypes /\ splits' = splits
      /\ Own(c) => a = splits
  BY <1>2, ApplyingFacts DEF Applying, MetaTypes
<1>4. CASE ~Accepts(c)
  <2>1. meta' = meta
    BY <1>4 DEF Changes
  <2> QED BY <1>1, <1>3, <1>4, <2>1 DEF MetaTypes, Src
<1>5. CASE Accepts(c)
  <2> DEFINE P == Publication(a, g)
  <2>1. meta' = P
    BY <1>1, <1>2, <1>5 DEF Changes
  <2>2. /\ P[Source] = [state |-> "Retiring", gen |-> g]
        /\ \A k \in Keys : P[Child(a, k)] = [state |-> "Active", gen |-> g]
        /\ \A s \in Children : s[1] # a => P[s] = meta[s]
        /\ P \in [Tablets -> [state : States \cup {"absent"}, gen : Nat]]
    <3>1. P[Source] = [state |-> "Retiring", gen |-> g]
      <4>1. Source \in Tablets /\ Source \notin {Child(a, k) : k \in Keys}
        BY <1>3, TabletFacts
      <4> QED BY <4>1 DEF Publication
    <3>2. \A k \in Keys : Child(a, k) \in Tablets /\ Child(a, k) # Source
                          /\ Child(a, k) \in {Child(a, j) : j \in Keys}
      BY <1>3, TabletFacts
    <3>3. \A k \in Keys : P[Child(a, k)] = [state |-> "Active", gen |-> g]
      BY <3>2 DEF Publication
    <3>4. ASSUME NEW s \in Children, s[1] # a PROVE P[s] = meta[s]
      <4>1. s \in Tablets /\ s # Source
        BY TabletFacts
      <4>2. s \notin {Child(a, j) : j \in Keys}
        BY <1>3, <3>4, TabletFacts
      <4> QED BY <4>1, <4>2 DEF Publication
    <3>5. ASSUME NEW s \in Tablets
          PROVE  P[s] \in [state : States \cup {"absent"}, gen : Nat]
      <4>1. CASE s = Source
        BY <1>3, <3>1, <4>1 DEF States
      <4>2. CASE s \in Children /\ s[1] # a
        BY <1>3, <3>4, <4>2
      <4>3. CASE s \in Children /\ s[1] = a
        <5>1. s[2] \in Keys /\ s = Child(a, s[2])
          BY <4>3, TabletFacts
        <5>2. P[s] = [state |-> "Active", gen |-> g]
          BY <3>3, <5>1
        <5> QED BY <1>3, <5>2 DEF States
      <4> QED BY <4>1, <4>2, <4>3, TabletFacts
    <3>6. P = [t \in Tablets |-> P[t]]
      BY DEF Publication
    <3> HIDE DEF P
    <3>7. P \in [Tablets -> [state : States \cup {"absent"}, gen : Nat]]
      BY <3>5, <3>6
    <3> QED BY <3>1, <3>3, <3>4, <3>7
  <2> HIDE DEF P
  <2>3. \A s \in Children : s[1] = a => P[s].state = "Active"
    <3>1. \A s \in Children : s[1] = a => s[2] \in Keys /\ s = Child(a, s[2])
      BY TabletFacts
    <3> QED BY <2>2, <3>1
  <2>4. MetaTypes'
    <3>1. \A t \in Tablets : P[t].state = "absent" => P[t] = NoDesc
      BY <1>3, <2>2, <2>3, TabletFacts DEF MetaTypes
    <3>2. \A t \in Children : P[t].state \in {"absent", "Creating", "Active"}
      BY <1>3, <2>2, <2>3 DEF MetaTypes
    <3>3. Src'.state # "Creating"
      BY <2>1, <2>2 DEF Src
    <3> QED BY <2>1, <2>2, <3>1, <3>2, <3>3 DEF MetaTypes
  <2>5. /\ Src' = [state |-> "Retiring", gen |-> g]
        /\ Own(c) => \A k \in Keys : Kid(k)'.state = "Active"
    <3>1. Own(c) => \A k \in Keys : Kid(k)' = P[Child(a, k)]
      BY <1>3, <2>1 DEF Kid
    <3> QED BY <2>1, <2>2, <3>1 DEF Src
  <2>6. CASE meta = P
    BY <1>1, <2>1, <2>4, <2>5, <2>6
  <2>7. CASE meta # P
    <3>1. /\ Src = [state |-> "Splitting", gen |-> g - 1]
          /\ \A k \in Keys : meta[Child(a, k)] = [state |-> "Creating", gen |-> g - 1]
      BY <1>1, <1>2, <1>5, <2>7 DEF AcceptsPublish, Src, P
    <3>2. Own(c)
      <4>1. IsPublish(c)
        BY <1>3 DEF CommandOK, MarkOK, RestoreOK, RetireOK, DropOK, CreateOK, PublishOK,
                    IsMark, IsRestore, IsRetire, IsDrop, IsCreate, IsUncreate, OnSource
      <4>2. PublishOK(c)
        BY <1>3, <4>1, KindFacts
      <4>3. meta[Child(a, Lower)] # NoDesc /\ Lower \in Keys
        BY <3>1, KeyFacts DEF NoDesc
      <4> QED BY <1>2, <4>2, <4>3 DEF PublishOK
    <3>3. Src.state = "Splitting" /\ Src.gen = g - 1 /\ g = Src.gen + 1
      BY <1>3, <3>1
    <3>4. \A k \in Keys : Kid(k).state = "Creating"
      BY <1>3, <3>1, <3>2 DEF Kid
    <3> QED BY <1>1, <1>2, <1>3, <2>1, <2>2, <2>4, <2>5, <3>2, <3>3, <3>4
  <2> QED BY <2>6, <2>7
<1> QED BY <1>4, <1>5

\* Whatever the first command of the queue is, applying it settles.
LEMMA ChangesSettle ==
  ASSUME NEW l, NEW c, Applying(l, c), DataTypes, Changes(c)
  PROVE  Settles(l)
<1>1. CommandOK(c) /\ ControlTypes /\ c.desc.gen \in Nat /\ Src.gen \in Nat
  BY ApplyingFacts DEF Applying
<1>2. ASSUME c.kind = "Set", c.tablet = Source, meta' # meta
      PROVE  /\ MetaTypes' /\ undone' = undone /\ c.desc.gen > Src.gen /\ Src' = c.desc
             /\ \A t \in Children : meta'[t] = meta[t]
  <2>1. /\ MetaTypes' /\ undone' = undone /\ c.desc.gen > Src.gen
        /\ \A s \in Tablets : s # Source => meta'[s] = meta[s]
    BY <1>2, SetChanges DEF Src
  <2>2. Accepts(c)
    BY <1>2 DEF Changes
  <2>3. Src' = c.desc
    BY <1>2, <2>2, SetChanges DEF Src
  <2> QED BY <2>1, <2>3, TabletFacts
<1>3. ASSUME c.kind # "Remove", meta' = meta PROVE Settles(l)
  <2>1. undone' = undone
    BY <1>3 DEF Changes
  <2> QED BY <1>3, <2>1, NoEffect
<1>4. CASE MarkOK(c)
  <2>1. c.kind = "Set" /\ c.tablet = Source /\ c.desc.state = "Splitting" /\ IsMark(c)
    BY <1>4 DEF MarkOK, IsMark, OnSource
  <2>2. CASE meta' # meta
    <3>1. Src.state = "Active" /\ c.desc.gen = Src.gen + 1
      BY <1>1, <1>2, <1>4, <2>1, <2>2 DEF MarkOK
    <3>2. Src'.state = "Splitting" /\ Src'.gen = Src.gen + 1
      BY <1>2, <2>1, <2>2, <3>1
    <3> QED BY <1>2, <2>1, <2>2, <3>1, <3>2, MarkEffect
  <2> QED BY <1>3, <2>1, <2>2
<1>5. CASE RestoreOK(c)
  <2>1. c.kind = "Set" /\ c.tablet = Source /\ c.desc.state = "Active" /\ IsRestore(c)
    BY <1>5 DEF RestoreOK, IsRestore, OnSource
  <2>2. CASE meta' # meta
    <3>1. Src.state = "Splitting" /\ c.desc.gen = Src.gen + 1
      BY <1>1, <1>2, <1>5, <2>1, <2>2 DEF RestoreOK
    <3>2. Src'.state = "Active" /\ Src'.gen = Src.gen + 1
      BY <1>2, <2>1, <2>2, <3>1
    <3> QED BY <1>2, <2>1, <2>2, <3>1, <3>2, RestoreEffect
  <2> QED BY <1>3, <2>1, <2>2
<1>6. CASE RetireOK(c)
  <2>1. c.kind = "Set" /\ c.tablet = Source /\ IsRetire(c)
    BY <1>6 DEF RetireOK, IsRetire, OnSource
  <2>2. CASE meta' # meta
    <3>1. Src.state = "Retiring" /\ c.desc.gen = Src.gen + 1
      BY <1>1, <1>2, <1>6, <2>1, <2>2 DEF RetireOK
    <3> QED BY <1>2, <2>1, <2>2, <3>1, RetireEffect
  <2> QED BY <1>3, <2>1, <2>2
<1>7. CASE DropOK(c)
  <2>1. c.kind = "Remove" /\ c.tablet = Source /\ IsDrop(c)
    BY <1>7 DEF DropOK, IsDrop
  <2>2. CASE Accepts(c)
    <3>1. Src.state # "Active"
      BY <1>7 DEF DropOK
    <3>2. MetaTypes' /\ Src' = NoDesc /\ undone' = undone
      BY <2>1, <2>2, <3>1, RemoveChanges DEF Src
    <3>3. \A t \in Children : meta'[t] = meta[t]
      BY <2>1, <2>2, RemoveChanges, TabletFacts
    <3> QED BY <2>1, <3>2, <3>3, DropEffect
  <2>3. CASE ~Accepts(c)
    BY <2>1, <2>3, RemoveChanges, NoEffect
  <2> QED BY <2>2, <2>3
<1>8. CASE CreateOK(c)
  <2>1. c.kind = "Set" /\ IsCreate(c)
    BY <1>8 DEF CreateOK, IsCreate
  <2>2. CASE meta' # meta
    <3>1. Accepts(c)
      BY <2>2 DEF Changes
    <3>2. /\ MetaTypes' /\ undone' = undone /\ meta'[c.tablet] = c.desc
          /\ \A s \in Tablets : s # c.tablet => meta'[s] = meta[s]
      BY <2>1, <2>2, <3>1, SetChanges
    <3> QED BY <2>1, <2>2, <3>2, CreateEffect
  <2> QED BY <1>3, <2>1, <2>2
<1>9. CASE IsUncreate(c)
  <2>1. c.kind = "Remove"
    BY <1>9 DEF IsUncreate
  <2>2. CASE Accepts(c)
    BY <1>9, <2>1, <2>2, RemoveChanges, UncreateEffect
  <2>3. CASE ~Accepts(c)
    BY <2>1, <2>3, RemoveChanges, NoEffect
  <2> QED BY <2>2, <2>3
<1>10. CASE PublishOK(c)
  <2>1. c.kind = "Publish" /\ IsPublish(c)
    BY <1>10 DEF PublishOK, IsPublish
  <2>2. CASE meta' # meta
    BY <2>1, <2>2, PublishChanges, PublishEffect
  <2> QED BY <1>3, <2>1, <2>2
<1> QED BY <1>1, <1>4, <1>5, <1>6, <1>7, <1>8, <1>9, <1>10 DEF CommandOK

\* An awaited command that passed brings the driver to the next place, with
\* what that place needs.
LEMMA PassedReaches ==
  ASSUME NEW l, NEW c, Applying(l, c), Changes(c), Awaited, Accepts(c)
  PROVE  /\ Reached(Then(l))'
         /\ Placed(Then(l))'
         /\ l # "idle"
         /\ Then(l) \notin {"savePinned", "installU", "saveBuilt", "apply", "saveCaughtUp"}
<1>1. /\ Awaits(l, c) /\ Own(c) /\ record' = record /\ aborted' = aborted /\ splits' = splits
      /\ Placed(l) /\ Reached(l) /\ (~stray' => ~stray) /\ record.attempt = splits
      /\ splits \in Attempts
  <2>1. Awaits(l, c) /\ Own(c)
    BY DEF Applying, Awaits
  <2> QED BY <2>1, RecordFacts, ApplyingFacts DEF Applying, Local
<1>2. CASE l = "mark"
  <2>1. Then(l) = "saveMarked"
    BY <1>2 DEF Then
  <2> QED BY <1>1, <1>2, <2>1 DEF Reached, Placed, Undoing
<1>3. CASE l = "createL"
  <2>1. Then(l) = "createU"
    BY <1>3 DEF Then
  <2> QED BY <1>1, <1>3, <2>1 DEF Reached, Placed, Undoing
<1>4. CASE l = "createU"
  <2>1. Then(l) = "saveCreated"
    BY <1>4 DEF Then
  <2> QED BY <1>1, <1>4, <2>1 DEF Reached, Placed, Undoing
<1>5. CASE l = "publish"
  <2>1. Then(l) = "savePublished"
    BY <1>5 DEF Then
  <2>2. c.kind = "Publish"
    BY <1>1, <1>5 DEF Awaits, IsPublish
  <2>3. Src'.state = "Retiring" /\ \A k \in Keys : Kid(k)'.state = "Active"
    BY <1>1, <2>2, PublishChanges
  <2>4. Reached("savePublished")'
    BY <2>3 DEF Reached, Up
  <2> QED BY <1>1, <1>5, <2>1, <2>4 DEF Placed, Undoing
<1>6. CASE l = "retire"
  <2>1. Then(l) = "drop"
    BY <1>6 DEF Then
  <2>2. c.kind = "Set" /\ c.tablet = Source /\ c.desc.state = "Retired"
    BY <1>1, <1>6 DEF Awaits, IsRetire, OnSource
  <2>3. Src'.state = "Retired"
    BY <2>2, SetChanges DEF Src
  <2>4. Reached("drop")'
    BY <2>3 DEF Reached
  <2> QED BY <1>1, <1>6, <2>1, <2>4 DEF Placed, Undoing
<1>7. CASE l = "drop"
  <2>1. Then(l) = "teardown"
    BY <1>7 DEF Then
  <2>2. c.kind = "Remove" /\ c.tablet = Source
    BY <1>1, <1>7 DEF Awaits, IsDrop
  <2>3. Src' = NoDesc
    BY <2>2, RemoveChanges DEF Src
  <2>4. Reached("teardown")'
    BY <2>3 DEF Reached
  <2> QED BY <1>1, <1>7, <2>1, <2>4 DEF Placed, Undoing
<1>8. CASE l = "removeL"
  <2>1. Then(l) = "removeU"
    BY <1>8 DEF Then
  <2>2. c.kind = "Remove" /\ c.tablet = Child(splits, Lower)
    BY <1>1, <1>8 DEF Awaits, IsUncreate
  <2>3. Kid(Lower)' = NoDesc
    BY <1>1, <2>2, RemoveChanges DEF Kid
  <2>4. Reached("removeU")'
    BY <2>3 DEF Reached
  <2> QED BY <1>1, <1>8, <2>1, <2>4 DEF Placed, Undoing
<1>9. CASE l = "removeU"
  <2>1. Then(l) = "restore"
    BY <1>9 DEF Then
  <2>2. c.kind = "Remove" /\ c.tablet = Child(splits, Upper)
    BY <1>1, <1>9 DEF Awaits, IsUncreate
  <2>3. Kid(Upper)' = NoDesc
    BY <1>1, <2>2, RemoveChanges DEF Kid
  <2>4. Kid(Lower)' = Kid(Lower)
    <3>1. /\ Child(splits, Lower) \in Tablets /\ Child(splits, Lower)[2] = Lower
          /\ Child(splits, Upper)[2] = Upper
      BY <1>1, TabletFacts, KeyFacts
    <3>2. Child(splits, Lower) # c.tablet
      BY <2>2, <3>1, KeyFacts
    <3> QED BY <1>1, <2>2, <3>1, <3>2, RemoveChanges DEF Kid
  <2>5. Reached("restore")'
    BY <1>1, <1>9, <2>3, <2>4 DEF Reached
  <2> QED BY <1>1, <1>9, <2>1, <2>5 DEF Placed, Undoing
<1>10. CASE l = "restore"
  <2>1. Then(l) = "wipe"
    BY <1>10 DEF Then
  <2>2. c.kind = "Set" /\ c.tablet = Source /\ c.desc.state = "Active"
    BY <1>1, <1>10 DEF Awaits, IsRestore, OnSource
  <2>3. Src'.state = "Active"
    BY <2>2, SetChanges DEF Src
  <2>4. \A k \in Keys : Kid(k)' = Kid(k)
    <3>1. \A k \in Keys : Child(splits, k) \in Tablets /\ Child(splits, k) # Source
      BY <1>1, TabletFacts
    <3>2. meta' = meta \/ \A s \in Tablets : s # Source => meta'[s] = meta[s]
      BY <2>2, SetChanges
    <3> QED BY <1>1, <3>1, <3>2 DEF Kid
  <2>5. Reached("wipe")'
    BY <1>1, <1>10, <2>3, <2>4, KeyFacts DEF Reached, Up
  <2> QED BY <1>1, <1>10, <2>1, <2>5 DEF Placed, Undoing
<1> QED BY <1>1, <1>2, <1>3, <1>4, <1>5, <1>6, <1>7, <1>8, <1>9, <1>10 DEF Awaits

\* The command applied is the first of the queue; the others keep their order.
LEMMA HeadApplies ==
  ASSUME IInv, ApplyMeta, NEW l \in Labels, At(l), Local(l), NEW c, c = Head(queue)
  PROVE  /\ Applying(l, c) /\ Changes(c)
         /\ DropsLast' /\ queue' \in Seq(Commands)
         /\ Awaited => queue' = <<>>
         /\ ~Awaited /\ waiting => /\ queue' # <<>>
                                   /\ queue'[Len(queue')] = queue[Len(queue)]
<1>1. /\ MetaTypes /\ ControlTypes /\ DataTypes
      /\ Queued /\ DropsLast /\ Owned /\ Progress /\ Clean /\ Served
  BY DEF IInv, Global, Types
<1>2. queue # <<>> /\ queue' = Tail(queue) /\ queue \in Seq(Commands) /\ stray \in BOOLEAN
  BY <1>1 DEF ApplyMeta, ControlTypes
<1>3. PICK q, p : q \in Seq(Commands) /\ q = queue /\ p = queue'
  BY <1>2
<1>4. /\ p \in Seq(Commands) /\ Len(p) = Len(q) - 1
      /\ c \in Commands /\ c \in Range(q) /\ c = q[1]
      /\ \A d \in Range(p) : d \in Range(q)
      /\ DOMAIN p = 1..(Len(q) - 1) /\ DOMAIN q = 1..Len(q) /\ Len(q) \in Nat \ {0}
      /\ \A i \in 1..(Len(q) - 1) : p[i] = q[i + 1]
      /\ Len(q) = 1 => p = <<>> /\ c = q[Len(q)]
  <2>1. Follows(q, p)
    BY <1>2, <1>3, Applied
  <2> QED BY <1>3, <2>1 DEF Follows
<1>5. \A d \in Range(p) : d \in Commands /\ (IsDrop(c) => IsDrop(d))
  <2>1. ASSUME NEW d \in Range(p) PROVE d \in Commands /\ (IsDrop(c) => IsDrop(d))
    <3>1. PICK i \in 1..(Len(q) - 1) : d = q[i + 1]
      BY <1>4 DEF Range
    <3>2. i + 1 \in DOMAIN q /\ 1 \in DOMAIN q /\ 1 < i + 1
      BY <1>4
    <3>3. q[i + 1] \in Commands
      BY <1>3, <3>2
    <3>4. IsDrop(q[1]) => IsDrop(q[i + 1])
      BY <1>1, <1>3, <3>2 DEF DropsLast
    <3> QED BY <1>4, <3>1, <3>3, <3>4
  <2> QED BY <2>1
<1>6. DropsLast'
  <2>1. ASSUME NEW i \in DOMAIN p, NEW j \in DOMAIN p, i < j, IsDrop(p[i])
        PROVE  IsDrop(p[j])
    <3>1. /\ i + 1 \in DOMAIN q /\ j + 1 \in DOMAIN q /\ i + 1 < j + 1
          /\ p[i] = q[i + 1] /\ p[j] = q[j + 1]
      BY <1>4, <2>1
    <3> QED BY <1>1, <1>3, <2>1, <3>1 DEF DropsLast
  <2> QED BY <1>3, <2>1 DEF DropsLast
<1>7. Awaited => Len(q) = 1 /\ waiting
  BY <1>3 DEF Awaited
<1>8. ~Awaited /\ waiting => Len(q) # 1
  BY <1>3 DEF Awaited
<1>9. Len(q) # 1 => p # <<>> /\ p[Len(p)] = q[Len(q)]
  <2>1. ASSUME Len(q) # 1 PROVE p # <<>> /\ p[Len(p)] = q[Len(q)]
    <3>1. PICK n : n = Len(q)
      OBVIOUS
    <3>2. n \in Nat /\ n >= 2
      BY <1>4, <2>1, <3>1
    <3>3. Len(p) = n - 1
      BY <1>4, <3>1
    <3>4. n - 1 \in 1..(n - 1) /\ (n - 1) + 1 = n
      BY <3>2
    <3>5. p[n - 1] = q[n]
      BY <1>4, <3>1, <3>4
    <3> QED BY <3>1, <3>2, <3>3, <3>5
  <2> QED BY <2>1
<1>10. Awaited => Awaits(l, c)
  <2>1. waiting => Awaits(l, q[Len(q)])
    BY <1>3 DEF Local, Waits
  <2> QED BY <1>4, <1>7, <2>1
<1>11. /\ UNCHANGED <<record, pin, log, applied, rows, truth, splits, gone, readAt, aborted>>
       /\ Changes(c)
       /\ stray' = \/ stray
                   \/ /\ ~Awaited
                      /\ meta' # meta
                      /\ \/ c.attempt # record.attempt
                         \/ c.attempt \in aborted
  BY DEF ApplyMeta, Changes, data
<1>12. ~stray' => /\ ~stray
                  /\ Awaited \/ meta' = meta \/ (Own(c) /\ c.attempt \notin aborted)
  BY <1>11 DEF Own
<1>13. CommandOK(c)
  BY <1>1, <1>3, <1>4 DEF Queued
<1>14. Applying(l, c)
  BY <1>1, <1>2, <1>3, <1>4, <1>5, <1>10, <1>11, <1>12, <1>13 DEF Applying
<1> QED BY <1>3, <1>4, <1>6, <1>7, <1>8, <1>9, <1>11, <1>14

\* The meta group applies the first command of the queue.
LEMMA ApplyMetaIInv ==
  ASSUME IInv, ApplyMeta PROVE IInv'
<1>1. PICK l \in Labels : At(l) /\ Local(l)
  BY DEF IInv
<1>2. PICK c : c = Head(queue)
  OBVIOUS
<1>3. /\ Applying(l, c) /\ Changes(c) /\ DropsLast' /\ queue' \in Seq(Commands)
      /\ Awaited => queue' = <<>>
      /\ ~Awaited /\ waiting => /\ queue' # <<>>
                                /\ queue'[Len(queue')] = queue[Len(queue)]
  BY <1>1, <1>2, HeadApplies
<1>4. /\ MetaTypes /\ ControlTypes /\ DataTypes
      /\ Placed(l) /\ Waits(l) /\ Pinned(l) /\ Copied(l)
  BY <1>1 DEF IInv, Global, Types, Local
<1>5. Settles(l)
  BY <1>3, <1>4, ChangesSettle
<1>6. /\ UNCHANGED <<record, pin, log, applied, rows, truth, splits, gone, readAt, aborted>>
      /\ ~Awaited => todo' = todo /\ waiting' = waiting
      /\ Awaited /\ Accepts(c) => todo' = Tail(todo) /\ waiting' = FALSE
      /\ Awaited /\ ~Accepts(c) => todo' = <<>> /\ waiting' = FALSE
      /\ stray' \in BOOLEAN
  BY <1>2, <1>4 DEF ApplyMeta, driver, data, Fail, ControlTypes
<1>7. Types'
  <2>1. undone' \subseteq Keys
    <3>1. undone' = undone \/ (c.kind = "Remove" /\ undone' = undone \cup {c.tablet[2]}
                               /\ meta[c.tablet].state = "Active")
      BY <1>3 DEF Changes
    <3>2. c.kind = "Remove" => IsDrop(c) \/ IsUncreate(c)
      BY <1>3 DEF Applying, CommandOK, MarkOK, RestoreOK, RetireOK, DropOK, CreateOK, PublishOK,
                  IsMark, IsRestore, IsRetire, IsCreate, IsPublish, OnSource
    <3>3. IsDrop(c) => Src.state # "Active" /\ c.tablet = Source
      <4>1. IsDrop(c) => DropOK(c)
        BY <1>3, KindFacts DEF Applying
      <4> QED BY <4>1 DEF DropOK, IsDrop
    <3>4. IsUncreate(c) => c.tablet[2] \in Keys
      BY <1>3, ApplyingFacts, TabletFacts DEF IsUncreate, OnChild
    <3> QED BY <1>4, <3>1, <3>2, <3>3, <3>4 DEF ControlTypes, Src
  <2>2. waiting' \in BOOLEAN
    BY <1>4, <1>6 DEF ControlTypes
  <2>3. ControlTypes'
    BY <1>3, <1>4, <1>6, <2>1, <2>2 DEF ControlTypes
  <2>4. DataTypes'
    BY <1>4, <1>6 DEF DataTypes
  <2> QED BY <1>5, <2>3, <2>4 DEF Types, Settles
<1>8. Global'
  BY <1>3, <1>5, <1>7 DEF Global, Settles
<1>9. ASSUME NEW m, m \notin {"savePinned", "apply", "saveCaughtUp"} PROVE Pinned(m)'
  BY <1>4, <1>6, <1>9 DEF Pinned, Recorded
<1>10. ASSUME NEW k \in Keys
       PROVE  /\ KidRow(k)' = KidRow(k) /\ Built(k)' = Built(k) /\ CaughtUp(k)' = CaughtUp(k)
              /\ Pending' = Pending => CatchingUp(k)' = CatchingUp(k)
  BY <1>6 DEF KidRow, Built, CaughtUp, CatchingUp
<1>11. record.phase \in {"ChildrenBuilt", "CaughtUp"} =>
         \A k \in Keys : /\ Kid(k)' # NoDesc => Kid(k) # NoDesc
                         /\ Kid(k)'.state = "Creating" => Kid(k).state = "Creating"
  BY <1>5 DEF Settles
<1>12. ASSUME NEW m, m \notin {"installU", "saveBuilt", "apply", "saveCaughtUp"}
       PROVE  Copied(m)'
  <2>1. ASSUME NEW k \in Keys
        PROVE  /\ record.phase = "ChildrenBuilt" /\ Kid(k)' # NoDesc => Built(k)'
               /\ record.phase = "CaughtUp" /\ Kid(k)'.state = "Creating" => CaughtUp(k)'
    BY <1>4, <1>10, <1>11 DEF Copied
  <2> QED BY <1>6, <1>12, <2>1 DEF Copied
<1>13. CASE ~Awaited
  <2>1. At(l)' /\ Pending' = Pending
    BY <1>1, <1>6, <1>13, Moves
  <2>2. Placed(l)' /\ Pinned(l)' /\ Reached(l)'
    BY <1>4, <1>5, <1>6, <1>13 DEF Placed, Pinned, Recorded, Settles
  <2>3. Waits(l)'
    <3>1. ASSUME NEW d PROVE Awaits(l, d)' = Awaits(l, d)
      BY <1>6 DEF Awaits, Own
    <3>2. queue # <<>>
      BY DEF ApplyMeta
    <3> QED BY <1>3, <1>4, <1>6, <1>13, <3>1, <3>2 DEF Waits
  <2>4. Copied(l)'
    <3>1. ASSUME NEW k \in Keys
          PROVE  /\ record.phase = "ChildrenBuilt" /\ Kid(k)' # NoDesc => Built(k)'
                 /\ l = "apply" /\ Kid(k)' # NoDesc => CatchingUp(k)'
                 /\ /\ l = "saveCaughtUp" \/ record.phase = "CaughtUp"
                    /\ Kid(k)'.state = "Creating"
                    => CaughtUp(k)'
      <4>1. l \in {"apply", "saveCaughtUp"} => record.phase = "ChildrenBuilt"
        BY <1>4 DEF Placed
      <4>2. /\ record.phase = "ChildrenBuilt" /\ Kid(k) # NoDesc => Built(k)
            /\ l = "apply" /\ Kid(k) # NoDesc => CatchingUp(k)
            /\ /\ l = "saveCaughtUp" \/ record.phase = "CaughtUp"
               /\ Kid(k).state = "Creating"
               => CaughtUp(k)
        BY <1>4 DEF Copied
      <4> QED BY <1>10, <1>11, <2>1, <4>1, <4>2
    <3>2. /\ l \in {"installU", "saveBuilt"} => KidRow(Lower) = Row(log, pin.at, Lower)
          /\ l = "saveBuilt" => KidRow(Upper) = Row(log, pin.at, Upper)
          /\ l = "apply" => \A k \in DOMAIN Pending : k \in Keys /\ Pending[k] \in Values
      BY <1>4 DEF Copied
    <3>3. KidRow(Lower)' = KidRow(Lower) /\ KidRow(Upper)' = KidRow(Upper)
      BY <1>10, KeyFacts
    <3> QED BY <1>6, <2>1, <3>1, <3>2, <3>3 DEF Copied
  <2> QED BY <1>8, <2>1, <2>2, <2>3, <2>4 DEF IInv, Local
<1>14. CASE Awaited /\ Accepts(c)
  <2>1. PICK m : m = Then(l)
    OBVIOUS
  <2>2. /\ Reached(m)' /\ Placed(m)' /\ l # "idle"
        /\ m \notin {"savePinned", "installU", "saveBuilt", "apply", "saveCaughtUp"}
    BY <1>3, <1>14, <2>1, PassedReaches
  <2>3. m \in Labels /\ At(m)'
    BY <1>1, <1>6, <1>14, <2>1, <2>2, Moves, CodeFacts
  <2>4. Waits(m)'
    BY <1>3, <1>6, <1>14 DEF Waits
  <2> QED BY <1>8, <1>9, <1>12, <2>2, <2>3, <2>4 DEF IInv, Local
<1>15. CASE Awaited /\ ~Accepts(c)
  <2>1. "idle" \in Labels /\ At("idle")'
    BY <1>1, <1>6, <1>15, Moves DEF Labels
  <2>2. Placed("idle")' /\ Waits("idle")' /\ Reached("idle")'
    BY <1>6, <1>15 DEF Placed, Waits, Reached, Undoing
  <2>3. Pinned("idle")' /\ Copied("idle")'
    BY <1>9, <1>12
  <2> QED BY <1>8, <2>1, <2>2, <2>3 DEF IInv, Local
<1> QED BY <1>13, <1>14, <1>15

(***************************************************************************)
(* The invariant, and the properties.                                      *)
(***************************************************************************)
\* Every step keeps the invariant.
LEMMA NextIInv ==
  ASSUME IInv, SourceTypes, [Next]_vars PROVE IInv'
<1>1. CASE Execute
  BY <1>1, SaveIInv, MarkIInv, CreateIInv, PinIInv, InstallIInv, ReadIInv, ApplyDeltaIInv,
     PublishIInv, UnpinIInv, RetireIInv, DropIInv, TeardownIInv, RemoveChildIInv,
     RestoreIInv, WipeIInv, ForgetIInv DEF Execute
<1>2. CASE Restart \/ UNCHANGED vars
  <2>1. PICK l \in Labels : At(l) /\ Local(l)
    BY DEF IInv
  <2>2. UNCHANGED <<meta, queue, record, pin, log, applied, rows, todo, waiting, splits,
                    gone, truth, readAt, aborted, undone, stray>>
    BY <1>2 DEF Restart, data, driver, history, vars
  <2>3. Global /\ Queued /\ DropsLast /\ queue \in Seq(Commands) /\ waiting \in BOOLEAN
    BY DEF IInv, Global, Types, ControlTypes
  <2>4. At(l)' /\ Pending' = Pending
    BY <2>1, <2>2, Moves
  <2>5. Queued' /\ DropsLast'
    BY <2>2, <2>3, QueuedKept DEF DropsLast
  <2>6. Placed(l)' /\ Waits(l)'
    BY <2>1, <2>2 DEF Local, Placed, Waits, Awaits, Own
  <2> QED BY <2>1, <2>2, <2>3, <2>4, <2>5, <2>6, Walk DEF Local
<1> QED BY <1>1, <1>2, BeginIInv, ResumeIInv, AbortIInv, ApplyMetaIInv, StopIInv,
           StopInPinIInv, LoseIInv, WriteSourceIInv, ReplicaIInv, WriteChildIInv DEF Next

\* The inductive invariant of a split: where the driver is, what the queue of
\* the meta group may still do, who serves and what the children hold
\* (split.rs, runtime.rs, meta.rs).
THEOREM SplitInvariant == Spec => []IInv
  BY InitIInv, NextIInv, SourceInvariant, PTL DEF Spec

\* The tablets that serve a key: the source or the last split's child.
LEMMA OwnerFacts ==
  ASSUME IInv, NEW k \in Keys
  PROVE  /\ Owners(k) \subseteq {Source} \/ Owners(k) \subseteq {Child(splits, k)}
         /\ Src.state \in Up => Source \in Owners(k)
         /\ \A t \in Owners(k) :
              \/ t = Source /\ Src.state \in Up
              \/ t # Source /\ t \in Children /\ t[2] = k /\ meta[t].state = "Active"
         /\ splits \in Attempts /\ Kid(k).state = "Active" => Child(splits, k) \in Owners(k)
<1>1. MetaTypes /\ ControlTypes /\ Owned
  BY DEF IInv, Global, Types
<1>2. \A t : t \in Owners(k) <=> /\ t = Source \/ \E a \in Attempts : t = Child(a, k)
                                 /\ meta[t].state \in {"Active", "Splitting"}
  BY DEF Owners, Routable
<1>3. ASSUME NEW t \in Owners(k)
      PROVE  \/ t = Source /\ Src.state \in Up
             \/ /\ t # Source /\ t \in Children /\ t[2] = k /\ meta[t].state = "Active"
                /\ t = Child(splits, k) /\ Src.state \notin Up
  <2>1. CASE t = Source
    BY <1>2, <1>3, <2>1 DEF Src, Up
  <2>2. ASSUME NEW a \in Attempts, t = Child(a, k)
        PROVE  /\ t # Source /\ t \in Children /\ t[2] = k /\ meta[t].state = "Active"
               /\ t = Child(splits, k) /\ Src.state \notin Up
    <3>1. t # Source /\ t \in Children /\ t[1] = a /\ t[2] = k
      BY <2>2, TabletFacts
    <3>2. meta[t].state = "Active"
      BY <1>1, <1>2, <1>3, <3>1 DEF MetaTypes
    <3>3. a = splits /\ Src.state \notin Up
      BY <1>1, <3>1, <3>2 DEF Owned
    <3> QED BY <2>2, <3>1, <3>2, <3>3
  <2> QED BY <1>2, <1>3, <2>1, <2>2
<1>4. Owners(k) \subseteq {Source} \/ Owners(k) \subseteq {Child(splits, k)}
  BY <1>3
<1> QED BY <1>2, <1>3, <1>4 DEF Src, Up, Kid

\* Two tablets never serve one key, and one always does, unless an abort
\* removed children whose publication its record does not show (split.rs:
\* publish_children, abort_split; meta.rs: apply_split_publish).
THEOREM OneOwnerAlways == Spec => []OneOwner
<1>1. ASSUME IInv PROVE OneOwner
  <2>1. ASSUME NEW k \in Keys
        PROVE  Cardinality(Owners(k)) <= 1 /\ (k \notin undone => Owners(k) # {})
    <3>1. PICK S, t : S = Owners(k) /\ S \subseteq {t}
      BY <1>1, OwnerFacts
    <3>2. S = {} \/ S = {t}
      BY <3>1
    <3>3. Cardinality(S) <= 1
      <4>1. Cardinality({}) = 0 /\ Cardinality({t}) = 1
        BY FS_EmptySet, FS_Singleton
      <4>2. S = {} => Cardinality(S) = 0
        BY <4>1
      <4>3. S = {t} => Cardinality(S) = 1
        BY <4>1
      <4> QED BY <3>2, <4>2, <4>3
    <3>4. ASSUME k \notin undone PROVE S # {}
      <4>1. CASE Src.state \in Up
        BY <1>1, <3>1, <4>1, OwnerFacts
      <4>2. CASE Src.state \notin Up
        <5>1. Kid(k).state = "Active"
          BY <1>1, <3>4, <4>2 DEF IInv, Global, Owned
        <5>2. ControlTypes /\ (gone \/ record # NoRecord)
          BY <1>1, <4>2, RecordFacts DEF IInv, Global, Types, Progress
        <5>3. splits \in Attempts
          BY <5>2, RecordFacts DEF ControlTypes
        <5> QED BY <1>1, <3>1, <5>1, <5>3, OwnerFacts
      <4> QED BY <4>1, <4>2
    <3> QED BY <3>1, <3>3, <3>4
  <2> QED BY <2>1 DEF OneOwner
<1> QED BY <1>1, SplitInvariant, PTL

\* The owner of a key holds its last acknowledged write, but for the writes
\* the catch-up did not see (split.rs: build_children, catch_up_children).
THEOREM MovedWholeAlways == Spec => []MovedWhole
<1>1. ASSUME IInv PROVE MovedWhole
  <2>1. ASSUME NEW k \in Keys, NEW t \in Owners(k)
        PROVE  (t # Source /\ Late(k)) \/ Holds(t, k) = truth[k]
    <3>1. Served
      BY <1>1 DEF IInv, Global
    <3>2. CASE t = Source
      <4>1. Src.state \in Up
        BY <1>1, <2>1, <3>2, OwnerFacts
      <4>2. Row(log, Len(log), k) = truth[k]
        BY <3>1, <4>1 DEF Served
      <4> QED BY <3>2, <4>2, RowsAtFacts DEF Holds
    <3>3. CASE t # Source
      <4>1. t \in Children /\ t[2] = k /\ meta[t].state = "Active"
        BY <1>1, <2>1, <3>3, OwnerFacts
      <4>2. LateIn(log, readAt, k) \/ rows[t] = truth[k]
        BY <3>1, <4>1 DEF Served
      <4> QED BY <3>3, <4>2, RowsAtFacts DEF Holds
    <3> QED BY <3>2, <3>3
  <2> QED BY <2>1 DEF MovedWhole
<1> QED BY <1>1, SplitInvariant, PTL

\* A split without a record left the source alone and Active, or torn down
\* with both children Active, unless a meta command was applied after its
\* driver gave up (split.rs: abort_split removes the record last;
\* remove_source).
THEOREM NoLeftoversAlways == Spec => []NoLeftovers
<1>1. ASSUME IInv PROVE NoLeftovers
  <2>1. ASSUME record = NoRecord, ~stray
        PROVE  \/ /\ meta[Source].state = "Active"
                  /\ \A t \in Children : meta[t] = NoDesc
               \/ /\ gone /\ meta[Source] = NoDesc
                  /\ \A t \in Children :
                       meta[t].state = (IF t[1] = splits THEN "Active" ELSE "absent")
    <3>1. ControlTypes /\ Progress /\ Clean
      BY <1>1 DEF IInv, Global, Types
    <3>2. CASE ~gone
      BY <2>1, <3>1, <3>2 DEF Clean, Recorded, Src
    <3>3. CASE gone
      <4>1. Src = NoDesc /\ \A k \in Keys : Kid(k).state = "Active"
        BY <3>1, <3>3 DEF Progress
      <4>2. \A t \in Children : t[1] # splits => meta[t] = NoDesc
        BY <2>1, <3>1 DEF Clean
      <4>3. ASSUME NEW t \in Children
            PROVE  meta[t].state = (IF t[1] = splits THEN "Active" ELSE "absent")
        <5>1. t[2] \in Keys /\ t = Child(t[1], t[2])
          BY TabletFacts
        <5>2. t[1] = splits => meta[t] = Kid(t[2])
          BY <5>1 DEF Kid
        <5>3. NoDesc.state = "absent"
          BY DEF NoDesc
        <5> QED BY <4>1, <4>2, <5>1, <5>2, <5>3
      <4> QED BY <3>3, <4>1, <4>3 DEF Src
    <3> QED BY <3>2, <3>3
  <2> QED BY <2>1 DEF NoLeftovers
<1> QED BY <1>1, SplitInvariant, PTL

(***************************************************************************)
(* The type invariant: how far generations go.                             *)
(***************************************************************************)
\* A split raises the source's generation by at most two before the next one
\* may begin, and by one more when the source is retired.
Limit(s, n) == IF s \in {"Splitting", "Creating"} THEN 2 * n
               ELSE IF s = "Retired" THEN 2 * n + 2 ELSE 2 * n + 1

\* A descriptor written by one of the first n splits.
Fits(d, n) == d.gen \in 1..Limit(d.state, n)

\* Generations, in the meta state, on their way to it and in the record, and
\* the counters.
Counted ==
    /\ \A t \in Tablets : meta[t] = NoDesc \/ Fits(meta[t], splits)
    /\ \A c \in Range(queue) : c.kind # "Remove" => Fits(c.desc, splits)
    /\ record # NoRecord => record.gen \in 1..(2 * splits - 1)
    /\ pin \in [attempt : Attempts, at : Nat] \cup {NoPin}
    /\ stops \in 0..MaxStops
    /\ aborted \subseteq Attempts
    /\ Len(log) <= MaxWrites

\* What fits n splits fits one more.
LEMMA FitsMore ==
  ASSUME NEW d, NEW n \in Nat, Fits(d, n)
  PROVE  Fits(d, n + 1)
  BY DEF Fits, Limit

\* A step that writes no descriptor and proposes nothing.
LEMMA CountedKept ==
  ASSUME Counted, UNCHANGED <<meta, splits>>,
         \A c \in Range(queue') : c \in Range(queue),
         record' # NoRecord => record # NoRecord /\ record'.gen = record.gen,
         pin' \in [attempt : Attempts, at : Nat] \cup {NoPin},
         stops' \in 0..MaxStops, aborted' \subseteq Attempts, Len(log') <= MaxWrites
  PROVE  Counted'
<1>1. \A t \in Tablets : meta'[t] = NoDesc \/ Fits(meta'[t], splits')
  BY DEF Counted
<1>2. \A c \in Range(queue') : c.kind # "Remove" => Fits(c.desc, splits')
  BY DEF Counted
<1>3. record' # NoRecord => record'.gen \in 1..(2 * splits' - 1)
  BY DEF Counted
<1> QED BY <1>1, <1>2, <1>3 DEF Counted

\* A command that fits joins the queue.
LEMMA CountedProposed ==
  ASSUME IInv, Counted, NEW c \in Commands, Propose(c),
         UNCHANGED <<meta, record, pin, log, splits, stops, aborted>>,
         c.kind # "Remove" => Fits(c.desc, splits)
  PROVE  Counted'
<1>1. queue \in Seq(Commands) /\ queue' = Append(queue, c)
  BY DEF IInv, Global, Types, ControlTypes, Propose
<1>2. \A d \in Range(queue') : d \in Range(queue) \/ d = c
  <2>1. Extends(queue, c, queue')
    BY <1>1, Appended
  <2> QED BY <2>1 DEF Extends
<1>3. \A d \in Range(queue') : d.kind # "Remove" => Fits(d.desc, splits')
  BY <1>2 DEF Counted
<1> QED BY <1>3 DEF Counted

\* The driver's instructions that propose nothing, and those that may pass
\* without a proposal.
LEMMA CountedExecutes ==
  ASSUME IInv, Counted, ExecutesPlan, queue' = queue,
         record' = record \/ record' = NoRecord,
         pin' = pin \/ pin' = NoPin
  PROVE  Counted'
<1>1. UNCHANGED <<meta, log, splits, stops, aborted>>
  BY DEF ExecutesPlan
<1>2. /\ pin' \in [attempt : Attempts, at : Nat] \cup {NoPin}
      /\ stops' \in 0..MaxStops /\ aborted' \subseteq Attempts /\ Len(log') <= MaxWrites
  BY <1>1 DEF Counted
<1>3. record' # NoRecord => record # NoRecord /\ record'.gen = record.gen
  OBVIOUS
<1>4. \A c \in Range(queue') : c \in Range(queue)
  OBVIOUS
<1> QED BY <1>1, <1>2, <1>3, <1>4, CountedKept

\* A new split starts from the source's generation.
LEMMA CountedBegin ==
  ASSUME IInv, Counted, BeginSplit PROVE Counted'
<1>1. /\ splits \in Nat /\ splits' = splits + 1
      /\ meta' = meta /\ queue' = queue /\ pin' = pin /\ stops' = stops
      /\ aborted' = aborted /\ log' = log
      /\ record'.gen = Src.gen /\ Src.state = "Active"
  BY RecordFacts DEF BeginSplit, IInv, Global, Types, data, Src
<1>2. \A t \in Tablets : meta'[t] = NoDesc \/ Fits(meta'[t], splits')
  BY <1>1, FitsMore DEF Counted
<1>3. \A c \in Range(queue') : c.kind # "Remove" => Fits(c.desc, splits')
  BY <1>1, FitsMore DEF Counted
<1>4. record'.gen \in 1..(2 * splits' - 1)
  <2>1. Src # NoDesc
    BY <1>1 DEF NoDesc
  <2>2. Fits(Src, splits)
    BY <2>1, TabletFacts DEF Counted, Src
  <2>3. Src.gen \in 1..(2 * splits + 1)
    BY <1>1, <2>2 DEF Fits, Limit
  <2> QED BY <1>1, <2>3
<1> QED BY <1>1, <1>2, <1>3, <1>4 DEF Counted

\* The instructions that always propose.
LEMMA CountedProposals ==
  ASSUME IInv, Counted, MarkSourceSplitting \/ CreateChild \/ PublishChildren
  PROVE  Counted'
<1>1. PICK l \in Labels : At(l) /\ Local(l)
  BY DEF IInv
<1>2. l \in {"mark", "createL", "createU", "publish"} /\ Arg = Operand(l, Pending)
  BY <1>1, Executing, Places DEF MarkSourceSplitting, CreateChild, PublishChildren
<1>3. record # NoRecord /\ record.attempt = splits /\ splits \in Attempts /\ splits \in Nat \ {0}
  BY <1>1, <1>2, Working
<1>4. record.gen \in 1..(2 * splits - 1)
  BY <1>3 DEF Counted
<1>5. UNCHANGED <<meta, record, pin, log, splits, stops, aborted>>
  BY DEF MarkSourceSplitting, CreateChild, PublishChildren, Executes, ExecutesPlan
<1>6. /\ record.gen + 1 \in Nat /\ record.gen + 2 \in Nat
      /\ {"Splitting", "Creating", "Retiring"} \subseteq States \cup {"absent"}
  BY <1>3, <1>4 DEF States
<1>7. CASE MarkSourceSplitting
  <2>1. PICK c : c = SetTablet(Source, "Splitting", record.gen + 1)
    OBVIOUS
  <2>2. c \in Commands /\ c.desc.state = "Splitting" /\ c.desc.gen = record.gen + 1
    BY <1>3, <1>6, <2>1, TabletFacts, CommandFacts DEF SetTablet
  <2>3. Fits(c.desc, splits)
    BY <1>3, <1>4, <2>2 DEF Fits, Limit
  <2> QED BY <1>5, <1>7, <2>1, <2>2, <2>3, CountedProposed DEF MarkSourceSplitting
<1>8. CASE CreateChild
  <2>1. Arg \in Keys
    <3>1. l \in {"createL", "createU"}
      BY <1>1, <1>8, Executing, Places DEF CreateChild
    <3> QED BY <1>2, <3>1, KeyFacts DEF Operand
  <2>2. PICK t, c : t = Child(record.attempt, Arg) /\ c = SetTablet(t, "Creating", record.gen + 1)
    OBVIOUS
  <2>3. t \in Tablets
    BY <1>3, <2>1, <2>2, TabletFacts
  <2>4. c \in Commands /\ c.desc.state = "Creating" /\ c.desc.gen = record.gen + 1
    BY <1>3, <1>6, <2>2, <2>3, CommandFacts DEF SetTablet
  <2>5. Fits(c.desc, splits)
    BY <1>3, <1>4, <2>4 DEF Fits, Limit
  <2> QED BY <1>5, <1>8, <2>2, <2>4, <2>5, CountedProposed DEF CreateChild
<1>9. CASE PublishChildren
  <2>1. PICK c : c = PublishSplit
    OBVIOUS
  <2>2. c \in Commands /\ c.desc.state = "Retiring" /\ c.desc.gen = record.gen + 2
    BY <1>3, <1>6, <2>1, TabletFacts, CommandFacts DEF PublishSplit
  <2>3. Fits(c.desc, splits)
    BY <1>3, <1>4, <2>2 DEF Fits, Limit
  <2> QED BY <1>5, <1>9, <2>1, <2>2, <2>3, CountedProposed DEF PublishChildren
<1> QED BY <1>7, <1>8, <1>9

\* The instructions that propose unless what they want is there already.
LEMMA CountedChecked ==
  ASSUME IInv, Counted, RetireSource \/ RestoreSource \/ RemoveSource \/ RemoveChild
  PROVE  Counted'
<1>1. PICK l \in Labels : At(l) /\ Local(l)
  BY DEF IInv
<1>2. l \in {"retire", "restore", "drop", "removeL", "removeU"} /\ Arg = Operand(l, Pending)
  BY <1>1, Executing, Places DEF RetireSource, RestoreSource, RemoveSource, RemoveChild
<1>3. /\ record # NoRecord /\ record.attempt = splits /\ splits \in Attempts
      /\ splits \in Nat /\ MetaTypes
  BY <1>1, <1>2, Working
<1>4. ExecutesPlan /\ UNCHANGED <<record, pin>>
  BY DEF RetireSource, RestoreSource, RemoveSource, RemoveChild, Executes
<1>5. UNCHANGED <<meta, record, pin, log, splits, stops, aborted>>
  BY <1>4 DEF ExecutesPlan
<1>6. CASE Skip \/ Refuse
  BY <1>4, <1>6, CountedExecutes DEF Skip, Refuse
<1>7. ASSUME NEW t \in Tablets, Propose(RemoveTablet(t)) PROVE Counted'
  <2>1. PICK c : c = RemoveTablet(t)
    OBVIOUS
  <2>2. c \in Commands /\ c.kind = "Remove"
    <3>1. c = Command("Remove", t, "absent", meta[t].gen) /\ meta[t].gen \in Nat
      BY <1>3, <2>1 DEF RemoveTablet, MetaTypes
    <3> QED BY <1>3, <3>1, CommandFacts
  <2> QED BY <1>5, <1>7, <2>1, <2>2, CountedProposed
<1>8. ASSUME NEW s \in States, Src.gen + 1 \in 1..Limit(s, splits),
             Propose(SetTablet(Source, s, Src.gen + 1))
      PROVE  Counted'
  <2>1. PICK c : c = SetTablet(Source, s, Src.gen + 1)
    OBVIOUS
  <2>2. s \in States \cup {"absent"} /\ Src.gen + 1 \in Nat
    <3>1. Src.gen \in Nat
      BY <1>3, TabletFacts DEF MetaTypes, Src
    <3> QED BY <3>1
  <2>3. c \in Commands /\ c.desc.state = s /\ c.desc.gen = Src.gen + 1
    BY <1>3, <2>1, <2>2, TabletFacts, CommandFacts DEF SetTablet
  <2>4. Fits(c.desc, splits)
    BY <1>8, <2>3 DEF Fits
  <2> QED BY <1>5, <1>8, <2>1, <2>3, <2>4, CountedProposed
<1>9. Src # NoDesc => Src.gen \in 1..Limit(Src.state, splits)
  BY TabletFacts DEF Counted, Fits, Src
<1>10. CASE RetireSource
  <2>1. \/ Skip \/ Refuse
        \/ /\ CanTransition(Src.state, "Retired")
           /\ Propose(SetTablet(Source, "Retired", Src.gen + 1))
    <3>1. CASE Src.state \in {"absent", "Retired"}
      BY <1>10, <3>1 DEF RetireSource, Src, CanTransition
    <3>2. CASE Src.state \notin {"absent", "Retired"}
      BY <1>10, <3>2 DEF RetireSource, Src
    <3> QED BY <3>1, <3>2
  <2>2. ASSUME CanTransition(Src.state, "Retired")
        PROVE  "Retired" \in States /\ Src.gen + 1 \in 1..Limit("Retired", splits)
    <3>1. Src.state = "Retiring" /\ Src # NoDesc
      BY <1>3, <2>2 DEF CanTransition, MetaTypes, NoDesc
    <3> QED BY <1>3, <1>9, <3>1 DEF Limit, States
  <2> QED BY <1>6, <1>8, <2>1, <2>2
<1>11. CASE RestoreSource
  <2>1. \/ Skip \/ Refuse
        \/ /\ CanTransition(Src.state, "Active")
           /\ Propose(SetTablet(Source, "Active", Src.gen + 1))
    <3>1. CASE Src.state = "Active"
      BY <1>11, <3>1 DEF RestoreSource, Src, CanTransition
    <3>2. CASE Src.state # "Active"
      BY <1>11, <3>2 DEF RestoreSource, Src
    <3> QED BY <3>1, <3>2
  <2>2. ASSUME CanTransition(Src.state, "Active")
        PROVE  "Active" \in States /\ Src.gen + 1 \in 1..Limit("Active", splits)
    <3>1. Src.state = "Splitting" /\ Src # NoDesc
      BY <1>3, <2>2 DEF CanTransition, MetaTypes, NoDesc
    <3> QED BY <1>3, <1>9, <3>1 DEF Limit, States
  <2> QED BY <1>6, <1>8, <2>1, <2>2
<1>12. CASE RemoveSource
  BY <1>6, <1>7, <1>12, TabletFacts DEF RemoveSource
<1>13. CASE RemoveChild
  <2>1. Arg \in Keys
    <3>1. l \in {"removeL", "removeU"}
      BY <1>1, <1>13, Executing, Places DEF RemoveChild
    <3> QED BY <1>2, <3>1, KeyFacts DEF Operand
  <2>2. Child(record.attempt, Arg) \in Tablets
    BY <1>3, <2>1, TabletFacts
  <2> QED BY <1>6, <1>7, <1>13, <2>2 DEF RemoveChild
<1> QED BY <1>10, <1>11, <1>12, <1>13

\* The driver saves its phase or pins a snapshot.
LEMMA CountedLocal ==
  ASSUME IInv, SourceTypes, Counted, SaveProgress \/ PinSnapshot
  PROVE  Counted'
<1>1. PICK l \in Labels : At(l) /\ Local(l)
  BY DEF IInv
<1>2. l \notin {"idle", "unpin"}
  BY <1>1, Executing, Places DEF SaveProgress, PinSnapshot
<1>3. /\ record # NoRecord /\ record.attempt \in Attempts
      /\ record \in [attempt : Attempts, gen : Nat, phase : Phases] /\ DataTypes
  <2>1. record # NoRecord /\ ControlTypes /\ DataTypes
    BY <1>1, <1>2, Working
  <2> QED BY <2>1 DEF ControlTypes
<1>4. UNCHANGED <<meta, log, splits, stops, aborted>>
  BY DEF SaveProgress, PinSnapshot, Executes, ExecutesPlan
<1>5. /\ stops' \in 0..MaxStops /\ aborted' \subseteq Attempts /\ Len(log') <= MaxWrites
      /\ pin \in [attempt : Attempts, at : Nat] \cup {NoPin}
  BY <1>4 DEF Counted
<1>6. CASE SaveProgress
  <2>1. record'.gen = record.gen /\ pin' = pin /\ queue' = queue
    BY <1>3, <1>6 DEF SaveProgress
  <2> QED BY <1>3, <1>4, <1>5, <2>1, CountedKept
<1>7. CASE PinSnapshot
  <2>1. /\ record' = record /\ queue' = queue
        /\ pin' = pin \/ \E n \in 0..applied : pin' = [attempt |-> record.attempt, at |-> n]
    BY <1>3, <1>7, EpochReached DEF PinSnapshot, Skip, Refuse
  <2>2. applied \in Nat
    BY <1>3 DEF DataTypes, Logs
  <2>3. pin' \in [attempt : Attempts, at : Nat] \cup {NoPin}
    BY <1>3, <1>5, <2>1, <2>2
  <2> QED BY <1>3, <1>4, <1>5, <2>1, <2>3, CountedKept
<1> QED BY <1>6, <1>7

\* An instruction of the driver.
LEMMA CountedExecute ==
  ASSUME IInv, SourceTypes, Counted, Execute
  PROVE  Counted'
<1>1. CASE InstallStaged \/ ReadDeltas \/ ReleaseSnapshot \/ TeardownSource
           \/ TeardownChildren \/ ForgetSplit
  <2>1. /\ ExecutesPlan /\ queue' = queue
        /\ record' = record \/ record' = NoRecord
        /\ pin' = pin \/ pin' = NoPin
    BY <1>1 DEF InstallStaged, ReadDeltas, ReleaseSnapshot, TeardownSource,
                TeardownChildren, ForgetSplit, Executes, Skip
  <2> QED BY <2>1, CountedExecutes
<1>2. CASE ApplyDelta
  <2>1. ExecutesPlan /\ queue' = queue /\ record' = record /\ pin' = pin
    BY <1>2 DEF ApplyDelta, Executes, Skip
  <2> QED BY <2>1, CountedExecutes
<1> QED BY <1>1, <1>2, CountedProposals, CountedChecked, CountedLocal DEF Execute

\* A command of the meta group writes descriptors that fit.
LEMMA CountedApply ==
  ASSUME IInv, Counted, ApplyMeta
  PROVE  Counted'
<1>1. PICK l \in Labels : At(l) /\ Local(l)
  BY DEF IInv
<1>2. PICK c : c = Head(queue)
  OBVIOUS
<1>3. Applying(l, c) /\ Changes(c)
  BY <1>1, <1>2, HeadApplies
<1>4. /\ c \in Range(queue) /\ (c.kind # "Remove" => Fits(c.desc, splits))
      /\ c.kind \in {"Set", "Remove", "Publish"} /\ splits \in Nat
      /\ UNCHANGED <<record, pin, log, splits, aborted>>
      /\ \A d \in Range(queue') : d \in Range(queue)
  BY <1>3, ApplyingFacts DEF Applying, Counted, Commands
<1>5. ASSUME NEW t \in Tablets PROVE meta'[t] = NoDesc \/ Fits(meta'[t], splits)
  <2>1. meta[t] = NoDesc \/ Fits(meta[t], splits)
    BY DEF Counted
  <2>2. CASE c.kind = "Set"
    <3>1. meta' = meta \/ (Accepts(c) /\ meta'[c.tablet] = c.desc
                           /\ \A s \in Tablets : s # c.tablet => meta'[s] = meta[s])
      BY <1>3, <2>2, SetChanges DEF Changes
    <3> QED BY <1>4, <2>1, <2>2, <3>1
  <2>3. CASE c.kind = "Remove"
    BY <1>3, <2>1, <2>3, RemoveChanges
  <2>4. CASE c.kind = "Publish"
    <3>1. CASE meta' = meta
      BY <2>1, <3>1
    <3>2. CASE meta' = Publication(c.attempt, c.desc.gen)
      <4>1. \/ meta'[t] = meta[t]
            \/ meta'[t] = [state |-> "Retiring", gen |-> c.desc.gen]
            \/ meta'[t] = [state |-> "Active", gen |-> c.desc.gen]
        <5>1. Source \notin {Child(c.attempt, k) : k \in Keys}
          BY <1>3, ApplyingFacts, TabletFacts
        <5> QED BY <3>2, <5>1 DEF Publication
      <4>2. c.desc.gen \in 1..(2 * splits + 1)
        <5>1. c.desc.gen \in 1..Limit(c.desc.state, splits)
          BY <1>4, <2>4 DEF Fits
        <5>2. c.desc.gen \in Nat
          BY <1>3, ApplyingFacts
        <5>3. c.desc.state # "Retired"
          <6>1. IsPublish(c)
            BY <1>3, <2>4 DEF Applying, CommandOK, MarkOK, RestoreOK, RetireOK, DropOK,
                   CreateOK, PublishOK, IsMark, IsRestore, IsRetire, IsDrop, IsCreate,
                   IsUncreate, OnSource
          <6> QED BY <6>1 DEF IsPublish
        <5> QED BY <1>4, <5>1, <5>2, <5>3 DEF Limit
      <4>3. \/ meta'[t] = meta[t]
            \/ meta'[t].gen = c.desc.gen /\ meta'[t].state \in {"Active", "Retiring"}
        BY <4>1
      <4>4. meta'[t].gen = c.desc.gen /\ meta'[t].state \in {"Active", "Retiring"}
              => Fits(meta'[t], splits)
        BY <4>2 DEF Fits, Limit
      <4> QED BY <2>1, <4>3, <4>4
    <3> QED BY <1>3, <2>4, <3>1, <3>2 DEF Changes, Result
  <2> QED BY <1>4, <2>2, <2>3, <2>4
<1>6. stops' = stops
  BY DEF ApplyMeta
<1>7. \A d \in Range(queue') : d.kind # "Remove" => Fits(d.desc, splits')
  BY <1>4 DEF Counted
<1> QED BY <1>4, <1>5, <1>6, <1>7 DEF Counted

\* Every step keeps the counts.
LEMMA NextCounted ==
  ASSUME IInv, SourceTypes, Counted, [Next]_vars PROVE Counted'
<1>1. /\ record # NoRecord => record.attempt \in Attempts
      /\ queue \in Seq(Commands) /\ log \in Logs /\ applied \in Nat
  <2>1. ControlTypes /\ DataTypes
    BY DEF IInv, Global, Types
  <2> QED BY <2>1, RecordFacts DEF ControlTypes, DataTypes, Logs
<1>2. /\ pin \in [attempt : Attempts, at : Nat] \cup {NoPin}
      /\ stops \in 0..MaxStops /\ aborted \subseteq Attempts /\ Len(log) <= MaxWrites
  BY DEF Counted
<1>3. CASE ResumeSplit \/ AbortSplit \/ ReplicaApplies \/ WriteChild
  <2>1. /\ UNCHANGED <<meta, splits, queue, record, pin, log, stops>>
        /\ aborted' = aborted \/ (record # NoRecord /\ aborted' = aborted \cup {record.attempt})
    BY <1>3 DEF ResumeSplit, AbortSplit, ReplicaApplies, WriteChild, data, history
  <2>2. aborted' \subseteq Attempts
    BY <1>1, <1>2, <2>1
  <2> QED BY <1>2, <2>1, <2>2, CountedKept
<1>4. CASE Stop
  <2>1. UNCHANGED <<meta, splits, queue, record, pin, log, aborted>>
    BY <1>4 DEF Stop, data, history
  <2>2. stops' \in 0..MaxStops
    BY <1>2, <1>4, TabletSplitAssumption DEF Stop
  <2> QED BY <1>2, <2>1, <2>2, CountedKept
<1>5. CASE StopInPin
  <2>1. /\ UNCHANGED <<meta, splits, queue, record, log, aborted>>
        /\ \E n \in PinEpochs : pin' = [attempt |-> record.attempt, at |-> n]
    BY <1>5 DEF StopInPin, data, history
  <2>2. stops' \in 0..MaxStops
    BY <1>2, <1>5, TabletSplitAssumption DEF StopInPin
  <2>3. PinEpochs \subseteq 0..applied
    BY EpochReached DEF IInv, Global, Types
  <2>4. record.attempt \in Attempts
    <3>1. PICK l \in Labels : At(l) /\ Local(l)
      BY DEF IInv
    <3>2. l \in {"pin", "pinBuild", "pinRead"}
      BY <1>5, <3>1, Executing, Places DEF StopInPin
    <3> QED BY <3>1, <3>2, Working
  <2>5. pin' \in [attempt : Attempts, at : Nat] \cup {NoPin}
    BY <1>1, <2>1, <2>3, <2>4
  <2> QED BY <1>2, <2>1, <2>2, <2>5, CountedKept
<1>6. CASE LoseProposals
  <2>1. UNCHANGED <<meta, splits, record, pin, log, aborted>>
    BY <1>6 DEF LoseProposals, data, history
  <2>2. stops' \in 0..MaxStops
    BY <1>2, <1>6, TabletSplitAssumption DEF LoseProposals
  <2>3. PICK n \in 0..(Len(queue) - 1) : queue' = SubSeq(queue, 1, n)
    BY <1>6 DEF LoseProposals
  <2>4. Begins(queue, n, queue')
    BY <1>1, <2>3, Truncated
  <2>5. \A d \in Range(queue') : d \in Range(queue)
    BY <2>4 DEF Begins
  <2> QED BY <1>2, <2>1, <2>2, <2>5, CountedKept
<1>7. CASE WriteSource
  <2>1. UNCHANGED <<meta, splits, queue, record, pin, aborted, stops>> /\ Len(log) < MaxWrites
    BY <1>7 DEF WriteSource, history
  <2>2. PICK e : log' = Append(log, e)
    BY <1>7 DEF WriteSource
  <2>3. Len(log') = Len(log) + 1 /\ Len(log) \in Nat /\ MaxWrites \in Nat
    BY <1>1, <2>2, TabletSplitAssumption DEF Logs
  <2>4. Len(log') <= MaxWrites
    BY <2>1, <2>3
  <2> QED BY <1>2, <2>1, <2>4, CountedKept
<1>8. CASE Restart \/ UNCHANGED vars
  <2>1. UNCHANGED <<meta, splits, queue, record, pin, log, aborted, stops>>
    BY <1>8 DEF Restart, data, history, vars
  <2> QED BY <1>2, <2>1, CountedKept
<1> QED BY <1>3, <1>4, <1>5, <1>6, <1>7, <1>8, CountedBegin, CountedExecute, CountedApply DEF Next

\* Descriptors, commands, the record, the pin and the rows keep their types:
\* a source is split MaxSplits times within the generations of Descriptors
\* (tablet.rs, meta.rs, split.rs).
THEOREM SplitTypes == Spec => []TypeOK
<1>1. Init => Counted
  <2> SUFFICES ASSUME Init PROVE Counted
    OBVIOUS
  <2>1. \A t \in Tablets : meta[t] = NoDesc \/ Fits(meta[t], splits)
    <3>1. \A t \in Tablets : meta[t] = NoDesc \/ (meta[t].gen = 1 /\ meta[t].state = "Active")
      BY DEF Init
    <3>2. splits = 0
      BY DEF Init
    <3> QED BY <3>1, <3>2 DEF Fits, Limit
  <2>2. Range(queue) = {}
    BY DEF Init, Range
  <2>3. Len(log) = 0
    BY DEF Init
  <2> QED BY <2>1, <2>2, <2>3, TabletSplitAssumption DEF Init, Counted
<1>2. IInv /\ SourceTypes /\ Counted /\ [Next]_vars => Counted'
  BY NextCounted
<1>3. ASSUME IInv, SourceTypes, Counted PROVE TypeOK
  <2>1. MetaTypes /\ ControlTypes /\ DataTypes
    BY <1>3 DEF IInv, Global, Types
  <2>2. /\ splits \in 0..MaxSplits /\ splits \in Nat /\ MaxSplits \in Nat
        /\ MaxGen = 2 * MaxSplits + 2
    BY <2>1, RecordFacts, TabletSplitAssumption DEF ControlTypes, MaxGen
  <2>3. meta \in [Tablets -> Descriptors]
    <3>1. ASSUME NEW t \in Tablets PROVE meta[t] \in Descriptors
      <4>1. meta[t] \in [state : States \cup {"absent"}, gen : Nat]
            /\ (meta[t].state = "absent" => meta[t] = NoDesc)
        BY <2>1 DEF MetaTypes
      <4>2. meta[t] = NoDesc \/ meta[t].gen \in 1..Limit(meta[t].state, splits)
        BY <1>3 DEF Counted, Fits
      <4>3. meta[t] # NoDesc => meta[t].gen \in 1..MaxGen
        BY <2>2, <4>1, <4>2 DEF Limit
      <4> QED BY <4>1, <4>3 DEF Descriptors
    <3> QED BY <2>1, <3>1 DEF MetaTypes
  <2>4. \A i \in DOMAIN queue :
          /\ queue[i].kind \in {"Set", "Remove", "Publish"}
          /\ queue[i].tablet \in Tablets /\ queue[i].attempt \in Attempts
    <3>1. \A i \in DOMAIN queue : queue[i] \in Commands
      BY <2>1 DEF ControlTypes
    <3> QED BY <3>1 DEF Commands
  <2>5. record \in [attempt : Attempts, gen : 1..MaxGen, phase : Phases] \cup {NoRecord}
    <3>1. record # NoRecord => record.gen \in 1..MaxGen
      BY <1>3, <2>2 DEF Counted
    <3> QED BY <2>1, <3>1 DEF ControlTypes
  <2>6. pin \in [attempt : Attempts, at : 0..applied] \cup {NoPin}
    BY <1>3, <2>1 DEF Counted, DataTypes
  <2>7. readAt \in {NotRead} \cup 0..applied
    BY <2>1 DEF DataTypes
  <2>8. waiting => queue # <<>> /\ todo # <<>>
    <3>1. PICK l \in Labels : At(l) /\ Local(l)
      BY <1>3 DEF IInv
    <3>2. waiting => queue # <<>> /\ l # "idle"
      BY <3>1 DEF Local, Waits, Awaits
    <3> QED BY <3>1, <3>2, DriverFacts DEF Idle
  <2>9. log \in Seq([key : Keys, value : Values]) /\ Len(log) <= MaxWrites
        /\ applied \in 0..Len(log) /\ rows \in [Children -> Values]
        /\ truth \in [Keys -> Values]
    BY <1>3, <2>1 DEF Counted, DataTypes, Logs
  <2> QED BY <1>3, <2>1, <2>2, <2>3, <2>4, <2>5, <2>6, <2>7, <2>8, <2>9
          DEF TypeOK, Counted, ControlTypes, SourceTypes
<1> QED BY <1>1, <1>2, <1>3, SplitInvariant, SourceInvariant, PTL DEF Spec
=============================================================================
