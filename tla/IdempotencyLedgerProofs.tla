---------------------- MODULE IdempotencyLedgerProofs -----------------------
(***************************************************************************)
(* IdempotencyLedger for any calls, keys, requests and bounds: a key that  *)
(* the ledger remembers commits once, its receipt is real and survives, and*)
(* a commit in doubt keeps its key.                                        *)
(***************************************************************************)
EXTENDS IdempotencyLedger, TLAPS

-----------------------------------------------------------------------------
(* The inductive invariant *)

Stages == {"new", "reserved", "appended", "durable", "releasing", "done"}

\* The part of TypeOK the argument needs.
Types ==
    /\ mem \in [Keys -> Recs \cup {NoRec}]
    /\ file \in [Keys -> Recs \cup {NoRec}]
    /\ pc \in [Calls -> Stages]
    /\ req \in [Calls -> Requests \cup {NoReq}]
    /\ answer \in [Calls -> Calls \cup Replies]
    /\ log \in Seq(Calls) /\ synced \in Nat /\ synced <= Len(log)

OnLog == {log[i] : i \in DOMAIN log}

\* What the stage of a call says of its request, its marker and its answer.
Staged ==
    \A c \in Calls :
        /\ pc[c] # "new" => req[c] \in Requests
        /\ pc[c] \in {"new", "reserved"} => c \notin OnLog
        /\ pc[c] \in {"new", "reserved", "appended", "durable"}
             => answer[c] = "none"
        /\ pc[c] = "appended" => c \in OnLog
        /\ pc[c] = "durable" => c \in Durable
        /\ pc[c] = "releasing" => answer[c] \in {"error", "unknown", "durable"}
        /\ c \in OnLog =>
             answer[c] \in {"none", "unknown", "durable", "crashed", c}

\* The records of m hold receipts of durable commits of their key, and of the
\* request they were reserved for.
Truthful(m) ==
    \A k \in Keys : m[k] # NoRec /\ m[k].outcome \in Calls =>
        /\ m[k].outcome \in Durable
        /\ Key(m[k].outcome) = k
        /\ k \notin forgot => m[k].fp = req[m[k].outcome].fp

\* A call between its reservation and its end, or with a marker in the WAL.
Claims(c) ==
    pc[c] \in {"reserved", "appended", "durable", "releasing"} \/ c \in OnLog

\* One call claims a key ...
Exclusive ==
    \A c, d \in Calls :
        Claims(c) /\ Claims(d) /\ Key(c) = Key(d) /\ Key(c) \notin forgot
            => c = d

\* ... and the key has a record, in memory and in the file ...
Guarded ==
    \A c \in Calls : Claims(c) /\ Key(c) \notin forgot =>
        mem[Key(c)] # NoRec /\ file[Key(c)] # NoRec

\* ... that is the call's own.
Owned ==
    \A c \in Calls : Key(c) \notin forgot =>
        /\ pc[c] \in {"reserved", "appended", "durable"}
             => mem[Key(c)].fp = req[c].fp
        /\ pc[c] = "releasing" /\ answer[c] = "durable"
             => mem[Key(c)].outcome = c

\* AtMostOnce needs Exclusive, which check_and_reserve keeps because of
\* Guarded; that the record of a durable commit is not released needs Owned;
\* that its receipt is real needs Truthful, of the file too, because a restart
\* reads it.
IInv ==
    /\ Types /\ Staged /\ Truthful(mem) /\ Truthful(file)
    /\ Exclusive /\ Guarded /\ Owned /\ ReplayIsReal /\ AckedRecorded

-----------------------------------------------------------------------------
(* The log, and the records *)

\* A record is not the absence of one.
LEMMA RecIsNotNoRec == \A x \in Recs : x # NoRec
<1> SUFFICES ASSUME NEW x \in Recs PROVE x # NoRec
  OBVIOUS
<1>1. DOMAIN x = {"fp", "ttl", "expired", "outcome"}
  BY DEF Recs
<1>2. DOMAIN NoRec = {"fp"}
  BY DEF NoRec
<1> QED BY <1>1, <1>2

\* The durable markers are the first of the log.
LEMMA LogFacts ==
  ASSUME Types
  PROVE  Durable \subseteq OnLog /\ OnLog \subseteq Calls
BY DEF Types, Durable, OnLog

\* append_transaction adds one marker, which is not durable yet.
LEMMA LogAppend ==
  ASSUME Types, NEW c \in Calls, log' = Append(log, c), synced' = synced
  PROVE  /\ log' \in Seq(Calls) /\ synced' \in Nat /\ synced' <= Len(log')
         /\ OnLog' = OnLog \cup {c} /\ Durable' = Durable
<1>1. /\ log \in Seq(Calls) /\ synced \in Nat /\ synced <= Len(log)
      /\ Len(log) \in Nat /\ DOMAIN log = 1..Len(log)
  BY DEF Types
<1>2. /\ log' \in Seq(Calls) /\ Len(log') = Len(log) + 1
      /\ \A i \in 1..Len(log) : log'[i] = log[i]
      /\ log'[Len(log) + 1] = c /\ DOMAIN log' = 1..(Len(log) + 1)
  BY <1>1
<1>3. OnLog' = OnLog \cup {c}
  <2>1. \A i \in DOMAIN log' : i \in DOMAIN log \/ i = Len(log) + 1
    BY <1>1, <1>2
  <2>2. Len(log) + 1 \in DOMAIN log' /\ \A i \in DOMAIN log : i \in DOMAIN log'
    BY <1>1, <1>2
  <2> QED BY <1>1, <1>2, <2>1, <2>2 DEF OnLog
<1>4. Durable' = Durable
  <2>1. \A i \in 1..synced : i \in 1..Len(log) /\ log'[i] = log[i]
    BY <1>1, <1>2
  <2> QED BY <2>1 DEF Durable
<1> QED BY <1>1, <1>2, <1>3, <1>4

\* A restart keeps a prefix of the log with every durable marker in it.
LEMMA LogCut ==
  ASSUME Types, NEW n \in synced .. Len(log),
         log' = SubSeq(log, 1, n), synced' = n
  PROVE  /\ log' \in Seq(Calls) /\ synced' \in Nat /\ synced' <= Len(log')
         /\ OnLog' \subseteq OnLog /\ Durable \subseteq Durable'
<1>1. /\ log \in Seq(Calls) /\ synced \in Nat /\ synced <= Len(log)
      /\ Len(log) \in Nat /\ DOMAIN log = 1..Len(log)
      /\ n \in Nat /\ synced <= n /\ n <= Len(log)
  BY DEF Types
<1>2. /\ log' \in Seq(Calls) /\ Len(log') = n /\ DOMAIN log' = 1..n
      /\ \A i \in 1..n : log'[i] = log[i]
  <2>1. /\ Len(SubSeq(log, 1, n)) = n
        /\ \A i \in 1..n : SubSeq(log, 1, n)[i] = log[i]
        /\ SubSeq(log, 1, n) \in Seq(Calls)
    BY <1>1
  <2> QED BY <2>1, <1>1
<1>3. OnLog' \subseteq OnLog
  BY <1>1, <1>2 DEF OnLog
<1>4. Durable \subseteq Durable'
  BY <1>1, <1>2 DEF Durable
<1> QED BY <1>1, <1>2, <1>3, <1>4

-----------------------------------------------------------------------------
(* The steps that leave the ledger alone *)

\* The invariant holds in a new database.
LEMMA InitIInv == Init => IInv
<1> SUFFICES ASSUME Init PROVE IInv
  OBVIOUS
<1>1. OnLog = {} /\ Durable = {}
  BY DEF Init, OnLog, Durable
<1>2. Types
  BY DEF Init, Types, Stages, Replies
<1>3. Staged /\ Exclusive /\ Guarded /\ Owned
  BY <1>1 DEF Init, Staged, Exclusive, Guarded, Owned, Claims
<1>4. Truthful(mem) /\ Truthful(file)
  BY DEF Init, Truthful
<1>5. \A c \in Calls : answer[c] \notin Calls
  BY LedgerAssumption DEF Init, Replies
<1>6. ReplayIsReal /\ AckedRecorded
  BY <1>5 DEF ReplayIsReal, AckedRecorded
<1> QED BY <1>2, <1>3, <1>4, <1>6 DEF IInv

\* A call that goes on, or fails, without touching the ledger: it keeps its
\* claim, and what it answers is not a receipt.
LEMMA QuietStep ==
  ASSUME IInv, NEW c \in Calls,
         UNCHANGED <<mem, file, req, forgot>>,
         log' \in Seq(Calls), synced' \in Nat, synced' <= Len(log'),
         OnLog' \in {OnLog, OnLog \cup {c}}, Durable \subseteq Durable',
         pc[c] \in {"reserved", "appended"},
         NEW l \in {"appended", "durable", "releasing"},
         NEW a \in {"none", "error", "unknown"},
         pc' = [pc EXCEPT ![c] = l], answer' = [answer EXCEPT ![c] = a],
         l \in {"appended", "durable"} => a = "none",
         l = "appended" => c \in OnLog', l = "durable" => c \in Durable',
         l = "releasing" => a \in {"error", "unknown"},
         a = "error" => c \notin OnLog'
  PROVE  IInv'
<1>1. Types'
  BY DEF IInv, Types, Stages, Replies
<1>2. \A d \in Calls : d # c => pc'[d] = pc[d] /\ answer'[d] = answer[d]
                                /\ (d \in OnLog' <=> d \in OnLog)
  BY DEF IInv, Types
<1>3. pc'[c] = l /\ answer'[c] = a /\ a \notin Calls
  BY LedgerAssumption DEF IInv, Types, Replies
<1>4. Staged'
  <2> SUFFICES ASSUME NEW d \in Calls
               PROVE  /\ pc'[d] # "new" => req[d] \in Requests
                      /\ pc'[d] \in {"new", "reserved"} => d \notin OnLog'
                      /\ pc'[d] \in {"new", "reserved", "appended", "durable"}
                           => answer'[d] = "none"
                      /\ pc'[d] = "appended" => d \in OnLog'
                      /\ pc'[d] = "durable" => d \in Durable'
                      /\ pc'[d] = "releasing"
                           => answer'[d] \in {"error", "unknown", "durable"}
                      /\ d \in OnLog' => answer'[d] \in
                           {"none", "unknown", "durable", "crashed", d}
    BY DEF Staged
  <2>1. CASE d = c
    BY <2>1, <1>3 DEF IInv, Staged
  <2>2. CASE d # c
    BY <2>2, <1>2 DEF IInv, Staged
  <2> QED BY <2>1, <2>2
<1>5. Truthful(mem)' /\ Truthful(file)'
  BY DEF IInv, Truthful, Key
<1>6. \A d \in Calls : Claims(d)' => Claims(d)
  BY <1>2, <1>3 DEF Claims
<1>7. Exclusive' /\ Guarded'
  <2>1. Exclusive'
    BY <1>6 DEF IInv, Exclusive, Key
  <2>2. Guarded'
    BY <1>6 DEF IInv, Guarded, Key
  <2> QED BY <2>1, <2>2
<1>8. Owned'
  <2> SUFFICES ASSUME NEW d \in Calls, Key(d) \notin forgot
               PROVE  /\ pc'[d] \in {"reserved", "appended", "durable"}
                           => mem[Key(d)].fp = req[d].fp
                      /\ pc'[d] = "releasing" /\ answer'[d] = "durable"
                           => mem[Key(d)].outcome = d
    BY DEF Owned, Key
  <2>1. CASE d = c
    BY <2>1, <1>3 DEF IInv, Owned
  <2>2. CASE d # c
    BY <2>2, <1>2 DEF IInv, Owned
  <2> QED BY <2>1, <2>2
<1>9. ReplayIsReal'
  BY <1>2, <1>3 DEF IInv, ReplayIsReal, Key
<1>10. AckedRecorded'
  BY <1>2, <1>3 DEF IInv, AckedRecorded, Key
<1> QED BY <1>1, <1>4, <1>5, <1>7, <1>8, <1>9, <1>10 DEF IInv

\* Validation fails before the proposal.
LEMMA FailEarlyKeeps ==
  ASSUME IInv, NEW c \in Calls, FailEarly(c)
  PROVE  IInv'
<1>1. OnLog' = OnLog /\ Durable' = Durable
  BY DEF FailEarly, OnLog, Durable
<1>2. c \notin OnLog /\ log' \in Seq(Calls) /\ synced' \in Nat /\ synced' <= Len(log')
  BY DEF IInv, Staged, FailEarly, Types
<1> QED BY <1>1, <1>2, QuietStep DEF FailEarly

\* The marker is appended.
LEMMA AppendMarkerKeeps ==
  ASSUME IInv, NEW c \in Calls, AppendMarker(c)
  PROVE  IInv'
<1>1. /\ log' \in Seq(Calls) /\ synced' \in Nat /\ synced' <= Len(log')
      /\ OnLog' = OnLog \cup {c} /\ Durable' = Durable
  BY LogAppend DEF IInv, AppendMarker
<1>2. answer[c] = "none" /\ answer' = [answer EXCEPT ![c] = "none"]
  BY DEF IInv, Staged, Types, AppendMarker
<1> QED BY <1>1, <1>2, QuietStep DEF AppendMarker

\* The append fails, with or without a marker in the WAL.
LEMMA AppendFailsKeeps ==
  ASSUME IInv, NEW c \in Calls, AppendFails(c)
  PROVE  IInv'
<1>1. /\ log' \in Seq(Calls) /\ synced' \in Nat /\ synced' <= Len(log')
      /\ OnLog' \in {OnLog, OnLog \cup {c}} /\ Durable' = Durable
  <2>1. CASE log' = log
    BY <2>1 DEF AppendFails, OnLog, Durable, IInv, Types
  <2>2. CASE log' = Append(log, c)
    BY <2>2, LogAppend DEF IInv, AppendFails
  <2> QED BY <2>1, <2>2 DEF AppendFails
<1> QED BY <1>1, QuietStep DEF AppendFails

\* The wait for group commit ends, well or not.
LEMMA AwaitKeeps ==
  ASSUME IInv, NEW c \in Calls, AwaitDurable(c) \/ AwaitFails(c)
  PROVE  IInv'
<1>1. OnLog' = OnLog /\ Durable' = Durable
  BY DEF AwaitDurable, AwaitFails, OnLog, Durable
<1>2. log' \in Seq(Calls) /\ synced' \in Nat /\ synced' <= Len(log')
  BY DEF IInv, AwaitDurable, AwaitFails, Types
<1>3. CASE AwaitDurable(c)
  <2>1. c \in OnLog /\ answer[c] = "none" /\ answer' = [answer EXCEPT ![c] = "none"]
    BY <1>3 DEF IInv, Staged, Types, AwaitDurable
  <2>2. Epoch(c) \in DOMAIN log /\ log[Epoch(c)] = c
    BY <2>1 DEF Epoch, OnLog
  <2>3. c \in Durable
    BY <2>2, <1>3 DEF AwaitDurable, Durable, IInv, Types
  <2> QED BY <1>1, <1>2, <1>3, <2>1, <2>3, QuietStep DEF AwaitDurable
<1>4. CASE AwaitFails(c)
  BY <1>1, <1>2, <1>4, QuietStep DEF AwaitFails
<1> QED BY <1>3, <1>4

\* The leader's fsync moves the durable prefix, or poisons the WAL.
LEMMA GroupSyncKeeps ==
  ASSUME IInv, NEW ok \in BOOLEAN, GroupSync(ok)
  PROVE  IInv'
<1>1. UNCHANGED <<mem, file, pc, req, answer, log, forgot>>
  BY DEF GroupSync
<1>2. OnLog' = OnLog /\ Durable \subseteq Durable'
      /\ synced' \in Nat /\ synced' <= Len(log')
  BY <1>1 DEF GroupSync, OnLog, Durable, IInv, Types
<1>3. Types' /\ Staged'
  BY <1>1, <1>2 DEF IInv, Types, Staged
<1>4. Truthful(mem)' /\ Truthful(file)' /\ ReplayIsReal'
  BY <1>1, <1>2 DEF IInv, Truthful, ReplayIsReal, Key
<1>5. Exclusive' /\ Guarded' /\ Owned' /\ AckedRecorded'
  BY <1>1, <1>2 DEF IInv, Exclusive, Guarded, Owned, AckedRecorded, Key, Claims
<1> QED BY <1>3, <1>4, <1>5 DEF IInv

-----------------------------------------------------------------------------
(* The steps on the ledger *)

Records == [Keys -> Recs \cup {NoRec}]

\* sweep_expired drops records, and what it drops is counted as forgotten.
LEMMA SweepFacts ==
  ASSUME NEW m \in Records
  PROVE  /\ Sweep(m) \in Records
         /\ \A k \in Keys : Sweep(m)[k] \in {m[k], NoRec}
         /\ \A k \in Keys : k \notin Swept(m) => Sweep(m)[k] = m[k]
<1>1. \A k \in Keys : Sweep(m)[k] = IF m[k] # NoRec /\ m[k].expired
                                    THEN NoRec ELSE m[k]
  BY DEF Sweep
<1>2. Sweep(m) \in Records
  BY DEF Sweep, Records
<1> QED BY <1>1, <1>2 DEF Swept, Present

\* So does enforce_bounds, and the file is left or gets what memory holds.
LEMMA PersistFacts ==
  ASSUME Types, NEW m \in Records, NEW ok \in BOOLEAN, Persist(m, ok),
         Oldest(m) \subseteq forgot'
  PROVE  /\ mem' \in Records /\ file' \in Records
         /\ \A k \in Keys : mem'[k] \in {m[k], NoRec}
         /\ \A k \in Keys : k \notin forgot' => mem'[k] = m[k]
         /\ file' \in {file, mem'} /\ (ok => file' = mem')
<1>1. mem' = [k \in Keys |-> IF k \in Oldest(m) THEN NoRec ELSE m[k]]
  BY DEF Persist, EnforceBounds
<1>2. mem' \in Records
  BY <1>1 DEF Records
<1>3. file' \in {file, mem'} /\ (ok => file' = mem')
  BY DEF Persist
<1>4. file' \in Records
  BY <1>2, <1>3 DEF Types, Records
<1> QED BY <1>1, <1>2, <1>3, <1>4

\* Records that are kept, dropped or reserved anew stay truthful.
LEMMA TruthStep ==
  ASSUME IInv, NEW x, UNCHANGED <<log, synced>>, forgot \subseteq forgot',
         \A d \in OnLog : req'[d] = req[d],
         \A k \in Keys : \/ x[k] = NoRec
                         \/ x[k].outcome = Reserved
                         \/ x[k] = mem[k] \/ x[k] = file[k]
  PROVE  \A k \in Keys : x[k] # NoRec /\ x[k].outcome \in Calls =>
            /\ x[k].outcome \in Durable'
            /\ req'[x[k].outcome].key = k
            /\ k \notin forgot' => x[k].fp = req'[x[k].outcome].fp
<1>1. Durable' = Durable /\ Durable \subseteq OnLog
  BY LogFacts DEF Durable, IInv
<1>2. Reserved \notin Calls
  BY LedgerAssumption DEF Replies
<1> SUFFICES ASSUME NEW k \in Keys, x[k] # NoRec, x[k].outcome \in Calls
             PROVE  /\ x[k].outcome \in Durable'
                    /\ req'[x[k].outcome].key = k
                    /\ k \notin forgot' => x[k].fp = req'[x[k].outcome].fp
  OBVIOUS
<1>3. CASE x[k] = mem[k]
  BY <1>1, <1>3 DEF IInv, Truthful, Key
<1>4. CASE x[k] = file[k]
  BY <1>1, <1>4 DEF IInv, Truthful, Key
<1> QED BY <1>2, <1>3, <1>4

\* What a step of call c on the ledger leaves of the others' claims: a key
\* that is not forgotten has the record it had, unless nobody else claims it.
LEMMA OthersKept ==
  ASSUME IInv, NEW c \in Calls, UNCHANGED <<log, synced>>,
         forgot \subseteq forgot',
         \A d \in Calls \ {c} :
            pc'[d] = pc[d] /\ answer'[d] = answer[d] /\ req'[d] = req[d],
         \A d \in Calls \ {c} : Claims(d) /\ Key(d) \notin forgot' =>
            mem'[Key(d)] = mem[Key(d)] /\ file'[Key(d)] \in {file[Key(d)], mem[Key(d)]}
  PROVE  \A d \in Calls \ {c} :
            /\ Key(d)' = Key(d) /\ (Claims(d)' <=> Claims(d))
            /\ Claims(d)' /\ Key(d)' \notin forgot' =>
                 mem'[Key(d)'] # NoRec /\ file'[Key(d)'] # NoRec
            /\ Key(d)' \notin forgot' =>
                 /\ pc'[d] \in {"reserved", "appended", "durable"}
                      => mem'[Key(d)'].fp = req'[d].fp
                 /\ pc'[d] = "releasing" /\ answer'[d] = "durable"
                      => mem'[Key(d)'].outcome = d
            /\ answer'[d] = d /\ Key(d)' \notin forgot' =>
                 /\ file'[Key(d)'] # NoRec /\ file'[Key(d)'].outcome = d
                 /\ mem'[Key(d)'] # NoRec /\ mem'[Key(d)'].outcome = d
<1> SUFFICES ASSUME NEW d \in Calls \ {c}
             PROVE  /\ Key(d)' = Key(d) /\ (Claims(d)' <=> Claims(d))
                    /\ Claims(d)' /\ Key(d)' \notin forgot' =>
                         mem'[Key(d)'] # NoRec /\ file'[Key(d)'] # NoRec
                    /\ Key(d)' \notin forgot' =>
                         /\ pc'[d] \in {"reserved", "appended", "durable"}
                              => mem'[Key(d)'].fp = req'[d].fp
                         /\ pc'[d] = "releasing" /\ answer'[d] = "durable"
                              => mem'[Key(d)'].outcome = d
                    /\ answer'[d] = d /\ Key(d)' \notin forgot' =>
                         /\ file'[Key(d)'] # NoRec /\ file'[Key(d)'].outcome = d
                         /\ mem'[Key(d)'] # NoRec /\ mem'[Key(d)'].outcome = d
  OBVIOUS
<1>1. OnLog' = OnLog /\ Durable \subseteq OnLog
  BY LogFacts DEF OnLog, IInv
<1>2. Key(d)' = Key(d) /\ (Claims(d)' <=> Claims(d))
  BY <1>1 DEF Key, Claims
<1>3. ASSUME Claims(d), Key(d) \notin forgot'
      PROVE  mem'[Key(d)] # NoRec /\ file'[Key(d)] # NoRec
  BY <1>3 DEF IInv, Guarded
<1>4. ASSUME pc[d] \in {"reserved", "appended", "durable"}, Key(d) \notin forgot'
      PROVE  mem'[Key(d)].fp = req[d].fp
  BY <1>4 DEF IInv, Owned, Claims
<1>5. ASSUME pc[d] = "releasing", answer[d] = "durable", Key(d) \notin forgot'
      PROVE  mem'[Key(d)].outcome = d
  BY <1>5 DEF IInv, Owned, Claims
<1>6. ASSUME answer[d] = d, Key(d) \notin forgot'
      PROVE  /\ file'[Key(d)] # NoRec /\ file'[Key(d)].outcome = d
             /\ mem'[Key(d)] # NoRec /\ mem'[Key(d)].outcome = d
  <2>1. Claims(d)
    BY <1>1, <1>6 DEF IInv, ReplayIsReal, Claims
  <2> QED BY <1>6, <2>1 DEF IInv, AckedRecorded
<1> QED BY <1>2, <1>3, <1>4, <1>5, <1>6

\* The rest of what a step of c leaves of the others, in their own words.
LEMMA OthersReplay ==
  ASSUME IInv, NEW c \in Calls, UNCHANGED <<log, synced>>,
         forgot \subseteq forgot', c \in OnLog => req'[c] = req[c],
         \A d \in Calls \ {c} :
            pc'[d] = pc[d] /\ answer'[d] = answer[d] /\ req'[d] = req[d]
  PROVE  /\ OnLog' = OnLog /\ Durable' = Durable
         /\ \A d \in OnLog : req'[d] = req[d]
         /\ \A d \in Calls \ {c} : answer'[d] \in Calls =>
              /\ answer'[d] \in Durable' /\ req'[answer'[d]].key = req'[d].key
              /\ Key(d)' \notin forgot' => req'[answer'[d]].fp = req'[d].fp
<1>1. OnLog' = OnLog /\ Durable' = Durable /\ Durable \subseteq OnLog
      /\ OnLog \subseteq Calls
  BY LogFacts DEF OnLog, Durable, IInv
<1>2. \A d \in OnLog : req'[d] = req[d]
  BY <1>1
<1> QED BY <1>1, <1>2 DEF IInv, ReplayIsReal, Key

\* A step of call c on the ledger: the invariant is kept if the records stay
\* truthful and c's own claim, answer and record are in order.
LEMMA CallStep ==
  ASSUME IInv, NEW c \in Calls, UNCHANGED <<log, synced>>,
         forgot \subseteq forgot', mem' \in Records, file' \in Records,
         NEW l \in Stages, NEW a \in Calls \cup Replies, NEW r \in Requests,
         pc' = [pc EXCEPT ![c] = l], answer' = [answer EXCEPT ![c] = a],
         req' = [req EXCEPT ![c] = r], c \in OnLog => r = req[c],
         l # "new", l = "reserved" => a = "none",
         l \in {"reserved", "releasing", "done"},
         l = "reserved" => c \notin OnLog,
         l = "releasing" => a \in {"error", "unknown", "durable"},
         c \in OnLog => a \in {"none", "unknown", "durable", "crashed", c},
         Truthful(mem)', Truthful(file)',
         \A d \in Calls \ {c} : Claims(d) /\ Key(d) \notin forgot' =>
            mem'[Key(d)] = mem[Key(d)] /\ file'[Key(d)] \in {file[Key(d)], mem[Key(d)]},
         l \in {"reserved", "releasing"} \/ c \in OnLog =>
            r.key \in forgot' \/ /\ mem'[r.key] # NoRec /\ file'[r.key] # NoRec
                                 /\ \A d \in Calls \ {c} : Claims(d) => Key(d) # r.key,
         r.key \notin forgot' =>
            /\ l = "reserved" => mem'[r.key].fp = r.fp
            /\ l = "releasing" /\ a = "durable" => mem'[r.key].outcome = c
            /\ a = c => /\ file'[r.key] # NoRec /\ file'[r.key].outcome = c
                        /\ mem'[r.key] # NoRec /\ mem'[r.key].outcome = c,
         a \in Calls => /\ a \in Durable /\ req'[a].key = r.key
                        /\ r.key \notin forgot' => req'[a].fp = r.fp
  PROVE  IInv'
<1>1. /\ OnLog' = OnLog /\ Durable' = Durable
      /\ Durable \subseteq OnLog /\ OnLog \subseteq Calls
  BY LogFacts DEF IInv, OnLog, Durable
<1>2. /\ pc'[c] = l /\ answer'[c] = a /\ req'[c] = r
      /\ \A d \in Calls \ {c} :
           pc'[d] = pc[d] /\ answer'[d] = answer[d] /\ req'[d] = req[d]
  BY DEF IInv, Types
<1>3. Types'
  BY DEF IInv, Types, Records, Stages
<1>4. \A d \in Calls \ {c} :
            /\ Key(d)' = Key(d) /\ (Claims(d)' <=> Claims(d))
            /\ Claims(d)' /\ Key(d)' \notin forgot' =>
                 mem'[Key(d)'] # NoRec /\ file'[Key(d)'] # NoRec
            /\ Key(d)' \notin forgot' =>
                 /\ pc'[d] \in {"reserved", "appended", "durable"}
                      => mem'[Key(d)'].fp = req'[d].fp
                 /\ pc'[d] = "releasing" /\ answer'[d] = "durable"
                      => mem'[Key(d)'].outcome = d
            /\ answer'[d] = d /\ Key(d)' \notin forgot' =>
                 /\ file'[Key(d)'] # NoRec /\ file'[Key(d)'].outcome = d
                 /\ mem'[Key(d)'] # NoRec /\ mem'[Key(d)'].outcome = d
  BY <1>2, OthersKept
<1>5. Key(c)' = r.key /\ (Claims(c)' => l \in {"reserved", "releasing"} \/ c \in OnLog)
  BY <1>1, <1>2 DEF Claims, Key
<1>6. Staged'
  <2> SUFFICES ASSUME NEW d \in Calls
               PROVE  /\ pc'[d] # "new" => req'[d] \in Requests
                      /\ pc'[d] \in {"new", "reserved"} => d \notin OnLog'
                      /\ pc'[d] \in {"new", "reserved", "appended", "durable"}
                           => answer'[d] = "none"
                      /\ pc'[d] = "appended" => d \in OnLog'
                      /\ pc'[d] = "durable" => d \in Durable'
                      /\ pc'[d] = "releasing"
                           => answer'[d] \in {"error", "unknown", "durable"}
                      /\ d \in OnLog' => answer'[d] \in
                           {"none", "unknown", "durable", "crashed", d}
    BY DEF Staged
  <2>1. CASE d = c
    BY <2>1, <1>1, <1>2
  <2>2. CASE d # c
    BY <2>2, <1>1, <1>2 DEF IInv, Staged
  <2> QED BY <2>1, <2>2
<1>7. Exclusive'
  <2> SUFFICES ASSUME NEW d \in Calls, NEW e \in Calls, Claims(d)', Claims(e)',
                      Key(d)' = Key(e)', Key(d)' \notin forgot', d # e
               PROVE  FALSE
    BY DEF Exclusive
  <2>1. CASE d # c /\ e # c
    BY <2>1, <1>4 DEF IInv, Exclusive
  <2>2. CASE d = c
    BY <2>2, <1>4, <1>5
  <2>3. CASE e = c
    BY <2>3, <1>4, <1>5
  <2> QED BY <2>1, <2>2, <2>3
<1>8. Guarded'
  BY <1>4, <1>5 DEF Guarded
<1>9. Owned'
  BY <1>2, <1>4, <1>5 DEF Owned
<1>10. AckedRecorded'
  BY <1>2, <1>4, <1>5 DEF AckedRecorded
<1>11. ReplayIsReal'
  <2>1. \A d \in Calls \ {c} : answer'[d] \in Calls =>
              /\ answer'[d] \in Durable' /\ req'[answer'[d]].key = req'[d].key
              /\ Key(d)' \notin forgot' => req'[answer'[d]].fp = req'[d].fp
    BY <1>2, OthersReplay
  <2>2. answer'[c] \in Calls =>
              /\ answer'[c] \in Durable' /\ req'[answer'[c]].key = req'[c].key
              /\ Key(c)' \notin forgot' => req'[answer'[c]].fp = req'[c].fp
    BY <1>1, <1>2, <1>5
  <2> QED BY <2>1, <2>2 DEF ReplayIsReal, Key
<1> QED BY <1>3, <1>6, <1>7, <1>8, <1>9, <1>10, <1>11 DEF IInv

\* A claim is on a key of the ledger.
LEMMA ClaimedKeys ==
  ASSUME IInv, NEW d \in Calls, Claims(d)
  PROVE  Key(d) \in Keys /\ req[d] \in Requests
BY LedgerAssumption DEF Claims, IInv, Staged, Key

\* check_and_reserve finds a record: the call ends without a claim, with the
\* receipt the record holds if it has the fingerprint.
LEMMA CheckFindsKeeps ==
  ASSUME IInv, NEW c \in Calls, NEW r \in Requests, CheckFinds(c, r)
  PROVE  IInv'
<1> DEFINE m == Sweep(mem)
           a == IF m[r.key].fp = r.fp THEN m[r.key].outcome ELSE "conflict"
<1>1. /\ pc[c] = "new" /\ m[r.key] # NoRec /\ mem' = m /\ file' = file
      /\ pc' = [pc EXCEPT ![c] = "done"] /\ answer' = [answer EXCEPT ![c] = a]
      /\ req' = [req EXCEPT ![c] = r] /\ forgot' = forgot \cup Swept(mem)
      /\ UNCHANGED <<log, synced>>
  BY DEF CheckFinds, Finish, Forget
<1>2. /\ m \in Records /\ file \in Records
      /\ \A k \in Keys : m[k] \in {mem[k], NoRec}
      /\ \A k \in Keys : k \notin Swept(mem) => m[k] = mem[k]
  BY SweepFacts DEF IInv, Types, Records
<1> HIDE DEF m
<1>3. r.key \in Keys /\ m[r.key] \in Recs /\ m[r.key] = mem[r.key]
  BY <1>1, <1>2, LedgerAssumption DEF Records
<1>4. a \in Calls \cup Replies
  BY <1>3 DEF Recs, Replies
<1>5. c \notin OnLog /\ Durable \subseteq OnLog
  BY <1>1, LogFacts DEF IInv, Staged
<1>6. a \in Calls => /\ a \in Durable /\ req[a].key = r.key /\ a # c
                     /\ r.key \notin forgot => req[a].fp = r.fp
  <2>1. "conflict" \notin Calls
    BY LedgerAssumption DEF Replies
  <2> QED BY <1>1, <1>3, <1>5, <2>1 DEF IInv, Truthful, Key
<1> HIDE DEF a
<1>7. /\ \A d \in Calls \ {c} : req'[d] = req[d]
      /\ \A d \in OnLog : req'[d] = req[d]
  BY <1>1, <1>5, LogFacts DEF IInv, Types
<1>8. Truthful(mem)' /\ Truthful(file)'
  <2>1. Truthful(mem)'
    BY <1>1, <1>2, <1>7, TruthStep DEF Truthful, Key
  <2>2. Truthful(file)'
    BY <1>1, <1>7, TruthStep DEF Truthful, Key
  <2> QED BY <2>1, <2>2
<1>9. \A d \in Calls \ {c} : Claims(d) /\ Key(d) \notin forgot' =>
         mem'[Key(d)] = mem[Key(d)] /\ file'[Key(d)] \in {file[Key(d)], mem[Key(d)]}
  BY <1>1, <1>2, ClaimedKeys
<1>10. "done" \in Stages
  BY DEF Stages
<1> QED BY <1>1, <1>2, <1>4, <1>5, <1>6, <1>7, <1>8, <1>9, <1>10, CallStep

\* check_and_reserve reserves a key nobody claims, because a claim has a record;
\* the call claims it when the file is written, and ends otherwise.
LEMMA ReserveKeeps ==
  ASSUME IInv, NEW c \in Calls, NEW r \in Requests, Reserve(c, r)
  PROVE  IInv'
<1> DEFINE s == Sweep(mem)
           m == [s EXCEPT ![r.key] = Reservation(r)]
<1>1. /\ pc[c] = "new" /\ s[r.key] = NoRec
      /\ req' = [req EXCEPT ![c] = r]
      /\ forgot' = forgot \cup (Swept(mem) \cup Oldest(m))
      /\ UNCHANGED <<log, synced>>
  BY DEF Reserve, Forget
<1>2. PICK ok \in BOOLEAN, l \in {"reserved", "done"}, a \in {"none", "error"} :
        /\ Persist(m, ok)
        /\ l = "reserved" => ok /\ a = "none"
        /\ pc' = [pc EXCEPT ![c] = l] /\ answer' = [answer EXCEPT ![c] = a]
  <2>1. CASE Persist(m, TRUE) /\ pc' = [pc EXCEPT ![c] = "reserved"] /\ UNCHANGED answer
    <3>1. answer' = [answer EXCEPT ![c] = "none"]
      BY <1>1, <2>1 DEF IInv, Staged, Types
    <3> QED BY <2>1, <3>1
  <2>2. CASE Persist(m, FALSE) /\ Finish(c, "error")
    BY <2>2 DEF Finish
  <2> QED BY <2>1, <2>2 DEF Reserve
<1>3. /\ s \in Records /\ \A k \in Keys : s[k] \in {mem[k], NoRec}
      /\ \A k \in Keys : k \notin Swept(mem) => s[k] = mem[k]
  BY SweepFacts DEF IInv, Types, Records
<1> HIDE DEF s
<1>4. r.key \in Keys /\ Reservation(r) \in Recs /\ Reservation(r) # NoRec
      /\ Reservation(r).fp = r.fp /\ Reservation(r).outcome = Reserved
  BY LedgerAssumption, RecIsNotNoRec DEF Reservation, Recs, Fps
<1>5. /\ m \in Records /\ m[r.key] = Reservation(r)
      /\ \A k \in Keys \ {r.key} : m[k] = s[k]
  BY <1>3, <1>4 DEF Records
<1> HIDE DEF m
<1>6. /\ mem' \in Records /\ file' \in Records
      /\ \A k \in Keys : mem'[k] \in {m[k], NoRec}
      /\ \A k \in Keys : k \notin forgot' => mem'[k] = m[k]
      /\ file' \in {file, mem'} /\ (ok => file' = mem')
  BY <1>1, <1>2, <1>5, PersistFacts DEF IInv
<1>7. c \notin OnLog /\ Durable \subseteq OnLog
  BY <1>1, LogFacts DEF IInv, Staged
<1>8. r.key \notin forgot' => \A d \in Calls : Claims(d) => Key(d) # r.key
  BY <1>1, <1>3, <1>4 DEF IInv, Guarded
<1>9. \A d \in Calls \ {c} : Claims(d) /\ Key(d) \notin forgot' =>
         mem'[Key(d)] = mem[Key(d)] /\ file'[Key(d)] \in {file[Key(d)], mem[Key(d)]}
  BY <1>1, <1>3, <1>5, <1>6, <1>8, ClaimedKeys
<1>10. \A d \in OnLog : req'[d] = req[d]
  BY <1>1, <1>7, LogFacts DEF IInv, Types
<1>11. \A k \in Keys : \/ mem'[k] = NoRec \/ mem'[k].outcome = Reserved
                       \/ mem'[k] = mem[k]
  BY <1>3, <1>4, <1>5, <1>6
<1>12. Truthful(mem)' /\ Truthful(file)'
  <2>1. Truthful(mem)'
    BY <1>1, <1>10, <1>11, TruthStep DEF Truthful, Key
  <2>2. Truthful(file)'
    BY <1>1, <1>6, <1>10, <1>11, TruthStep DEF Truthful, Key
  <2> QED BY <2>1, <2>2
<1>13. l \in Stages /\ a \in Replies /\ a \notin Calls
  BY LedgerAssumption DEF Stages, Replies
<1>14. /\ UNCHANGED <<log, synced>> /\ forgot \subseteq forgot' /\ r \in Requests
       /\ req' = [req EXCEPT ![c] = r] /\ c \notin OnLog /\ a \in Calls \cup Replies
       /\ l # "new" /\ l \in {"reserved", "releasing", "done"} /\ l # "releasing" /\ a # c
  BY <1>1, <1>2, <1>6, <1>7, <1>13
<1>15. /\ l = "reserved" => a = "none"
       /\ l = "reserved" =>
            r.key \in forgot' \/ /\ mem'[r.key] # NoRec /\ file'[r.key] # NoRec
                                 /\ \A d \in Calls \ {c} : Claims(d) => Key(d) # r.key
       /\ r.key \notin forgot' /\ l = "reserved" => mem'[r.key].fp = r.fp
  BY <1>2, <1>4, <1>5, <1>6, <1>8
<1> QED BY <1>2, <1>6, <1>9, <1>12, <1>13, <1>14, <1>15, CallStep

\* complete writes the receipt into the record of the call; without a record
\* the key was forgotten.
LEMMA CompleteKeeps ==
  ASSUME IInv, NEW c \in Calls, Complete(c)
  PROVE  IInv'
<1> DEFINE m == Receipt(c)
<1>1. pc[c] = "durable" /\ c \in Durable /\ c \in OnLog /\ Claims(c)
      /\ UNCHANGED <<req, log, synced>>
  BY LogFacts DEF Complete, IInv, Staged, Claims
<1>2. Key(c) \in Keys /\ req[c] \in Requests /\ Key(c) = req[c].key
      /\ req' = [req EXCEPT ![c] = req[c]]
  BY <1>1, ClaimedKeys DEF Key, IInv, Types
<1>3. \A d \in OnLog : req'[d] = req[d]
  BY <1>1
<1>4. {"releasing", "done"} \subseteq Stages /\ "durable" \in Replies
      /\ "durable" \notin Calls
  BY LedgerAssumption DEF Stages, Replies
<1>5. Key(c) \notin forgot => \A d \in Calls \ {c} : Claims(d) => Key(d) # Key(c)
  BY <1>1 DEF IInv, Exclusive
<1>6. CASE mem[Key(c)] = NoRec
  <2>1. /\ pc' = [pc EXCEPT ![c] = "releasing"]
        /\ answer' = [answer EXCEPT ![c] = "durable"]
        /\ UNCHANGED <<mem, file, forgot>>
    BY <1>6 DEF Complete
  <2>2. Key(c) \in forgot
    BY <1>1, <1>6 DEF IInv, Guarded
  <2>3. Truthful(mem)' /\ Truthful(file)'
    <3>1. Truthful(mem)'
      BY <1>1, <1>3, <2>1, TruthStep DEF Truthful, Key
    <3>2. Truthful(file)'
      BY <1>1, <1>3, <2>1, TruthStep DEF Truthful, Key
    <3> QED BY <3>1, <3>2
  <2>4. mem' \in Records /\ file' \in Records
    BY <2>1 DEF IInv, Types, Records
  <2> QED BY <1>1, <1>2, <1>4, <2>1, <2>2, <2>3, <2>4, CallStep
<1>7. CASE mem[Key(c)] # NoRec
  <2>1. PICK ok \in BOOLEAN, l \in {"releasing", "done"}, a \in {c, "durable"} :
          /\ Persist(m, ok) /\ (a = c => ok)
          /\ (l = "releasing" => a = "durable") /\ (l = "done" => a = c)
          /\ pc' = [pc EXCEPT ![c] = l] /\ answer' = [answer EXCEPT ![c] = a]
    <3>1. CASE Persist(m, TRUE) /\ Finish(c, c)
      BY <3>1, <1>4 DEF Finish
    <3>2. CASE /\ Persist(m, FALSE) /\ pc' = [pc EXCEPT ![c] = "releasing"]
               /\ answer' = [answer EXCEPT ![c] = "durable"]
      BY <3>2, <1>4
    <3> QED BY <1>7, <3>1, <3>2 DEF Complete
  <2>2. forgot' = forgot \cup Oldest(m)
    BY <1>7 DEF Complete, Forget
  <2>3. mem \in Records /\ mem[Key(c)] \in Recs
    BY <1>2, <1>7 DEF IInv, Types, Records
  <2>4. /\ m[Key(c)] \in Recs /\ m[Key(c)].outcome = c
        /\ m[Key(c)].fp = mem[Key(c)].fp
        /\ \A k \in Keys \ {Key(c)} : m[k] = mem[k]
        /\ m \in Records
    <3>1. req[c].ttl \in BOOLEAN
      BY <1>2, LedgerAssumption
    <3>2. PICK x \in Recs : x = [mem[Key(c)] EXCEPT !.outcome = c,
                                    !.ttl = req[c].ttl, !.expired = FALSE]
      BY <2>3, <3>1 DEF Recs
    <3>3. x.outcome = c /\ x.fp = mem[Key(c)].fp
      BY <2>3, <3>2 DEF Recs
    <3>4. m = [mem EXCEPT ![Key(c)] = x]
      BY <3>2 DEF Receipt
    <3> QED BY <1>2, <2>3, <3>3, <3>4 DEF Records
  <2> HIDE DEF m
  <2>5. /\ mem' \in Records /\ file' \in Records
        /\ \A k \in Keys : mem'[k] \in {m[k], NoRec}
        /\ \A k \in Keys : k \notin forgot' => mem'[k] = m[k]
        /\ file' \in {file, mem'} /\ (ok => file' = mem')
    BY <2>1, <2>2, <2>4, PersistFacts DEF IInv
  <2>6. Key(c) \notin forgot => mem[Key(c)].fp = req[c].fp
    BY <1>1 DEF IInv, Owned
  <2>7. Durable' = Durable
    BY <1>1 DEF Durable
  <2>8. Truthful(mem)'
    <3>0. SUFFICES ASSUME NEW k \in Keys, mem'[k] # NoRec, mem'[k].outcome \in Calls
                   PROVE  /\ mem'[k].outcome \in Durable
                          /\ req[mem'[k].outcome].key = k
                          /\ k \notin forgot' =>
                               mem'[k].fp = req[mem'[k].outcome].fp
      BY <1>1, <2>7 DEF Truthful, Key
    <3>1. CASE k = Key(c)
      BY <1>1, <1>2, <2>2, <2>4, <2>5, <2>6, <3>0, <3>1
    <3>2. CASE k # Key(c)
      BY <2>2, <2>4, <2>5, <3>0, <3>2 DEF IInv, Truthful, Key
    <3> QED BY <3>1, <3>2
  <2>9. Truthful(file)'
    <3>1. CASE file' = file
      BY <1>1, <1>3, <2>2, <3>1, TruthStep DEF Truthful, Key
    <3>2. CASE file' = mem'
      BY <3>2, <2>8 DEF Truthful
    <3> QED BY <2>5, <3>1, <3>2
  <2>10. m[Key(c)] # NoRec
    BY <2>4, RecIsNotNoRec
  <2>11. \A d \in Calls \ {c} : Claims(d) /\ Key(d) \notin forgot' =>
           mem'[Key(d)] = mem[Key(d)] /\ file'[Key(d)] \in {file[Key(d)], mem[Key(d)]}
    BY <1>5, <2>2, <2>4, <2>5, ClaimedKeys
  <2>12. Key(c) \notin forgot' => mem'[Key(c)] # NoRec /\ file'[Key(c)] # NoRec
    BY <1>1, <1>2, <2>2, <2>5, <2>10 DEF IInv, Guarded
  <2>13. l \in Stages /\ a \in Calls \cup Replies
    BY <1>4
  <2>14. req[c].key \in forgot' \/
           /\ mem'[req[c].key] # NoRec /\ file'[req[c].key] # NoRec
           /\ \A d \in Calls \ {c} : Claims(d) => Key(d) # req[c].key
    BY <1>2, <1>5, <2>2, <2>12
  <2>15. req[c].key \notin forgot' =>
           /\ l = "releasing" /\ a = "durable" => mem'[req[c].key].outcome = c
           /\ a = c => /\ file'[req[c].key] # NoRec /\ file'[req[c].key].outcome = c
                       /\ mem'[req[c].key] # NoRec /\ mem'[req[c].key].outcome = c
    BY <1>2, <2>1, <2>4, <2>5, <2>10
  <2>16. a \in Calls => a \in Durable /\ req'[a].key = req[c].key /\ req'[a].fp = req[c].fp
    BY <1>1, <1>4
  <2>17. forgot \subseteq forgot'
    BY <2>2
  <2>18. /\ l = "releasing" => a \in {"error", "unknown", "durable"}
         /\ a \in {"none", "unknown", "durable", "crashed", c}
         /\ l # "new" /\ l # "reserved" /\ l \in {"reserved", "releasing", "done"}
    BY <2>1
  <2> QED BY <1>1, <1>2, <2>1, <2>5, <2>8, <2>9, <2>11, <2>13, <2>14, <2>15, <2>16,
             <2>17, <2>18, CallStep
<1> QED BY <1>6, <1>7

\* The guard releases a reservation, not a receipt; a call whose outcome is
\* unknown makes the ledger forget the key.
LEMMA ReleaseKeeps ==
  ASSUME IInv, NEW c \in Calls, Release(c)
  PROVE  IInv'
<1> DEFINE held == mem[Key(c)] # NoRec /\ mem[Key(c)].outcome = Reserved
           m == IF held THEN [mem EXCEPT ![Key(c)] = NoRec] ELSE mem
           a == answer[c]
<1>1. /\ pc[c] = "releasing" /\ pc' = [pc EXCEPT ![c] = "done"]
      /\ UNCHANGED <<req, answer, log, synced>>
      /\ a = "unknown" => Key(c) \in forgot'
      /\ forgot \subseteq forgot' /\ Oldest(m) \subseteq forgot'
  BY DEF Release, Forget
<1>2. PICK ok \in BOOLEAN : Persist(m, ok)
  BY DEF Release
<1>3. Claims(c) /\ Key(c) \in Keys /\ req[c] \in Requests /\ Key(c) = req[c].key
  BY <1>1, ClaimedKeys DEF Key, Claims
<1>4. /\ req' = [req EXCEPT ![c] = req[c]]
      /\ answer' = [answer EXCEPT ![c] = a] /\ a \in {"error", "unknown", "durable"}
  BY <1>1 DEF IInv, Types, Staged
<1>5. /\ m \in Records /\ mem \in Records
      /\ \A k \in Keys : m[k] \in {mem[k], NoRec}
      /\ \A k \in Keys \ {Key(c)} : m[k] = mem[k]
      /\ ~held => m[Key(c)] = mem[Key(c)]
  BY <1>3 DEF IInv, Types, Records
<1> HIDE DEF m
<1>6. /\ mem' \in Records /\ file' \in Records
      /\ \A k \in Keys : mem'[k] \in {m[k], NoRec}
      /\ \A k \in Keys : k \notin forgot' => mem'[k] = m[k]
      /\ file' \in {file, mem'} /\ (ok => file' = mem')
  BY <1>1, <1>2, <1>5, PersistFacts DEF IInv
<1>7. Key(c) \notin forgot => \A d \in Calls \ {c} : Claims(d) => Key(d) # Key(c)
  BY <1>3 DEF IInv, Exclusive
<1>8. \A d \in OnLog : req'[d] = req[d]
  BY <1>1
<1>9. Truthful(mem)' /\ Truthful(file)'
  <2>1. Truthful(mem)'
    BY <1>1, <1>5, <1>6, <1>8, TruthStep DEF Truthful, Key
  <2>2. Truthful(file)'
    BY <1>1, <1>5, <1>6, <1>8, TruthStep DEF Truthful, Key
  <2> QED BY <2>1, <2>2
<1>10. \A d \in Calls \ {c} : Claims(d) /\ Key(d) \notin forgot' =>
           mem'[Key(d)] = mem[Key(d)] /\ file'[Key(d)] \in {file[Key(d)], mem[Key(d)]}
  BY <1>1, <1>5, <1>6, <1>7, ClaimedKeys
<1>11. "done" \in Stages /\ a \in Replies /\ a \notin Calls /\ Reserved \notin Calls
  BY <1>4, LedgerAssumption DEF Stages, Replies
<1>12. c \in OnLog => a \in {"unknown", "durable"}
  BY <1>4, <1>11 DEF IInv, Staged, Replies
<1>13. ASSUME c \in OnLog, Key(c) \notin forgot'
       PROVE  mem'[Key(c)] # NoRec /\ file'[Key(c)] # NoRec
  <2>1. mem[Key(c)].outcome = c
    BY <1>1, <1>12, <1>13 DEF IInv, Owned
  <2>2. m[Key(c)] = mem[Key(c)]
    BY <1>5, <1>11, <2>1
  <2> QED BY <1>1, <1>3, <1>6, <1>13, <2>2 DEF IInv, Guarded
<1>14. c \in OnLog => req[c].key \in forgot' \/
           /\ mem'[req[c].key] # NoRec /\ file'[req[c].key] # NoRec
           /\ \A d \in Calls \ {c} : Claims(d) => Key(d) # req[c].key
  BY <1>1, <1>3, <1>7, <1>13
<1>15. PICK b : b = a
  OBVIOUS
<1>16. /\ answer' = [answer EXCEPT ![c] = b] /\ b \in Calls \cup Replies
       /\ b \notin Calls /\ b # c
       /\ c \in OnLog => b \in {"none", "unknown", "durable", "crashed", c}
  BY <1>4, <1>11, <1>12, <1>15
<1>17. /\ pc' = [pc EXCEPT ![c] = "done"] /\ req' = [req EXCEPT ![c] = req[c]]
       /\ UNCHANGED <<log, synced>> /\ forgot \subseteq forgot' /\ "done" \in Stages
  BY <1>1, <1>4, <1>11
<1> HIDE DEF a
<1> QED BY <1>3, <1>6, <1>9, <1>10, <1>14, <1>16, <1>17, CallStep

\* Time passes.
LEMMA LapseKeeps ==
  ASSUME IInv, NEW k \in Keys, Lapse(k)
  PROVE  IInv'
<1>1. UNCHANGED <<pc, req, answer, log, synced, forgot>>
  BY DEF Lapse
<1>2. OnLog' = OnLog /\ Durable' = Durable /\ Durable \subseteq OnLog
  BY <1>1, LogFacts DEF OnLog, Durable, IInv
<1>3. /\ mem' \in Records
      /\ \A j \in Keys : mem'[j] # NoRec <=> mem[j] # NoRec
      /\ \A j \in Keys : mem'[j].fp = mem[j].fp /\ mem'[j].outcome = mem[j].outcome
  <2>1. mem \in Records
    BY DEF IInv, Types, Records
  <2>2. CASE mem' = mem
    BY <2>1, <2>2
  <2>3. CASE mem[k] # NoRec /\ mem' = [mem EXCEPT ![k].expired = TRUE]
    <3>1. PICK y : y = [mem[k] EXCEPT !.expired = TRUE]
      OBVIOUS
    <3>2. mem' = [mem EXCEPT ![k] = y]
      BY <2>3, <3>1
    <3>3. mem[k] \in Recs
      BY <2>1, <2>3 DEF Records
    <3>4. y \in Recs /\ y.fp = mem[k].fp /\ y.outcome = mem[k].outcome
      BY <3>1, <3>3 DEF Recs
    <3>5. mem' \in Records /\ mem'[k] = y /\ \A j \in Keys \ {k} : mem'[j] = mem[j]
      BY <2>1, <3>2, <3>4 DEF Records
    <3>6. mem[k] # NoRec /\ mem'[k] # NoRec
      BY <2>3, <3>4, <3>5, RecIsNotNoRec
    <3> QED BY <3>4, <3>5, <3>6
  <2> QED BY <2>2, <2>3 DEF Lapse, Ages
<1>4. /\ file' \in Records
      /\ \A j \in Keys : file'[j] # NoRec <=> file[j] # NoRec
      /\ \A j \in Keys : file'[j].fp = file[j].fp /\ file'[j].outcome = file[j].outcome
  <2>1. file \in Records
    BY DEF IInv, Types, Records
  <2>2. CASE file' = file
    BY <2>1, <2>2
  <2>3. CASE file[k] # NoRec /\ file' = [file EXCEPT ![k].expired = TRUE]
    <3>1. PICK y : y = [file[k] EXCEPT !.expired = TRUE]
      OBVIOUS
    <3>2. file' = [file EXCEPT ![k] = y]
      BY <2>3, <3>1
    <3>3. file[k] \in Recs
      BY <2>1, <2>3 DEF Records
    <3>4. y \in Recs /\ y.fp = file[k].fp /\ y.outcome = file[k].outcome
      BY <3>1, <3>3 DEF Recs
    <3>5. file' \in Records /\ file'[k] = y /\ \A j \in Keys \ {k} : file'[j] = file[j]
      BY <2>1, <3>2, <3>4 DEF Records
    <3>6. file[k] # NoRec /\ file'[k] # NoRec
      BY <2>3, <3>4, <3>5, RecIsNotNoRec
    <3> QED BY <3>4, <3>5, <3>6
  <2> QED BY <2>2, <2>3 DEF Lapse, Ages
<1>5. Types' /\ Staged'
  BY <1>1, <1>2, <1>3, <1>4 DEF IInv, Types, Staged, Records
<1>6. Truthful(mem)' /\ Truthful(file)'
  <2>1. Truthful(mem)'
    BY <1>1, <1>2, <1>3 DEF IInv, Truthful, Key
  <2>2. Truthful(file)'
    BY <1>1, <1>2, <1>4 DEF IInv, Truthful, Key
  <2> QED BY <2>1, <2>2
<1>7. \A d \in Calls : (Claims(d)' <=> Claims(d)) /\ Key(d)' = Key(d)
  BY <1>1, <1>2 DEF Claims, Key
<1>8. \A d \in Calls : answer[d] = d => Claims(d)
  BY <1>2 DEF IInv, ReplayIsReal, Claims
<1>9. Exclusive' /\ Guarded'
  BY <1>1, <1>3, <1>4, <1>7, ClaimedKeys DEF IInv, Exclusive, Guarded
<1>10. Owned'
  <2> SUFFICES ASSUME NEW d \in Calls, Key(d) \notin forgot
               PROVE  /\ pc[d] \in {"reserved", "appended", "durable"}
                           => mem'[Key(d)].fp = req[d].fp
                      /\ pc[d] = "releasing" /\ answer[d] = "durable"
                           => mem'[Key(d)].outcome = d
    BY <1>1, <1>7 DEF Owned
  <2>1. pc[d] \in {"reserved", "appended", "durable", "releasing"} => Key(d) \in Keys
    BY ClaimedKeys DEF Claims
  <2> QED BY <1>3, <2>1 DEF IInv, Owned
<1>11. AckedRecorded'
  BY <1>1, <1>3, <1>4, <1>7, <1>8, ClaimedKeys DEF IInv, AckedRecorded
<1>12. ReplayIsReal'
  BY <1>1, <1>2 DEF IInv, ReplayIsReal, Key
<1> QED BY <1>5, <1>6, <1>9, <1>10, <1>11, <1>12 DEF IInv

\* A restart reads the file: claims only go, and those of the markers that are
\* left have their record.
LEMMA CrashReopenKeeps ==
  ASSUME IInv, CrashReopen
  PROVE  IInv'
<1>1. PICK n \in synced .. Len(log) : log' = SubSeq(log, 1, n) /\ synced' = n
  BY DEF CrashReopen
<1>2. /\ log' \in Seq(Calls) /\ synced' \in Nat /\ synced' <= Len(log')
      /\ OnLog' \subseteq OnLog /\ Durable \subseteq Durable'
  BY <1>1, LogCut DEF IInv
<1>3. /\ mem' = Sweep(file) /\ file' = file /\ req' = req
      /\ forgot' = forgot \cup Swept(file)
  BY DEF CrashReopen, Forget
<1>4. /\ pc' = [c \in Calls |-> IF pc[c] = "new" THEN "new" ELSE "done"]
      /\ answer' = [c \in Calls |-> IF pc[c] \in {"new", "done"} THEN answer[c]
                                    ELSE "crashed"]
  BY DEF CrashReopen
<1>5. \A c \in Calls : /\ pc'[c] = IF pc[c] = "new" THEN "new" ELSE "done"
                       /\ answer'[c] = IF pc[c] \in {"new", "done"} THEN answer[c]
                                       ELSE "crashed"
  BY <1>4
<1>6. /\ mem' \in Records
      /\ \A k \in Keys : mem'[k] \in {file[k], NoRec}
      /\ \A k \in Keys : k \notin forgot' => mem'[k] = file[k]
  BY <1>3, SweepFacts DEF IInv, Types, Records
<1>7. Durable \subseteq OnLog /\ "crashed" \notin Calls
  BY LogFacts, LedgerAssumption DEF IInv, Replies
<1>8. Types'
  BY <1>2, <1>3, <1>4, <1>6 DEF IInv, Types, Records, Stages, Replies
<1>9. Staged'
  BY <1>2, <1>3, <1>5 DEF IInv, Staged
<1>10. Truthful(mem)' /\ Truthful(file)'
  <2>1. Truthful(file)'
    BY <1>2, <1>3 DEF IInv, Truthful, Key
  <2>2. Truthful(mem)'
    BY <1>2, <1>3, <1>6 DEF IInv, Truthful, Key
  <2> QED BY <2>1, <2>2
<1>11. \A d \in Calls : (Claims(d)' => Claims(d)) /\ Key(d)' = Key(d)
  BY <1>2, <1>3, <1>5 DEF Claims, Key
<1>12. Exclusive' /\ Guarded'
  BY <1>3, <1>6, <1>11, ClaimedKeys DEF IInv, Exclusive, Guarded
<1>13. Owned'
  BY <1>5 DEF Owned
<1>14. \A d \in Calls : answer'[d] \in Calls => answer'[d] = answer[d]
  BY <1>5, <1>7
<1>15. AckedRecorded'
  <2>1. \A d \in Calls : answer[d] = d => Claims(d)
    BY <1>7 DEF IInv, ReplayIsReal, Claims
  <2> QED BY <1>3, <1>6, <1>11, <1>14, <2>1, ClaimedKeys DEF IInv, AckedRecorded
<1>16. ReplayIsReal'
  BY <1>2, <1>3, <1>14 DEF IInv, ReplayIsReal, Key
<1> QED BY <1>8, <1>9, <1>10, <1>12, <1>13, <1>15, <1>16 DEF IInv

-----------------------------------------------------------------------------
(* The theorems *)

\* Every step keeps the invariant.
LEMMA NextIInv == IInv /\ [Next]_vars => IInv'
<1> SUFFICES ASSUME IInv, [Next]_vars PROVE IInv'
  OBVIOUS
<1>1. ASSUME NEW c \in Calls, CheckAndReserve(c) PROVE IInv'
  BY <1>1, CheckFindsKeeps, ReserveKeeps DEF CheckAndReserve
<1>2. ASSUME NEW c \in Calls, Commit(c) PROVE IInv'
  BY <1>2, FailEarlyKeeps, AppendMarkerKeeps, AppendFailsKeeps, AwaitKeeps,
     CompleteKeeps, ReleaseKeeps DEF Commit
<1>3. ASSUME NEW ok \in BOOLEAN, GroupSync(ok) PROVE IInv'
  BY <1>3, GroupSyncKeeps
<1>4. ASSUME NEW k \in Keys, Lapse(k) PROVE IInv'
  BY <1>4, LapseKeeps
<1>5. CASE CrashReopen
  BY <1>5, CrashReopenKeeps
<1>6. CASE UNCHANGED vars
  <2>1. UNCHANGED <<mem, file, pc, req, answer, log, synced, forgot>>
    BY <1>6 DEF vars
  <2>2. Types' /\ Staged' /\ Truthful(mem)' /\ Truthful(file)'
    BY <2>1 DEF IInv, Types, Staged, Truthful, OnLog, Durable, Key
  <2>3. Exclusive' /\ Guarded' /\ Owned' /\ ReplayIsReal' /\ AckedRecorded'
    BY <2>1 DEF IInv, Exclusive, Guarded, Owned, ReplayIsReal, AckedRecorded,
                Claims, OnLog, Durable, Key
  <2> QED BY <2>2, <2>3 DEF IInv
<1> QED BY <1>1, <1>2, <1>3, <1>4, <1>5, <1>6 DEF Next

\* The invariant holds throughout.
THEOREM LedgerInvariant == Spec => []IInv
BY InitIInv, NextIInv, PTL DEF Spec

\* A key that the ledger remembers has at most one durable commit, whatever
\* retries, failed writes and crashes there are.
THEOREM CommitsAtMostOnce == Spec => []AtMostOnce
<1>1. IInv => AtMostOnce
  <2> SUFFICES ASSUME IInv, NEW c \in Durable, NEW d \in Durable,
                      c # d, Key(c) = Key(d), Key(c) \notin forgot
               PROVE  FALSE
    BY DEF AtMostOnce
  <2>1. c \in Calls /\ d \in Calls /\ Claims(c) /\ Claims(d)
    BY LogFacts DEF IInv, Claims
  <2> QED BY <2>1 DEF IInv, Exclusive
<1> QED BY <1>1, LedgerInvariant, PTL

\* A receipt that is returned is that of a durable commit of the key, and of
\* the same request unless the key was forgotten.
THEOREM ReceiptsAreReal == Spec => []ReplayIsReal
<1>1. IInv => ReplayIsReal
  BY DEF IInv
<1> QED BY <1>1, LedgerInvariant, PTL

\* What complete acknowledged is in the file and in memory, until the ledger
\* forgets the key.
THEOREM AcknowledgedIsRecorded == Spec => []AckedRecorded
<1>1. IInv => AckedRecorded
  BY DEF IInv
<1> QED BY <1>1, LedgerInvariant, PTL

\* A key whose commit may be durable has a record that keeps retries out.
THEOREM InDoubtKeepsKey == Spec => []InDoubtKept
<1>1. IInv => InDoubtKept
  BY DEF IInv, InDoubtKept, Guarded, Claims, OnLog
<1> QED BY <1>1, LedgerInvariant, PTL
=============================================================================
