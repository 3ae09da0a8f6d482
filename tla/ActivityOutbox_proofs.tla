------------------------ MODULE ActivityOutbox_proofs ------------------------
(***************************************************************************)
(* Proofs about ActivityOutbox: its type invariant, its safety invariants  *)
(* and that it implements RecordedWrites.                                  *)
(***************************************************************************)
EXTENDS ActivityOutbox, TLAPS

\* A writer that is not idle holds the lock of its document.
LockHeld == \A p \in Writers : pc[p] # "idle" => lock[LockOf(DocOf(p))] = p

\* Numbers: writes are numbered from 1 and only numbers already given out are
\* in the outbox, in the log, among the landed writes or in a ticket file.
Numbered ==
  /\ nextId \in 1..(MaxWrite + 1)
  /\ \A b \in outbox \cup landed : b.id \in 1..MaxWrite /\ b.id < nextId
  /\ \A d \in Docs : \A i \in Published(d) : i < nextId
  /\ \A b \in outbox : b.text # Torn
  /\ \A b \in outbox : b.doc \in Tickets => b.text = b.id
  /\ \A d \in Tickets : content[d] = Absent \/ (content[d] \in Nat /\ content[d] < nextId)
  /\ \A d \in BulkTickets :
       bulk[d][1] = Absent \/ (bulk[d][1] \in Nat /\ bulk[d][1] < nextId)

\* What a writer knows at each step of record.
Settling(p) ==
  pc[p] = "settling" =>
    /\ Pending(DocOf(p)) \subseteq todo[p]
    /\ DocOf(p) \notin BulkTickets => seen[p] = content[DocOf(p)]

Writing(p) ==
  pc[p] \in {"ready", "torn", "failed", "landed"} =>
    /\ Pending(DocOf(p)) \subseteq {job[p].batch}
    /\ DocOf(p) \in Tickets => job[p].batch.text = job[p].batch.id
    /\ job[p].batch.id < nextId

Unwritten(p) ==
  pc[p] \in {"ready", "torn", "failed"} /\ job[p].recorded =>
    /\ job[p].batch \in outbox
    /\ \A b \in landed : b.doc = DocOf(p) => b.id # job[p].batch.id

Unrecorded(p) ==
  pc[p] \in {"ready", "torn"} /\ ~job[p].recorded => Pending(DocOf(p)) = {}

Written(p) ==
  pc[p] = "landed" =>
    /\ job[p].batch \in landed
    /\ job[p].batch \in outbox \/ job[p].batch.id \in Published(DocOf(p))

StageOf(p) ==
  /\ pc[p] # "settling" => todo[p] = {}
  /\ todo[p] \subseteq Pending(DocOf(p))
  /\ Settling(p) /\ Writing(p) /\ Unwritten(p) /\ Unrecorded(p) /\ Written(p)
  /\ pc[p] = "failed" => job[p].recorded
  /\ pc[p] = "torn" => DocOf(p) \in Groups
  /\ pc[p] = "erasing" => DocOf(p) \in retired
Stage == \A p \in Writers : StageOf(p)

\* Handlers run only while the process serves, recovery only before that.
Booting ==
  /\ phase = "recovering" => \A p \in Writers : pc[p] = "idle" /\ todo[p] = {}
  /\ phase = "serving" => unsettled = {}
  /\ unsettled \subseteq outbox

\* A file, as it is, as a writer saw it or as a bulk update found it, shows the
\* text of a batch only if the write of that batch landed.
NoPhantom ==
  /\ \A b \in outbox : content[b.doc] = b.text => b \in landed
  /\ \A p \in Writers : \A b \in todo[p] : seen[p] = b.text => b \in landed
  /\ \A b \in outbox : b.doc \in BulkTickets /\ bulk[b.doc][1] = b.text => b \in landed

\* A batch is younger than everything published of its document.
Younger == \A b \in outbox : \A i \in Published(b.doc) : i < b.id

OutboxInv ==
  /\ TypeOK /\ LockHeld /\ Numbered /\ Stage /\ Booting /\ NoPhantom
  /\ OnePendingPerDocument /\ Younger
  /\ PublishedOnlyLanded /\ LandedNeverLost /\ ActivityInWriteOrder

-------------------------------------------------------------------------------
(* Type correctness.                                                         *)

\* The parts of TypeOK that Release and Goto, and the transactions, touch.
Labels == {"idle", "settling", "ready", "torn", "landed", "failed", "erasing"}
Jobs == [kind : Kinds, batch : Batch, recorded : BOOLEAN]
WritersOK ==
  /\ lock \in [LockKeys -> Writers \cup {NoWriter}]
  /\ pc \in [Writers -> Labels]
  /\ job \in [Writers -> Jobs]
  /\ todo \in [Writers -> SUBSET Batch]
  /\ seen \in [Writers -> FileState]
DatabaseOK ==
  /\ outbox \in SUBSET Batch
  /\ activity \in [Docs -> Seq(Nat)]
  /\ queue \in SUBSET Nat
RestOK ==
  /\ content \in [Docs -> FileState]
  /\ linked \in BOOLEAN
  /\ nextId \in Nat
  /\ phase \in {"recovering", "serving"}
  /\ unsettled \in SUBSET Batch
  /\ bulk \in [BulkTickets -> FileState \X FileState]
  /\ landed \in SUBSET Batch
  /\ retired \in SUBSET Tickets

\* The conjuncts of TypeOK, regrouped.
LEMMA TypeParts == TypeOK <=> WritersOK /\ DatabaseOK /\ RestOK
BY DEF TypeOK, WritersOK, DatabaseOK, RestOK, Labels, Jobs

\* The lock of a document is one of the locks.
LEMMA LockOfKey == \A d \in Docs : LockOf(d) \in LockKeys
BY DEF Docs, LockOf, LockKeys

\* The initial records have their types.
LEMMA InitialRecords ==
  /\ NoBatch \in Batch /\ NoJob \in Jobs /\ NoBulk \in FileState \X FileState
  /\ NoJob.batch \in Batch
<1>1. (CHOOSE d \in Docs : TRUE) \in Docs
  BY OutboxAssumption
<1>2. NoBatch \in Batch
  BY <1>1 DEF NoBatch, Batch, FileState
<1>3. NoJob \in Jobs /\ NoJob.batch \in Batch
  BY <1>2 DEF NoJob, Jobs, Kinds
<1> QED
  BY <1>2, <1>3 DEF NoBulk, FileState

\* A batch is a record of its four fields.
LEMMA BatchFields ==
  ASSUME NEW b \in Batch
  PROVE  b.id \in Nat /\ b.doc \in Docs /\ b.text \in FileState /\ b.event \in BOOLEAN
BY DEF Batch

\* The document of a writer is a document.
LEMMA DocOfType ==
  ASSUME WritersOK, NEW p \in Writers
  PROVE  job[p] \in Jobs /\ job[p].batch \in Batch /\ DocOf(p) \in Docs
BY BatchFields DEF WritersOK, Jobs, DocOf

\* Release keeps the types of what it touches.
LEMMA ReleaseType ==
  ASSUME WritersOK, NEW p \in Writers, Release(p)
  PROVE  WritersOK'
<1>1. LockOf(DocOf(p)) \in LockKeys
  BY DocOfType, LockOfKey
<1> QED
  BY <1>1, InitialRecords DEF WritersOK, Release, FileState, Labels

LEMMA GotoType ==
  ASSUME WritersOK, NEW p \in Writers, NEW l \in Labels, Goto(p, l)
  PROVE  WritersOK'
BY DEF WritersOK, Goto

\* Both outcomes of settling a batch keep the types of the database.
LEMMA CommitTxType ==
  ASSUME DatabaseOK, NEW b \in Batch, CommitTx(b)
  PROVE  DatabaseOK'
<1>1. b.id \in Nat /\ b.doc \in Docs
  BY BatchFields
<1>2. activity' \in [Docs -> Seq(Nat)]
  <2>1. Append(activity[b.doc], b.id) \in Seq(Nat)
    BY <1>1 DEF DatabaseOK
  <2> QED
    BY <2>1, <1>1 DEF DatabaseOK, CommitTx
<1>3. queue' \in SUBSET Nat
  BY <1>1 DEF DatabaseOK, CommitTx
<1> QED
  BY <1>2, <1>3 DEF DatabaseOK, CommitTx

LEMMA DiscardTxType ==
  ASSUME DatabaseOK, NEW b \in Batch, DiscardTx(b)
  PROVE  DatabaseOK'
BY DEF DatabaseOK, DiscardTx

LEMMA SettleType ==
  ASSUME DatabaseOK, NEW b \in Batch, NEW t, Settle(b, t)
  PROVE  DatabaseOK'
BY CommitTxType, DiscardTxType DEF Settle

\* The initial state is well typed.
LEMMA TypeInit == Init => TypeOK
<1> SUFFICES ASSUME Init PROVE TypeOK
  OBVIOUS
<1>1. WritersOK
  BY InitialRecords DEF Init, WritersOK, FileState, Labels
<1>2. DatabaseOK
  BY DEF Init, DatabaseOK
<1>3. RestOK
  BY InitialRecords DEF Init, RestOK, FileState, Present
<1> QED
  BY <1>1, <1>2, <1>3, TypeParts

\* Every step keeps the types.
LEMMA TypeNext == TypeOK /\ [Next]_vars => TypeOK'
<1> SUFFICES ASSUME WritersOK, DatabaseOK, RestOK, [Next]_vars
             PROVE  WritersOK' /\ DatabaseOK' /\ RestOK'
  BY TypeParts, TypeParts' DEF TypeOK, WritersOK, DatabaseOK, RestOK, Labels, Jobs
<1>1. ASSUME NEW p \in Writers, Handler(p)
      PROVE  WritersOK' /\ DatabaseOK' /\ RestOK'
  <2>0. /\ job[p] \in Jobs
        /\ job[p].batch \in Batch
        /\ DocOf(p) \in Docs
        /\ LockOf(DocOf(p)) \in LockKeys
    BY DocOfType, LockOfKey
  <2>1. ASSUME NEW d \in Docs, NEW kind \in Kinds, Begin(p, d, kind)
        PROVE  WritersOK' /\ DatabaseOK' /\ RestOK'
    <3>1. [NoJob EXCEPT !.kind = kind, !.batch.doc = d] \in Jobs
      BY InitialRecords DEF Jobs, Batch
    <3>2. Pending(d) \subseteq Batch
      BY DEF Pending, DatabaseOK
    <3>3. WritersOK'
      BY <2>1, <3>1, <3>2, LockOfKey DEF Begin, WritersOK, RestOK, Labels
    <3> QED
      BY <2>1, <3>3 DEF Begin, DatabaseOK, RestOK, boot, history
  <2>2. CASE SettleOne(p)
    <3>1. PICK b \in todo[p] : Settle(b, seen[p]) /\ todo' = [todo EXCEPT ![p] = @ \ {b}]
      BY <2>2 DEF SettleOne
    <3>2. b \in Batch /\ todo[p] \ {b} \subseteq Batch
      BY <3>1 DEF WritersOK
    <3>3. DatabaseOK'
      BY <3>1, <3>2, SettleType
    <3>4. WritersOK'
      BY <2>2, <3>1, <3>2 DEF SettleOne, WritersOK
    <3> QED
      BY <2>2, <3>3, <3>4 DEF SettleOne, RestOK, boot, history
  <2>3. CASE Abort(p)
    BY <2>3, ReleaseType DEF Abort, DatabaseOK, RestOK, boot, history
  <2>4. ASSUME NEW text \in {nextId, Absent} \cup GroupTexts, NEW rows \in BOOLEAN,
               NEW wanted \in BOOLEAN, Prepare(p, text, rows, wanted)
        PROVE  WritersOK' /\ DatabaseOK' /\ RestOK'
    <3> DEFINE event == wanted /\ linked
               batch == [id |-> nextId, doc |-> DocOf(p), text |-> text, event |-> event]
               recorded == rows \/ event
    <3>1. batch \in Batch
      BY <2>0 DEF RestOK, Batch, FileState, Present
    <3>2. recorded \in BOOLEAN
      OBVIOUS
    <3>3. outbox' \subseteq Batch
      BY <2>4, <3>1 DEF Prepare, DatabaseOK
    <3>4. [job[p] EXCEPT !.batch = batch, !.recorded = recorded] \in Jobs
      BY <2>0, <3>1, <3>2 DEF Jobs
    <3>5. job' = [job EXCEPT ![p] = [@ EXCEPT !.batch = batch, !.recorded = recorded]]
      BY <2>4 DEF Prepare
    <3>6. WritersOK'
      BY <2>4, <3>4, <3>5 DEF Prepare, WritersOK, FileState, Labels
    <3> QED
      BY <2>4, <3>3, <3>6 DEF Prepare, DatabaseOK, RestOK, boot, history
  <2>5. CASE Interrupt(p)
    BY <2>5, ReleaseType DEF Interrupt, DatabaseOK, RestOK, boot, history
  <2>6. ASSUME Complete(p)
        PROVE  WritersOK' /\ DatabaseOK' /\ RestOK'
    <3>1. WritersOK'
      BY <2>6, ReleaseType, GotoType DEF Complete, Labels
    <3> QED
      BY <2>0, <2>6, <3>1, BatchFields DEF Complete, DatabaseOK, RestOK, boot
  <2>7. CASE WriteAtOnce(p)
    BY <2>6, <2>7 DEF WriteAtOnce
  <2>8. CASE Truncate(p)
    BY <2>0, <2>8, GotoType DEF Truncate, DatabaseOK, RestOK, boot, history, FileState, Labels
  <2>9. CASE FinishInPlace(p)
    BY <2>6, <2>9 DEF FinishInPlace
  <2>10. CASE WriteFails(p)
    BY <2>10, ReleaseType, GotoType DEF WriteFails, DatabaseOK, RestOK, boot, history, Labels
  <2>11. CASE DiscardFailed(p)
    <3>1. DatabaseOK'
      BY <2>0, <2>11, DiscardTxType DEF DiscardFailed, DatabaseOK
    <3> QED
      BY <2>11, <3>1, ReleaseType DEF DiscardFailed, RestOK, boot, history
  <2>12. CASE Commit(p)
    BY <2>0, <2>12, CommitTxType, ReleaseType DEF Commit, RestOK, boot, history
  <2>13. CASE CommitUnacknowledged(p)
    BY <2>0, <2>13, CommitTxType DEF CommitUnacknowledged, WritersOK, RestOK, boot, history
  <2>14. CASE CommitGivesUp(p)
    BY <2>14, ReleaseType DEF CommitGivesUp, DatabaseOK, RestOK, boot, history
  <2>15. ASSUME NEW d \in Tickets, RemoveTicket(p, d)
         PROVE  WritersOK' /\ DatabaseOK' /\ RestOK'
    <3>1. d \in Docs /\ d \in LockKeys
      BY DEF Docs, LockKeys
    <3>2. [job[p] EXCEPT !.batch.doc = d] \in Jobs
      BY <2>0, <3>1 DEF Jobs, Batch
    <3>3. job' = [job EXCEPT ![p] = [@ EXCEPT !.batch.doc = d]]
      BY <2>15 DEF RemoveTicket
    <3>4. WritersOK'
      BY <2>15, <3>1, <3>2, <3>3 DEF RemoveTicket, WritersOK, Labels
    <3> QED
      BY <2>15, <3>1, <3>4 DEF RemoveTicket, DatabaseOK, RestOK, boot, FileState
  <2>16. CASE EraseActivity(p)
    <3>1. <<>> \in Seq(Nat)
      OBVIOUS
    <3>2. activity' \in [Docs -> Seq(Nat)]
      <4>1. activity \in [Docs -> Seq(Nat)]
        BY DEF DatabaseOK
      <4> QED
        BY <2>0, <2>16, <3>1, <4>1 DEF EraseActivity
    <3>3. DatabaseOK'
      BY <2>16, <3>2 DEF EraseActivity, DatabaseOK
    <3> QED
      BY <2>16, <3>3, ReleaseType DEF EraseActivity, RestOK, boot, history
  <2> QED
    BY <1>1, <2>1, <2>2, <2>3, <2>4, <2>5, <2>7, <2>8, <2>9, <2>10, <2>11, <2>12,
       <2>13, <2>14, <2>15, <2>16 DEF Handler
<1>2. ASSUME NEW d \in BulkTickets, BulkUpdate(d)
      PROVE  WritersOK' /\ DatabaseOK' /\ RestOK'
  <2>0. d \in Docs /\ content[d] \in FileState /\ bulk[d] \in FileState \X FileState
    BY OutboxAssumption DEF Docs, RestOK
  <2>1. nextId \in FileState /\ nextId + 1 \in Nat
    BY DEF RestOK, FileState, Present
  <2>2. CASE BulkWrite(d)
    BY <2>0, <2>1, <2>2 DEF BulkWrite, WritersOK, DatabaseOK, RestOK, boot, history
  <2>3. CASE BulkRevert(d)
    <3>1. bulk[d][1] \in FileState
      BY <2>0
    <3> QED
      BY <2>0, <2>1, <2>3, <3>1, InitialRecords
         DEF BulkRevert, WritersOK, DatabaseOK, RestOK, boot, history
  <2>4. CASE BulkDone(d)
    BY <2>4, InitialRecords DEF BulkDone, WritersOK, DatabaseOK, RestOK, boot, history
  <2> QED
    BY <1>2, <2>2, <2>3, <2>4 DEF BulkUpdate
<1>3. CASE Crash
  BY <1>3, InitialRecords
     DEF Crash, WritersOK, DatabaseOK, RestOK, history, FileState, Labels
<1>4. CASE Recovery
  <2>1. CASE RecoverOne
    <3>1. PICK b \in unsettled : Settle(b, content[b.doc]) /\ unsettled' = unsettled \ {b}
      BY <2>1 DEF RecoverOne
    <3>2. b \in Batch
      BY DEF RestOK
    <3>3. DatabaseOK'
      BY <3>1, <3>2, SettleType
    <3> QED
      BY <2>1, <3>1, <3>3 DEF RecoverOne, WritersOK, RestOK, history
  <2>2. CASE RecoverSkips
    BY <2>2 DEF RecoverSkips, WritersOK, DatabaseOK, RestOK, history
  <2>3. CASE Serve
    BY <2>3 DEF Serve, WritersOK, DatabaseOK, RestOK, history
  <2> QED
    BY <1>4, <2>1, <2>2, <2>3 DEF Recovery
<1>5. CASE ToggleLink
  BY <1>5 DEF ToggleLink, WritersOK, DatabaseOK, RestOK, boot, history
<1>6. CASE UNCHANGED vars
  BY <1>6 DEF vars, WritersOK, DatabaseOK, RestOK
<1> QED
  BY <1>1, <1>2, <1>3, <1>4, <1>5, <1>6 DEF Next

\* Every reachable state is well typed.
THEOREM TypeCorrect == Spec => []TypeOK
BY TypeInit, TypeNext, PTL DEF Spec
-------------------------------------------------------------------------------
(* What a transaction does, and what a handler leaves alone.                 *)

\* Appending to a log adds one number to what is published.
LEMMA AppendPublishes ==
  ASSUME NEW s \in Seq(Nat), NEW x \in Nat
  PROVE  {Append(s, x)[i] : i \in 1..Len(Append(s, x))} = {s[i] : i \in 1..Len(s)} \cup {x}
<1> DEFINE t == Append(s, x)
<1>1. Len(t) = Len(s) + 1 /\ Len(s) \in Nat /\ t[Len(s) + 1] = x
  OBVIOUS
<1>2. \A i \in 1..Len(s) : t[i] = s[i]
  OBVIOUS
<1> HIDE DEF t
<1> QED
  BY <1>1, <1>2

\* commit: the batch leaves the outbox and its activity is published.
LEMMA CommitTxEffect ==
  ASSUME DatabaseOK, NEW b \in Batch, CommitTx(b)
  PROVE  /\ outbox' = outbox \ {b}
         /\ Published(b.doc)' = Published(b.doc) \cup {b.id}
         /\ \A d \in Docs : d # b.doc => activity'[d] = activity[d] /\ Published(d)' = Published(d)
         /\ queue' \subseteq queue \cup {b.id}
         /\ queue' # queue => b.event
<1>1. b.id \in Nat /\ b.doc \in Docs /\ activity[b.doc] \in Seq(Nat)
  BY BatchFields DEF DatabaseOK
<1>2. \A d \in Docs : d # b.doc => activity'[d] = activity[d] /\ Published(d)' = Published(d)
  BY DEF CommitTx, DatabaseOK, Published
<1>3. Published(b.doc)' = Published(b.doc) \cup {b.id}
  <2>1. CASE b.id \in Published(b.doc)
    BY <2>1 DEF CommitTx, Published
  <2>2. CASE b.id \notin Published(b.doc)
    <3>1. activity'[b.doc] = Append(activity[b.doc], b.id)
      BY <1>1, <2>2 DEF CommitTx, DatabaseOK
    <3> QED
      BY <1>1, <3>1, AppendPublishes DEF Published
  <2> QED
    BY <2>1, <2>2
<1> QED
  BY <1>2, <1>3 DEF CommitTx

\* discard: the batch leaves the outbox and nothing else happens.
LEMMA DiscardTxEffect ==
  ASSUME NEW b, DiscardTx(b)
  PROVE  /\ outbox' = outbox \ {b} /\ activity' = activity /\ queue' = queue
         /\ \A d \in Docs : Published(d)' = Published(d)
BY DEF DiscardTx, Published

\* Two busy writers never work on documents with the same lock.
LEMMA Exclusive ==
  ASSUME LockHeld, NEW p \in Writers, NEW q \in Writers,
         pc[p] # "idle", pc[q] # "idle", DocOf(p) = DocOf(q)
  PROVE  p = q
BY DEF LockHeld

\* A step of one handler leaves another handler and its document alone.
LEMMA HandlerFrame ==
  ASSUME TypeOK, LockHeld, Stage,
         NEW p \in Writers, NEW q \in Writers, p # q, Handler(p)
  PROVE  /\ pc'[q] = pc[q] /\ job'[q] = job[q] /\ todo'[q] = todo[q] /\ seen'[q] = seen[q]
         /\ pc[q] # "idle" =>
              /\ lock'[LockOf(DocOf(q))] = lock[LockOf(DocOf(q))]
              /\ content'[DocOf(q)] = content[DocOf(q)]
              /\ activity'[DocOf(q)] = activity[DocOf(q)]
              /\ Pending(DocOf(q))' = Pending(DocOf(q))
              /\ \A b \in landed' : b.doc = DocOf(q) => b \in landed
<1> USE DEF WritersOK
<1> DEFINE Others == pc'[q] = pc[q] /\ job'[q] = job[q] /\ todo'[q] = todo[q] /\ seen'[q] = seen[q]
           Frame == /\ lock'[LockOf(DocOf(q))] = lock[LockOf(DocOf(q))]
                    /\ content'[DocOf(q)] = content[DocOf(q)]
                    /\ activity'[DocOf(q)] = activity[DocOf(q)]
                    /\ Pending(DocOf(q))' = Pending(DocOf(q))
                    /\ \A b \in landed' : b.doc = DocOf(q) => b \in landed
           Goal == Others /\ (pc[q] # "idle" => Frame)
<1>0. /\ WritersOK /\ DatabaseOK /\ RestOK
      /\ job[p].batch \in Batch /\ DocOf(p) \in Docs
      /\ DocOf(q) \in Docs
  BY TypeParts, DocOfType
<1>1. ASSUME pc[p] # "idle", pc[q] # "idle"
      PROVE  DocOf(p) # DocOf(q) /\ LockOf(DocOf(p)) # LockOf(DocOf(q))
  BY <1>1 DEF LockHeld
<1>2. ASSUME Release(p) \/ \E l \in Labels : Goto(p, l), pc[p] # "idle"
      PROVE  Others /\ (pc[q] # "idle" => lock'[LockOf(DocOf(q))] = lock[LockOf(DocOf(q))])
  BY <1>0, <1>1, <1>2, LockOfKey DEF Release, Goto
<1>3. ASSUME NEW b \in Batch, b.doc = DocOf(p), pc[p] # "idle", CommitTx(b) \/ DiscardTx(b)
      PROVE  pc[q] # "idle" => /\ activity'[DocOf(q)] = activity[DocOf(q)]
                               /\ outbox' = outbox \ {b} /\ b.doc # DocOf(q)
  BY <1>0, <1>1, <1>3, CommitTxEffect, DiscardTxEffect
<1>4. ASSUME outbox' = outbox PROVE Others => Pending(DocOf(q))' = Pending(DocOf(q))
  BY <1>4 DEF Pending, DocOf
<1>5. ASSUME NEW b, b.doc # DocOf(q), outbox' = outbox \ {b} \/ outbox' = outbox \cup {b}
      PROVE  Others => Pending(DocOf(q))' = Pending(DocOf(q))
  BY <1>5 DEF Pending, DocOf
<1> USE <1>0, <1>1
<1>6. ASSUME NEW d \in Docs, NEW kind \in Kinds, Begin(p, d, kind)
      PROVE  Goal
  BY <1>4, <1>6, LockOfKey, OutboxAssumption DEF Begin, LockHeld, history
<1>7. CASE SettleOne(p)
  <2>1. PICK b \in todo[p] : Settle(b, seen[p])
    BY <1>7 DEF SettleOne
  <2>2. b \in Batch /\ b.doc = DocOf(p) /\ (CommitTx(b) \/ DiscardTx(b)) /\ pc[p] # "idle"
    BY <1>7, <2>1 DEF Stage, StageOf, Pending, SettleOne, Settle
  <2>3. Others
    BY <1>7 DEF SettleOne
  <2> QED
    BY <1>3, <1>5, <1>7, <2>2, <2>3 DEF SettleOne, history
<1>8. CASE Abort(p) \/ Interrupt(p) \/ CommitGivesUp(p) \/ WriteFails(p)
  <2>1. /\ pc[p] # "idle"
        /\ Release(p) \/ \E l \in Labels : Goto(p, l)
        /\ UNCHANGED <<content, outbox, activity, landed>>
    BY <1>8 DEF Abort, Interrupt, CommitGivesUp, WriteFails, history, Labels
  <2> QED
    BY <1>2, <1>4, <2>1
<1>9. ASSUME NEW text \in {nextId, Absent} \cup GroupTexts, NEW rows \in BOOLEAN,
             NEW wanted \in BOOLEAN, Prepare(p, text, rows, wanted)
      PROVE  Goal
  <2> DEFINE batch == [id |-> nextId, doc |-> DocOf(p), text |-> text, event |-> wanted /\ linked]
  <2>1. outbox' = outbox \/ outbox' = outbox \cup {batch}
    BY <1>9 DEF Prepare
  <2>2. pc[p] # "idle" /\ Others
    BY <1>9 DEF Prepare
  <2>3. pc[q] # "idle" => Pending(DocOf(q))' = Pending(DocOf(q))
    <3>1. batch.doc = DocOf(p)
      OBVIOUS
    <3> HIDE DEF batch
    <3> QED
      BY <1>4, <1>5, <2>1, <2>2, <3>1
  <2> QED
    BY <1>9, <2>2, <2>3 DEF Prepare, history
<1>10. ASSUME Complete(p), pc[p] # "idle"
       PROVE  Goal
  <2>1. Release(p) \/ \E l \in Labels : Goto(p, l)
    BY <1>10 DEF Complete, Labels
  <2>2. UNCHANGED <<outbox, activity>> /\ landed' \subseteq landed \cup {job[p].batch}
    BY <1>10 DEF Complete
  <2>3. pc[q] # "idle" => content'[DocOf(q)] = content[DocOf(q)]
    BY <1>10 DEF Complete, RestOK
  <2> QED
    BY <1>2, <1>4, <1>10, <2>1, <2>2, <2>3 DEF DocOf
<1>11. CASE WriteAtOnce(p) \/ FinishInPlace(p)
  BY <1>10, <1>11 DEF WriteAtOnce, FinishInPlace
<1>12. CASE Truncate(p)
  <2>1. pc[p] # "idle" /\ \E l \in Labels : Goto(p, l)
    BY <1>12 DEF Truncate, Labels
  <2> QED
    BY <1>2, <1>4, <1>12, <2>1 DEF Truncate, RestOK, history
<1>13. CASE DiscardFailed(p) \/ Commit(p)
  <2>1. pc[p] # "idle" /\ Release(p) /\ UNCHANGED <<content, landed>>
    BY <1>13 DEF DiscardFailed, Commit, history
  <2>2. CommitTx(job[p].batch) \/ DiscardTx(job[p].batch) \/ UNCHANGED <<outbox, activity>>
    BY <1>13 DEF DiscardFailed, Commit
  <2> QED
    BY <1>2, <1>3, <1>4, <1>5, <2>1, <2>2 DEF DocOf
<1>14. CASE CommitUnacknowledged(p)
  BY <1>3, <1>5, <1>14 DEF CommitUnacknowledged, DocOf, history
<1>15. ASSUME NEW d \in Tickets, RemoveTicket(p, d)
       PROVE  Goal
  <2>1. Others /\ UNCHANGED <<outbox, activity, landed>>
    BY <1>15 DEF RemoveTicket
  <2>2. pc[q] # "idle" => d # DocOf(q) /\ d # LockOf(DocOf(q))
    BY <1>15, OutboxAssumption DEF RemoveTicket, LockHeld, LockOf
  <2> QED
    BY <1>4, <1>15, <2>1, <2>2, LockOfKey DEF RemoveTicket, RestOK
<1>16. CASE EraseActivity(p)
  <2>1. pc[p] # "idle" /\ Release(p) /\ UNCHANGED <<content, outbox, landed>>
    BY <1>16 DEF EraseActivity, history
  <2>2. pc[q] # "idle" => activity'[DocOf(q)] = activity[DocOf(q)]
    BY <1>16 DEF EraseActivity, DatabaseOK
  <2> QED
    BY <1>2, <1>4, <2>1, <2>2
<1> QED
  BY <1>6, <1>7, <1>8, <1>9, <1>11, <1>12, <1>13, <1>14, <1>15, <1>16 DEF Handler
\* Prepare: what the job of the writer becomes.
LEMMA PrepareEffect ==
  ASSUME TypeOK, NEW p \in Writers, NEW text, NEW rows, NEW wanted, Prepare(p, text, rows, wanted)
  PROVE  /\ pc'[p] = "ready" /\ todo'[p] = {}
         /\ job'[p].batch = [id |-> nextId, doc |-> DocOf(p), text |-> text,
                              event |-> wanted /\ linked]
         /\ job'[p].recorded = (rows \/ (wanted /\ linked))
         /\ job'[p].kind = job[p].kind /\ DocOf(p)' = DocOf(p)
<1> DEFINE batch == [id |-> nextId, doc |-> DocOf(p), text |-> text, event |-> wanted /\ linked]
           recorded == rows \/ (wanted /\ linked)
<1>1. WritersOK /\ job[p] \in Jobs
  BY TypeParts, DocOfType
<1>2. job' = [job EXCEPT ![p] = [@ EXCEPT !.batch = batch, !.recorded = recorded]]
  BY DEF Prepare
<1>3. pc'[p] = "ready" /\ todo'[p] = {}
  BY <1>1 DEF Prepare, WritersOK
<1> HIDE DEF batch, recorded
<1>4. /\ job'[p].batch = batch /\ job'[p].recorded = recorded /\ job'[p].kind = job[p].kind
  BY <1>1, <1>2 DEF WritersOK, Jobs
<1>5. batch.doc = DocOf(p)
  BY DEF batch
<1>6. DocOf(p)' = DocOf(p)
  BY <1>4, <1>5 DEF DocOf
<1> QED
  BY <1>3, <1>4, <1>6 DEF batch, recorded

\* RemoveTicket: the writer now works on the ticket it removes.
LEMMA RemoveEffect ==
  ASSUME TypeOK, NEW p \in Writers, NEW d \in Tickets, RemoveTicket(p, d)
  PROVE  DocOf(p)' = d /\ pc'[p] = "erasing"
<1>1. WritersOK /\ job[p] \in Jobs /\ job[p].batch \in Batch
  BY TypeParts, DocOfType
<1>2. job' = [job EXCEPT ![p] = [@ EXCEPT !.batch.doc = d]]
  BY DEF RemoveTicket
<1>3. [job[p] EXCEPT !.batch.doc = d].batch.doc = d
  BY <1>1 DEF Jobs, Batch
<1>4. job'[p].batch.doc = d
  BY <1>1, <1>2, <1>3 DEF WritersOK
<1> QED
  BY <1>1, <1>4 DEF RemoveTicket, WritersOK, DocOf

\* Begin: the writer now works on the document it locked.
LEMMA BeginEffect ==
  ASSUME TypeOK, NEW p \in Writers, NEW d, NEW kind, Begin(p, d, kind)
  PROVE  /\ DocOf(p)' = d /\ pc'[p] = "settling"
         /\ todo'[p] = Pending(d) /\ seen'[p] = content[d]
<1>1. WritersOK
  BY TypeParts
<1>2. job' = [job EXCEPT ![p] = [NoJob EXCEPT !.kind = kind, !.batch.doc = d]]
  BY DEF Begin
<1>3. [NoJob EXCEPT !.kind = kind, !.batch.doc = d].batch.doc = d
  BY DEF NoJob, NoBatch
<1>4. job'[p].batch.doc = d
  BY <1>1, <1>2, <1>3 DEF WritersOK
<1> QED
  BY <1>1, <1>4 DEF Begin, WritersOK, DocOf

\* The steps of record after which the writer is idle again.
Ends(p) == Abort(p) \/ Interrupt(p) \/ CommitGivesUp(p) \/ DiscardFailed(p) \/ Commit(p)
           \/ EraseActivity(p)

-------------------------------------------------------------------------------
(* The conjuncts of the invariant, one after the other.                      *)

\* Every step keeps the lock with the writer that works on the document.
LEMMA LockHeldNext ==
  ASSUME TypeOK, LockHeld, Stage, [Next]_vars
  PROVE  LockHeld'
<1>0. WritersOK
  BY TypeParts
<1>1. ASSUME NEW p \in Writers, Handler(p)
      PROVE  LockHeld'
  <2>1. ASSUME NEW q \in Writers, q # p, pc'[q] # "idle"
        PROVE  lock'[LockOf(DocOf(q)')] = q
    <3>1. pc[q] # "idle" /\ DocOf(q)' = DocOf(q)
      BY <1>1, <2>1, HandlerFrame DEF DocOf
    <3> QED
      BY <1>1, <2>1, <3>1, HandlerFrame DEF LockHeld
  <2>2. ASSUME pc'[p] # "idle"
        PROVE  lock'[LockOf(DocOf(p)')] = p
    <3>1. ASSUME NEW d \in Docs, NEW kind \in Kinds, Begin(p, d, kind)
          PROVE  lock'[LockOf(DocOf(p)')] = p
      BY <1>0, <3>1, BeginEffect, LockOfKey DEF Begin, WritersOK
    <3>2. ASSUME NEW d \in Tickets, RemoveTicket(p, d)
          PROVE  lock'[LockOf(DocOf(p)')] = p
      <4>1. LockOf(d) = d /\ d \in LockKeys
        BY OutboxAssumption DEF LockOf, LockKeys
      <4> QED
        BY <1>0, <3>2, <4>1, RemoveEffect DEF RemoveTicket, WritersOK
    <3>3. CASE SettleOne(p) \/ CommitUnacknowledged(p) \/ Truncate(p)
      BY <1>0, <3>3
         DEF SettleOne, CommitUnacknowledged, Truncate, Goto, LockHeld, DocOf, WritersOK
    <3>4. ASSUME NEW text \in {nextId, Absent} \cup GroupTexts, NEW rows \in BOOLEAN,
                 NEW wanted \in BOOLEAN, Prepare(p, text, rows, wanted)
          PROVE  lock'[LockOf(DocOf(p)')] = p
      <4>1. DocOf(p)' = DocOf(p)
        BY <3>4, PrepareEffect
      <4> QED
        BY <3>4, <4>1 DEF Prepare, LockHeld
    <3>5. Release(p) => pc'[p] = "idle"
      BY <1>0 DEF Release, WritersOK
    <3>6. CASE Ends(p)
      BY <2>2, <3>5, <3>6
         DEF Ends, Abort, Interrupt, CommitGivesUp, DiscardFailed, Commit, EraseActivity
    <3>7. CASE WriteAtOnce(p) \/ FinishInPlace(p) \/ WriteFails(p)
      BY <2>2, <3>5, <3>7
         DEF WriteAtOnce, FinishInPlace, WriteFails, Complete, Goto, LockHeld, DocOf
    <3> QED
      BY <1>1, <3>1, <3>2, <3>3, <3>4, <3>6, <3>7 DEF Handler, Ends
  <2> QED
    BY <2>1, <2>2 DEF LockHeld
<1>2. CASE Crash
  BY <1>2 DEF Crash, LockHeld
<1>3. ASSUME UNCHANGED <<lock, pc, job>>
      PROVE  LockHeld'
  BY <1>3 DEF LockHeld, DocOf
<1> QED
  BY <1>1, <1>2, <1>3 DEF Next, BulkUpdate, BulkWrite, BulkRevert, BulkDone, Recovery, RecoverOne,
     RecoverSkips, Serve, ToggleLink, vars
\* A step that prepares no write and puts only known texts in files.
LEMMA NumberedKept ==
  ASSUME Numbered,
         nextId' = nextId, outbox' \subseteq outbox, landed' \subseteq landed \cup outbox,
         \A d \in Docs : \A i \in Published(d)' :
           i \in Published(d) \/ \E b \in outbox \cup landed : i = b.id,
         \A d \in Tickets : \/ content'[d] = content[d]
                            \/ content'[d] = Absent
                            \/ content'[d] \in Nat /\ content'[d] < nextId,
         \A d \in BulkTickets : bulk'[d][1] = bulk[d][1] \/ bulk'[d][1] = Absent
  PROVE  Numbered'
<1>1. \A b \in outbox' \cup landed' : b.id \in 1..MaxWrite /\ b.id < nextId'
  BY DEF Numbered
<1>2. \A d \in Docs : \A i \in Published(d)' : i < nextId'
  BY DEF Numbered
<1>3. nextId' \in 1..(MaxWrite + 1)
  BY DEF Numbered
<1>4. \A b \in outbox' : b.text # Torn /\ (b.doc \in Tickets => b.text = b.id)
  BY DEF Numbered
<1>5. \A d \in Tickets : content'[d] = Absent \/ (content'[d] \in Nat /\ content'[d] < nextId')
  BY DEF Numbered
<1>6. \A d \in BulkTickets :
        bulk'[d][1] = Absent \/ (bulk'[d][1] \in Nat /\ bulk'[d][1] < nextId')
  BY DEF Numbered
<1> QED
  BY <1>1, <1>2, <1>3, <1>4, <1>5, <1>6 DEF Numbered

\* The log is the same, so what is published is.
LEMMA SameLog == ASSUME activity' = activity PROVE \A d \in Docs : Published(d)' = Published(d)
BY DEF Published

\* Settling a batch of the outbox publishes at most its number.
LEMMA SettleEffect ==
  ASSUME DatabaseOK, NEW b \in Batch, CommitTx(b) \/ DiscardTx(b)
  PROVE  /\ outbox' = outbox \ {b}
         /\ \A d \in Docs : \A i \in Published(d)' : i \in Published(d) \/ i = b.id
BY CommitTxEffect, DiscardTxEffect

\* Every step numbers its writes afresh.
LEMMA NumberedNext ==
  ASSUME TypeOK, Numbered, Stage, Booting, [Next]_vars
  PROVE  Numbered'
<1>0. WritersOK /\ DatabaseOK /\ RestOK
  BY TypeParts
<1>1. ASSUME NEW p \in Writers, Handler(p)
      PROVE  Numbered'
  <2>0. job[p].batch \in Batch /\ DocOf(p) \in Docs
    BY <1>0, DocOfType
  <2>1. ASSUME NEW d \in Docs, NEW kind \in Kinds, Begin(p, d, kind)
        PROVE  Numbered'
    BY <2>1, NumberedKept, SameLog DEF Begin, history
  <2>2. CASE SettleOne(p)
    <3>1. PICK b \in todo[p] : CommitTx(b) \/ DiscardTx(b)
      BY <2>2 DEF SettleOne, Settle
    <3>2. b \in outbox /\ b \in Batch
      BY <1>0, <3>1 DEF Stage, StageOf, Pending, WritersOK
    <3> QED
      BY <1>0, <2>2, <3>1, <3>2, NumberedKept, SettleEffect DEF SettleOne, history
  <2>3. CASE Abort(p) \/ Interrupt(p) \/ CommitGivesUp(p) \/ WriteFails(p)
    BY <2>3, NumberedKept, SameLog DEF Abort, Interrupt, CommitGivesUp, WriteFails, history
  <2>4. ASSUME NEW text \in {nextId, Absent} \cup GroupTexts, NEW rows \in BOOLEAN,
               NEW wanted \in BOOLEAN, Prepare(p, text, rows, wanted)
        PROVE  Numbered'
    <3> DEFINE batch == [id |-> nextId, doc |-> DocOf(p), text |-> text,
                         event |-> wanted /\ linked]
    <3>1. outbox' \subseteq outbox \cup {batch} /\ nextId' = nextId + 1 /\ nextId <= MaxWrite
      BY <2>4 DEF Prepare
    <3>2. nextId \in Nat /\ nextId >= 1 /\ MaxWrite \in Nat
      BY OutboxAssumption DEF Numbered
    <3>3. batch.id = nextId /\ batch.doc = DocOf(p) /\ batch.text = text
      OBVIOUS
    <3>4. text # Torn
      BY <3>2, OutboxAssumption DEF Present
    <3>5. DocOf(p) \in Tickets => text = nextId
      BY <2>4 DEF Prepare, TextsFor
    <3>6. UNCHANGED <<content, activity, landed, bulk>>
      BY <2>4 DEF Prepare, history
    <3> HIDE DEF batch
    <3>7. \A b \in outbox' \cup landed' : b.id \in 1..MaxWrite /\ b.id < nextId'
      BY <3>1, <3>2, <3>3, <3>6 DEF Numbered
    <3>8. \A d \in Docs : \A i \in Published(d)' : i < nextId'
      <4>1. \A d \in Docs : Published(d) \subseteq Nat
        BY <1>0 DEF DatabaseOK, Published
      <4> QED
        BY <3>1, <3>2, <3>6, <4>1, SameLog DEF Numbered
    <3>9. \A b \in outbox' : b.text # Torn /\ (b.doc \in Tickets => b.text = b.id)
      BY <3>1, <3>3, <3>4, <3>5 DEF Numbered
    <3>10. nextId' \in 1..(MaxWrite + 1)
      BY <3>1, <3>2
    <3>11. \A d \in Tickets : content'[d] = Absent \/ (content'[d] \in Nat /\ content'[d] < nextId')
      BY <3>1, <3>2, <3>6 DEF Numbered
    <3>12. \A d \in BulkTickets :
             bulk'[d][1] = Absent \/ (bulk'[d][1] \in Nat /\ bulk'[d][1] < nextId')
      BY <3>1, <3>2, <3>6 DEF Numbered
    <3> QED
      BY <3>7, <3>8, <3>9, <3>10, <3>11, <3>12 DEF Numbered
  <2>5. CASE WriteAtOnce(p) \/ FinishInPlace(p)
    <3>1. Complete(p) /\ pc[p] \in {"ready", "torn"}
      BY <2>5 DEF WriteAtOnce, FinishInPlace
    <3>2. landed' \subseteq landed \cup outbox
      BY <3>1 DEF Complete, Stage, StageOf, Unwritten
    <3>3. \A d \in Tickets : \/ content'[d] = content[d]
                             \/ content'[d] \in Nat /\ content'[d] < nextId
      <4>1. ASSUME NEW d \in Tickets, d = DocOf(p)
            PROVE  content'[d] \in Nat /\ content'[d] < nextId
        <5>1. content'[d] = job[p].batch.text
          BY <1>0, <2>0, <3>1, <4>1 DEF Complete, RestOK
        <5>2. job[p].batch.text = job[p].batch.id /\ job[p].batch.id < nextId
          BY <3>1, <4>1 DEF Stage, StageOf, Writing
        <5> QED
          BY <2>0, <5>1, <5>2, BatchFields
      <4> QED
        BY <1>0, <3>1, <4>1 DEF Complete, RestOK, Docs
    <3> QED
      BY <3>1, <3>2, <3>3, NumberedKept, SameLog DEF Complete
  <2>6. CASE Truncate(p)
    <3>1. \A d \in Tickets : content'[d] = content[d]
      BY <1>0, <2>6, OutboxAssumption DEF Truncate, RestOK, Docs
    <3> QED
      BY <2>6, <3>1, NumberedKept, SameLog DEF Truncate, history
  <2>7. CASE DiscardFailed(p)
    <3>1. outbox' \subseteq outbox /\ activity' = activity
      BY <2>7 DEF DiscardFailed, DiscardTx
    <3> QED
      BY <2>7, <3>1, NumberedKept, SameLog DEF DiscardFailed, history
  <2>8. CASE Commit(p) \/ CommitUnacknowledged(p)
    <3>1. CommitTx(job[p].batch) /\ job[p].batch \in landed
      BY <2>8 DEF Commit, CommitUnacknowledged, Stage, StageOf, Written
    <3> QED
      BY <1>0, <2>0, <2>8, <3>1, NumberedKept, SettleEffect
         DEF Commit, CommitUnacknowledged, history
  <2>9. ASSUME NEW d \in Tickets, RemoveTicket(p, d)
        PROVE  Numbered'
    <3>1. \A e \in Tickets : content'[e] = content[e] \/ content'[e] = Absent
      BY <1>0, <2>9 DEF RemoveTicket, RestOK, Docs
    <3> QED
      BY <2>9, <3>1, NumberedKept, SameLog DEF RemoveTicket
  <2>10. CASE EraseActivity(p)
    <3>1. \A d \in Docs : Published(d)' \subseteq Published(d)
      BY <1>0, <2>10 DEF EraseActivity, DatabaseOK, Published
    <3> QED
      BY <2>10, <3>1, NumberedKept DEF EraseActivity, history
  <2> QED
    BY <1>1, <2>1, <2>2, <2>3, <2>4, <2>5, <2>6, <2>7, <2>8, <2>9, <2>10 DEF Handler
<1>2. ASSUME NEW d \in BulkTickets, BulkUpdate(d)
      PROVE  Numbered'
  <2>0. d \in Docs /\ d \in Tickets
    BY OutboxAssumption DEF Docs
  <2>1. nextId \in Nat /\ nextId >= 1 /\ MaxWrite \in Nat
    BY OutboxAssumption DEF Numbered
  <2>2. UNCHANGED <<outbox, activity, landed>>
    BY <1>2 DEF BulkUpdate, BulkWrite, BulkRevert, BulkDone, history
  <2>3. nextId' = nextId \/ (nextId' = nextId + 1 /\ nextId <= MaxWrite)
    BY <1>2 DEF BulkUpdate, BulkWrite, BulkRevert, BulkDone
  <2>4. \A e \in Docs : \A i \in Published(e)' : i < nextId'
    <3>1. \A e \in Docs : Published(e) \subseteq Nat
      BY <1>0 DEF DatabaseOK, Published
    <3> QED
      BY <2>1, <2>2, <2>3, <3>1, SameLog DEF Numbered
  <2>5. \A b \in outbox' \cup landed' : b.id \in 1..MaxWrite /\ b.id < nextId'
    BY <2>1, <2>2, <2>3 DEF Numbered
  <2>6. \A e \in Tickets : content'[e] = Absent \/ (content'[e] \in Nat /\ content'[e] < nextId')
    <3>1. \A e \in Tickets : \/ content'[e] = content[e]
                             \/ content'[e] = bulk[d][1]
                             \/ content'[e] = nextId /\ nextId' = nextId + 1
      BY <1>0, <1>2, <2>0 DEF BulkUpdate, BulkWrite, BulkRevert, BulkDone, RestOK, Docs
    <3> QED
      BY <2>1, <2>3, <3>1 DEF Numbered
  <2>7. \A e \in BulkTickets :
          bulk'[e][1] = Absent \/ (bulk'[e][1] \in Nat /\ bulk'[e][1] < nextId')
    <3>1. \A e \in BulkTickets :
            bulk'[e][1] = bulk[e][1] \/ bulk'[e][1] = Absent \/ bulk'[e][1] = content[d]
      BY <1>0, <1>2 DEF BulkUpdate, BulkWrite, BulkRevert, BulkDone, RestOK, NoBulk
    <3> QED
      BY <2>0, <2>1, <2>3, <3>1 DEF Numbered
  <2> QED
    BY <2>1, <2>2, <2>3, <2>4, <2>5, <2>6, <2>7 DEF Numbered
<1>3. CASE Crash
  BY <1>3, NumberedKept, SameLog DEF Crash, history, NoBulk
<1>4. CASE RecoverOne
  <2>1. PICK b \in unsettled : CommitTx(b) \/ DiscardTx(b)
    BY <1>4 DEF RecoverOne, Settle
  <2>2. b \in outbox /\ b \in Batch
    BY <1>0, <2>1 DEF Booting, RestOK
  <2> QED
    BY <1>0, <1>4, <2>1, <2>2, NumberedKept, SettleEffect DEF RecoverOne, history
<1>5. CASE RecoverSkips \/ Serve \/ ToggleLink
  BY <1>5, NumberedKept, SameLog DEF RecoverSkips, Serve, ToggleLink, history
<1>6. CASE UNCHANGED vars
  BY <1>6, NumberedKept, SameLog DEF vars
<1> QED
  BY <1>1, <1>2, <1>3, <1>4, <1>5, <1>6 DEF Next, Recovery
\* Histories grow, and numbers are never handed out again.
LEMMA Monotone ==
  ASSUME TypeOK, [Next]_vars
  PROVE  landed \subseteq landed' /\ retired \subseteq retired' /\ nextId' >= nextId
<1>1. nextId \in Nat
  BY DEF TypeOK
<1>2. ASSUME NEW p \in Writers, Handler(p)
      PROVE  landed \subseteq landed' /\ retired \subseteq retired' /\ nextId' >= nextId
  <2> DEFINE Goal == landed \subseteq landed' /\ retired \subseteq retired' /\ nextId' >= nextId
  <2>1. ASSUME NEW d \in Docs, NEW kind \in Kinds, Begin(p, d, kind) PROVE Goal
    BY <1>1, <2>1 DEF Begin, history
  <2>2. CASE SettleOne(p)
    BY <1>1, <2>2 DEF SettleOne, history
  <2>3. CASE Ends(p)
    BY <1>1, <2>3 DEF Ends, Abort, Interrupt, CommitGivesUp, DiscardFailed, Commit,
       EraseActivity, history
  <2>4. ASSUME NEW text, NEW rows, NEW wanted, Prepare(p, text, rows, wanted) PROVE Goal
    BY <1>1, <2>4 DEF Prepare, history
  <2>5. CASE WriteAtOnce(p) \/ FinishInPlace(p)
    BY <1>1, <2>5 DEF WriteAtOnce, FinishInPlace, Complete
  <2>6. CASE Truncate(p) \/ WriteFails(p) \/ CommitUnacknowledged(p)
    BY <1>1, <2>6 DEF Truncate, WriteFails, CommitUnacknowledged, history
  <2>7. ASSUME NEW d \in Tickets, RemoveTicket(p, d) PROVE Goal
    BY <1>1, <2>7 DEF RemoveTicket
  <2> QED
    BY <1>2, <2>1, <2>2, <2>3, <2>4, <2>5, <2>6, <2>7 DEF Handler, Ends
<1> QED
  BY <1>1, <1>2 DEF Next, BulkUpdate, BulkWrite, BulkRevert, BulkDone, Crash, Recovery, RecoverOne,
     RecoverSkips, Serve, ToggleLink, history, vars

\* A step of one handler keeps what every other writer knows.
LEMMA StageOfOthers ==
  ASSUME TypeOK, LockHeld, Stage, NEW p \in Writers, NEW q \in Writers, p # q, Handler(p)
  PROVE  StageOf(q)'
<1>0. /\ landed \subseteq landed' /\ retired \subseteq retired' /\ nextId' >= nextId
      /\ nextId \in Nat /\ nextId' \in Nat
  BY Monotone, TypeNext DEF Next, TypeOK
<1>1. CASE pc[q] = "idle"
  <2>1. pc'[q] = "idle" /\ todo'[q] = {}
    BY <1>1, HandlerFrame DEF Stage, StageOf
  <2> QED
    BY <2>1 DEF StageOf, Settling, Writing, Unwritten, Unrecorded, Written
<1>2. CASE pc[q] # "idle"
  <2>1. /\ pc'[q] = pc[q] /\ job'[q] = job[q] /\ todo'[q] = todo[q] /\ seen'[q] = seen[q]
        /\ DocOf(q)' = DocOf(q)
        /\ content'[DocOf(q)] = content[DocOf(q)]
        /\ activity'[DocOf(q)] = activity[DocOf(q)]
        /\ Pending(DocOf(q))' = Pending(DocOf(q))
        /\ \A b \in landed' : b.doc = DocOf(q) => b \in landed
    BY <1>2, HandlerFrame DEF DocOf
  <2>2. Published(DocOf(q))' = Published(DocOf(q))
    BY <2>1 DEF Published
  <2>3. StageOf(q)
    BY DEF Stage
  <2>4. job[q].batch \in Batch /\ job[q].batch.id \in Nat
    BY TypeParts, DocOfType, BatchFields
  <2>5. job[q].batch \in outbox => job'[q].batch \in outbox'
    BY <2>1 DEF Pending, DocOf
  <2>6. Settling(q)'
    BY <2>1, <2>3 DEF StageOf, Settling
  <2>7. Writing(q)'
    BY <1>0, <2>1, <2>3, <2>4 DEF StageOf, Writing
  <2>8. Unwritten(q)' /\ Unrecorded(q)'
    BY <2>1, <2>3, <2>5 DEF StageOf, Unwritten, Unrecorded
  <2>9. Written(q)'
    BY <1>0, <2>1, <2>2, <2>3, <2>5 DEF StageOf, Written
  <2> QED
    BY <1>0, <2>1, <2>3, <2>6, <2>7, <2>8, <2>9 DEF StageOf
<1> QED
  BY <1>1, <1>2

\* A handler's own step takes it from one stage to the next.
LEMMA StageOfSelf ==
  ASSUME TypeOK, LockHeld, Numbered, Stage, NEW p \in Writers, Handler(p)
  PROVE  StageOf(p)'
<1>0. /\ WritersOK /\ DatabaseOK /\ RestOK
      /\ job[p] \in Jobs /\ job[p].batch \in Batch /\ DocOf(p) \in Docs
      /\ StageOf(p)
  BY TypeParts, DocOfType DEF Stage
<1>1. ASSUME NEW d \in Docs, NEW kind \in Kinds, Begin(p, d, kind)
      PROVE  StageOf(p)'
  <2>1. /\ DocOf(p)' = d /\ pc'[p] = "settling" /\ todo'[p] = Pending(d) /\ seen'[p] = content[d]
        /\ Pending(d)' = Pending(d) /\ content' = content
    BY <1>1, BeginEffect DEF Begin, Pending
  <2> QED
    BY <2>1 DEF StageOf, Settling, Writing, Unwritten, Unrecorded, Written
<1>2. CASE SettleOne(p)
  <2>1. PICK b \in todo[p] : Settle(b, seen[p]) /\ todo' = [todo EXCEPT ![p] = @ \ {b}]
    BY <1>2 DEF SettleOne
  <2>2. b \in Batch /\ outbox' = outbox \ {b}
    BY <1>0, <2>1, SettleEffect DEF WritersOK, Settle
  <2>3. /\ pc' = pc /\ DocOf(p)' = DocOf(p) /\ seen' = seen /\ content' = content
        /\ pc[p] = "settling" /\ todo'[p] = todo[p] \ {b}
    BY <1>0, <1>2, <2>1 DEF SettleOne, DocOf, WritersOK
  <2>4. Pending(DocOf(p))' = Pending(DocOf(p)) \ {b}
    BY <2>2, <2>3 DEF Pending
  <2> QED
    BY <1>0, <2>3, <2>4 DEF StageOf, Settling, Writing, Unwritten, Unrecorded, Written
<1>3. ASSUME Release(p)
      PROVE  StageOf(p)'
  <2>1. pc'[p] = "idle" /\ todo'[p] = {}
    BY <1>0, <1>3 DEF Release, WritersOK
  <2> QED
    BY <2>1 DEF StageOf, Settling, Writing, Unwritten, Unrecorded, Written
<1>4. ASSUME NEW text \in {nextId, Absent} \cup GroupTexts, NEW rows \in BOOLEAN,
             NEW wanted \in BOOLEAN, Prepare(p, text, rows, wanted)
      PROVE  StageOf(p)'
  <2> DEFINE batch == [id |-> nextId, doc |-> DocOf(p), text |-> text, event |-> wanted /\ linked]
  <2>1. /\ pc'[p] = "ready" /\ todo'[p] = {} /\ DocOf(p)' = DocOf(p)
        /\ job'[p].batch = batch /\ job'[p].recorded = (rows \/ (wanted /\ linked))
    BY <1>4, PrepareEffect
  <2>2. batch.id = nextId /\ batch.doc = DocOf(p) /\ batch.text = text
    OBVIOUS
  <2>3. /\ outbox' = IF rows \/ (wanted /\ linked) THEN outbox \cup {batch} ELSE outbox
        /\ nextId' = nextId + 1 /\ UNCHANGED <<content, landed>>
        /\ pc[p] = "settling" /\ todo[p] = {}
    BY <1>4 DEF Prepare, history
  <2>4. Pending(DocOf(p)) = {}
    BY <1>0, <2>3 DEF StageOf, Settling
  <2>5. DocOf(p) \in Tickets => text = nextId
    BY <1>4 DEF Prepare, TextsFor
  <2>6. nextId \in Nat
    BY <1>0 DEF RestOK
  <2> HIDE DEF batch
  <2>7. Pending(DocOf(p))' \subseteq {batch}
    BY <2>1, <2>3, <2>4 DEF Pending
  <2>8. (rows \/ (wanted /\ linked)) => batch \in outbox'
    BY <2>3
  <2>9. ~(rows \/ (wanted /\ linked)) => Pending(DocOf(p))' = {}
    BY <2>1, <2>3, <2>4 DEF Pending
  <2>10. \A b \in landed' : b.doc = DocOf(p) => b.id # batch.id
    BY <2>2, <2>3, <2>6 DEF Numbered
  <2>11. Writing(p)'
    BY <2>1, <2>2, <2>3, <2>5, <2>6, <2>7 DEF Writing
  <2>12. Unwritten(p)'
    BY <2>1, <2>8, <2>10 DEF Unwritten
  <2>13. Unrecorded(p)'
    BY <2>1, <2>9 DEF Unrecorded
  <2> QED
    BY <2>1, <2>11, <2>12, <2>13 DEF StageOf, Settling, Written
<1>5. CASE WriteAtOnce(p) \/ FinishInPlace(p)
  <2>1. Complete(p) /\ pc[p] \in {"ready", "torn"}
    BY <1>5 DEF WriteAtOnce, FinishInPlace
  <2>2. CASE ~job[p].recorded
    BY <1>3, <2>1, <2>2 DEF Complete
  <2>3. CASE job[p].recorded
    <3>1. /\ Goto(p, "landed") /\ landed' = landed \cup {job[p].batch}
          /\ UNCHANGED <<outbox, nextId>>
      BY <2>1, <2>3 DEF Complete
    <3>2. /\ pc'[p] = "landed" /\ job' = job /\ todo' = todo /\ DocOf(p)' = DocOf(p)
          /\ Pending(DocOf(p))' = Pending(DocOf(p))
      BY <1>0, <3>1 DEF Goto, WritersOK, DocOf, Pending
    <3>3. job[p].batch \in outbox'
      BY <1>0, <2>1, <2>3, <3>1 DEF StageOf, Unwritten
    <3> QED
      BY <1>0, <2>1, <3>1, <3>2, <3>3
         DEF StageOf, Settling, Writing, Unwritten, Unrecorded, Written
  <2> QED
    BY <2>2, <2>3
<1>6. ASSUME NEW l \in {"torn", "failed"}, Goto(p, l), UNCHANGED <<outbox, landed, nextId>>,
             pc[p] \in {"ready", "torn"}, l = "torn" => DocOf(p) \in Groups,
             l = "failed" => job[p].recorded
      PROVE  StageOf(p)'
  <2>1. /\ pc'[p] = l /\ job' = job /\ todo' = todo /\ DocOf(p)' = DocOf(p)
        /\ Pending(DocOf(p))' = Pending(DocOf(p))
    BY <1>0, <1>6 DEF Goto, WritersOK, DocOf, Pending
  <2> QED
    BY <1>0, <1>6, <2>1 DEF StageOf, Settling, Writing, Unwritten, Unrecorded, Written
<1>7. CASE Truncate(p)
  BY <1>6, <1>7 DEF Truncate, history
<1>8. CASE WriteFails(p)
  BY <1>3, <1>6, <1>8 DEF WriteFails, history
<1>9. CASE CommitUnacknowledged(p)
  <2>1. /\ pc[p] = "landed" /\ CommitTx(job[p].batch)
        /\ UNCHANGED <<content, pc, job, todo, nextId, landed>>
    BY <1>9 DEF CommitUnacknowledged, history
  <2>2. /\ outbox' = outbox \ {job[p].batch} /\ DocOf(p)' = DocOf(p)
        /\ job[p].batch.id \in Published(DocOf(p))'
    BY <1>0, <2>1, CommitTxEffect DEF DocOf
  <2>3. Pending(DocOf(p))' \subseteq Pending(DocOf(p))
    BY <2>2 DEF Pending
  <2>4. DocOf(p)' = DocOf(p)
    BY <2>2
  <2>5. Writing(p)'
    BY <1>0, <2>1, <2>3, <2>4 DEF StageOf, Writing
  <2>6. Written(p)'
    BY <1>0, <2>1, <2>2, <2>4 DEF StageOf, Written, Published
  <2> QED
    BY <1>0, <2>1, <2>5, <2>6 DEF StageOf, Settling, Unwritten, Unrecorded
<1>10. ASSUME NEW d \in Tickets, RemoveTicket(p, d)
       PROVE  StageOf(p)'
  <2>1. /\ DocOf(p)' = d /\ pc'[p] = "erasing" /\ todo'[p] = {} /\ d \in retired'
    BY <1>0, <1>10, RemoveEffect DEF RemoveTicket, StageOf
  <2> QED
    BY <2>1 DEF StageOf, Settling, Writing, Unwritten, Unrecorded, Written
<1>11. CASE Ends(p)
  BY <1>3, <1>11 DEF Ends, Abort, Interrupt, CommitGivesUp, DiscardFailed, Commit, EraseActivity
<1> QED
  BY <1>1, <1>2, <1>4, <1>5, <1>7, <1>8, <1>9, <1>10, <1>11 DEF Handler, Ends
\* Every step keeps what each writer knows.
LEMMA StageNext ==
  ASSUME TypeOK, LockHeld, Numbered, Stage, Booting, [Next]_vars
  PROVE  Stage'
<1>0. WritersOK /\ DatabaseOK /\ RestOK
  BY TypeParts
<1>1. ASSUME NEW p \in Writers, Handler(p)
      PROVE  Stage'
  BY <1>1, StageOfOthers, StageOfSelf DEF Stage
<1>2. ASSUME NEW d \in BulkTickets, BulkUpdate(d)
      PROVE  Stage'
  <2>1. /\ UNCHANGED <<outbox, activity, pc, job, todo, seen, landed, retired>>
        /\ nextId' >= nextId /\ nextId \in Nat /\ nextId' \in Nat
    BY <1>0, <1>2
       DEF RestOK, BulkUpdate, BulkWrite, BulkRevert, BulkDone, history
  <2>2. \A e \in Docs : e \notin BulkTickets => content'[e] = content[e]
    BY <1>0, <1>2 DEF RestOK, BulkUpdate, BulkWrite, BulkRevert, BulkDone
  <2>3. ASSUME NEW p \in Writers
        PROVE  StageOf(p)'
    <3>1. /\ DocOf(p)' = DocOf(p) /\ DocOf(p) \in Docs /\ StageOf(p)
          /\ Pending(DocOf(p))' = Pending(DocOf(p))
          /\ Published(DocOf(p))' = Published(DocOf(p))
          /\ job[p].batch.id \in Nat
      BY <1>0, <2>1, DocOfType, BatchFields DEF DocOf, Pending, Published, Stage
    <3>2. Settling(p)'
      BY <2>1, <2>2, <3>1 DEF StageOf, Settling
    <3>3. Writing(p)'
      BY <2>1, <3>1 DEF StageOf, Writing
    <3>4. Unwritten(p)' /\ Unrecorded(p)' /\ Written(p)'
      BY <2>1, <3>1 DEF StageOf, Unwritten, Unrecorded, Written
    <3> QED
      BY <2>1, <3>1, <3>2, <3>3, <3>4 DEF StageOf
  <2> QED
    BY <2>3 DEF Stage
<1>3. ASSUME \A p \in Writers : pc'[p] = "idle" /\ todo'[p] = {}
      PROVE  Stage'
  BY <1>3 DEF Stage, StageOf, Settling, Writing, Unwritten, Unrecorded, Written
<1>4. CASE Crash
  BY <1>3, <1>4 DEF Crash
<1>5. CASE RecoverOne
  <2>1. unsettled # {} /\ UNCHANGED <<pc, todo>>
    BY <1>5 DEF RecoverOne
  <2>2. phase = "recovering"
    BY <1>0, <2>1 DEF Booting, RestOK
  <2> QED
    BY <1>3, <2>1, <2>2 DEF Booting
<1>6. ASSUME UNCHANGED <<content, outbox, activity, pc, job, todo, seen, nextId, landed, retired>>
      PROVE  Stage'
  BY <1>6 DEF Stage, StageOf, Settling, Writing, Unwritten, Unrecorded, Written, DocOf, Pending,
     Published
<1>7. CASE RecoverSkips \/ Serve \/ ToggleLink \/ UNCHANGED vars
  BY <1>6, <1>7 DEF RecoverSkips, Serve, ToggleLink, history, vars
<1> QED
  BY <1>1, <1>2, <1>4, <1>5, <1>7 DEF Next, Recovery

\* Recovery and the handlers never overlap.
LEMMA BootingNext ==
  ASSUME TypeOK, Stage, Booting, [Next]_vars
  PROVE  Booting'
<1>0. WritersOK /\ DatabaseOK /\ RestOK
  BY TypeParts
<1>1. ASSUME NEW p \in Writers, Handler(p)
      PROVE  Booting'
  <2>1. pc[p] # "idle" \/ phase = "serving"
    BY <1>1 DEF Handler, Begin, SettleOne, Abort, Prepare, Interrupt, WriteAtOnce, Truncate,
       FinishInPlace, WriteFails, DiscardFailed, Commit, CommitUnacknowledged,
       CommitGivesUp, RemoveTicket, EraseActivity
  <2>2. phase = "serving" /\ unsettled = {}
    BY <1>0, <2>1 DEF Booting, RestOK
  <2>3. UNCHANGED <<phase, unsettled>>
    <3>1. ASSUME NEW d \in Docs, NEW kind \in Kinds, Begin(p, d, kind)
          PROVE  UNCHANGED <<phase, unsettled>>
      BY <3>1 DEF Begin, boot
    <3>2. ASSUME NEW text, NEW rows, NEW wanted, Prepare(p, text, rows, wanted)
          PROVE  UNCHANGED <<phase, unsettled>>
      BY <3>2 DEF Prepare, boot
    <3>3. ASSUME NEW d \in Tickets, RemoveTicket(p, d)
          PROVE  UNCHANGED <<phase, unsettled>>
      BY <3>3 DEF RemoveTicket, boot
    <3>4. CASE SettleOne(p) \/ Truncate(p) \/ CommitUnacknowledged(p) \/ WriteFails(p)
      BY <3>4 DEF SettleOne, Truncate, CommitUnacknowledged, WriteFails, boot
    <3>5. CASE WriteAtOnce(p) \/ FinishInPlace(p)
      BY <3>5 DEF WriteAtOnce, FinishInPlace, Complete, boot
    <3>6. CASE Ends(p)
      BY <3>6 DEF Ends, Abort, Interrupt, CommitGivesUp, DiscardFailed, Commit, EraseActivity, boot
    <3> QED
      BY <1>1, <3>1, <3>2, <3>3, <3>4, <3>5, <3>6 DEF Handler, Ends
  <2> QED
    BY <2>2, <2>3 DEF Booting
<1>2. CASE Crash
  BY <1>2 DEF Crash, Booting
<1>3. CASE RecoverOne
  <2>1. PICK b \in unsettled : (CommitTx(b) \/ DiscardTx(b)) /\ unsettled' = unsettled \ {b}
    BY <1>3 DEF RecoverOne, Settle
  <2>2. outbox' = outbox \ {b}
    BY <1>0, <2>1, SettleEffect DEF RestOK
  <2> QED
    BY <1>3, <2>1, <2>2 DEF RecoverOne, Booting
<1>4. CASE RecoverSkips \/ Serve \/ ToggleLink \/ UNCHANGED vars
  BY <1>4 DEF RecoverSkips, Serve, ToggleLink, Booting, vars, boot
<1>5. ASSUME NEW d \in BulkTickets, BulkUpdate(d)
      PROVE  Booting'
  BY <1>5 DEF BulkUpdate, BulkWrite, BulkRevert, BulkDone, Booting, boot
<1> QED
  BY <1>1, <1>2, <1>3, <1>4, <1>5 DEF Next, Recovery
\* No step makes a file show the text of a batch whose write did not land.
LEMMA NoPhantomNext ==
  ASSUME TypeOK, Numbered, Stage, Booting, NoPhantom, [Next]_vars
  PROVE  NoPhantom'
<1>0. WritersOK /\ DatabaseOK /\ RestOK /\ landed \subseteq landed'
  BY TypeParts, Monotone
<1>1. ASSUME content' = content, outbox' \subseteq outbox, bulk' = bulk,
             \A p \in Writers : todo'[p] \subseteq todo[p] /\ (todo'[p] # {} => seen'[p] = seen[p])
      PROVE  NoPhantom'
  BY <1>0, <1>1 DEF NoPhantom
<1>2. ASSUME NEW p \in Writers, Handler(p)
      PROVE  NoPhantom'
  <2>0. job[p].batch \in Batch /\ DocOf(p) \in Docs /\ StageOf(p)
    BY <1>0, DocOfType DEF Stage
  <2>1. ASSUME Release(p)
        PROVE  \A q \in Writers : todo'[q] \subseteq todo[q] /\ (todo'[q] # {} => seen'[q] = seen[q])
    BY <1>0, <2>1 DEF Release, WritersOK
  <2>2. ASSUME NEW d \in Docs, NEW kind \in Kinds, Begin(p, d, kind)
        PROVE  NoPhantom'
    <3>1. \A q \in Writers : q # p => todo'[q] = todo[q] /\ seen'[q] = seen[q]
      BY <1>0, <2>2 DEF Begin, WritersOK
    <3>2. todo'[p] = Pending(d) /\ seen'[p] = content[d]
      BY <2>2, BeginEffect
    <3>3. \A b \in todo'[p] : seen'[p] = b.text => b \in landed
      BY <3>2 DEF NoPhantom, Pending
    <3> QED
      BY <1>0, <2>2, <3>1, <3>3 DEF Begin, NoPhantom
  <2>3. CASE SettleOne(p)
    <3>1. PICK b \in todo[p] : CommitTx(b) \/ DiscardTx(b)
      BY <2>3 DEF SettleOne, Settle
    <3>2. outbox' \subseteq outbox
      BY <1>0, <3>1, SettleEffect DEF WritersOK
    <3> QED
      BY <1>0, <1>1, <2>3, <3>2 DEF SettleOne, WritersOK
  <2>4. ASSUME NEW text \in {nextId, Absent} \cup GroupTexts, NEW rows \in BOOLEAN,
               NEW wanted \in BOOLEAN, Prepare(p, text, rows, wanted)
        PROVE  NoPhantom'
    <3> DEFINE batch == [id |-> nextId, doc |-> DocOf(p), text |-> text,
                         event |-> wanted /\ linked]
    <3>1. /\ outbox' = outbox \/ (outbox' = outbox \cup {batch} /\ text # content[DocOf(p)])
          /\ UNCHANGED <<content, bulk, todo>>
          /\ todo[p] = {}
      BY <2>4 DEF Prepare
    <3>2. batch.text = text /\ batch.doc = DocOf(p)
      OBVIOUS
    <3>3. \A q \in Writers : q # p => seen'[q] = seen[q]
      BY <1>0, <2>4 DEF Prepare, WritersOK
    <3>4. DocOf(p) \in BulkTickets => bulk[DocOf(p)][1] # text
      <4>1. DocOf(p) \in BulkTickets => text = nextId /\ nextId \in Nat
        BY <1>0, <2>4, OutboxAssumption DEF Prepare, TextsFor, RestOK
      <4> QED
        BY <4>1, OutboxAssumption DEF Numbered, Present
    <3> HIDE DEF batch
    <3> QED
      BY <1>0, <3>1, <3>2, <3>3, <3>4 DEF NoPhantom
  <2>5. CASE WriteAtOnce(p) \/ FinishInPlace(p)
    <3>1. Complete(p) /\ pc[p] \in {"ready", "torn"} /\ todo[p] = {}
      BY <2>0, <2>5 DEF WriteAtOnce, FinishInPlace, StageOf
    <3>2. /\ outbox' = outbox /\ bulk' = bulk
          /\ \A d \in Docs : d # DocOf(p) => content'[d] = content[d]
      BY <1>0, <3>1 DEF Complete, RestOK
    <3>3. \A q \in Writers : todo'[q] \subseteq todo[q] /\ (todo'[q] # {} => seen'[q] = seen[q])
      BY <2>1, <3>1 DEF Complete, Goto
    <3>4. \A b \in Pending(DocOf(p)) : b \in landed'
      BY <2>0, <3>1 DEF Complete, StageOf, Writing, Unrecorded
    <3> QED
      BY <1>0, <3>2, <3>3, <3>4 DEF NoPhantom, Pending, RestOK, DatabaseOK, Batch
  <2>6. CASE Truncate(p)
    <3>1. \A d \in Docs : content'[d] = content[d] \/ content'[d] = Torn
      BY <1>0, <2>6 DEF Truncate, RestOK
    <3>2. UNCHANGED <<outbox, bulk, todo, seen>>
      BY <2>6 DEF Truncate, Goto
    <3>3. \A b \in outbox : b.text # Torn /\ b.doc \in Docs
      BY <1>0 DEF Numbered, DatabaseOK, Batch
    <3> QED
      BY <1>0, <3>1, <3>2, <3>3 DEF NoPhantom
  <2>7. CASE DiscardFailed(p)
    <3>1. outbox' \subseteq outbox
      BY <2>7 DEF DiscardFailed, DiscardTx
    <3> QED
      BY <1>1, <2>1, <2>7, <3>1 DEF DiscardFailed
  <2>8. CASE Commit(p) \/ CommitUnacknowledged(p)
    <3>1. outbox' \subseteq outbox
      BY <1>0, <2>0, <2>8, SettleEffect DEF Commit, CommitUnacknowledged
    <3> QED
      BY <1>1, <2>1, <2>8, <3>1 DEF Commit, CommitUnacknowledged
  <2>9. ASSUME NEW d \in Tickets, RemoveTicket(p, d)
        PROVE  NoPhantom'
    <3>1. \A e \in Docs : content'[e] = content[e] \/ (content'[e] = Absent /\ e \in Tickets)
      BY <1>0, <2>9 DEF RemoveTicket, RestOK
    <3>2. UNCHANGED <<outbox, bulk, todo, seen>>
      BY <2>9 DEF RemoveTicket
    <3>3. \A b \in outbox : b.doc \in Docs /\ (b.doc \in Tickets => b.text # Absent)
      BY <1>0, OutboxAssumption DEF Numbered, DatabaseOK, Batch, Present
    <3> QED
      BY <1>0, <3>1, <3>2, <3>3 DEF NoPhantom
  <2>10. CASE EraseActivity(p) \/ Abort(p) \/ Interrupt(p) \/ CommitGivesUp(p) \/ WriteFails(p)
    BY <1>1, <2>1, <2>10
       DEF EraseActivity, Abort, Interrupt, CommitGivesUp, WriteFails, Goto
  <2> QED
    BY <1>2, <2>2, <2>3, <2>4, <2>5, <2>6, <2>7, <2>8, <2>9, <2>10 DEF Handler
<1>3. ASSUME NEW d \in BulkTickets, BulkUpdate(d)
      PROVE  NoPhantom'
  <2>1. d \in Tickets /\ d \in Docs
    BY OutboxAssumption DEF Docs
  <2>2. UNCHANGED <<outbox, todo, seen>>
    BY <1>3 DEF BulkUpdate, BulkWrite, BulkRevert, BulkDone
  <2>3. \A b \in outbox : b.doc \in Docs /\ (b.doc \in Tickets => b.text # Absent /\ b.text # nextId)
    BY <1>0, OutboxAssumption DEF Numbered, DatabaseOK, RestOK, Batch, Present
  <2>4. \A e \in Docs : \/ content'[e] = content[e]
                        \/ e = d /\ (content'[e] = nextId \/ content'[e] = bulk[d][1])
    BY <1>0, <1>3 DEF BulkUpdate, BulkWrite, BulkRevert, BulkDone, RestOK
  <2>5. \A e \in BulkTickets :
          \/ bulk'[e][1] = bulk[e][1]
          \/ bulk'[e][1] = Absent
          \/ e = d /\ bulk'[e][1] = content[e]
    BY <1>0, <1>3 DEF BulkUpdate, BulkWrite, BulkRevert, BulkDone, RestOK, NoBulk
  <2>6. \A b \in outbox : content'[b.doc] = b.text => b \in landed
    BY <2>1, <2>3, <2>4 DEF NoPhantom
  <2>7. \A b \in outbox : b.doc \in BulkTickets /\ bulk'[b.doc][1] = b.text => b \in landed
    BY <2>1, <2>3, <2>5, OutboxAssumption DEF NoPhantom
  <2> QED
    BY <1>0, <2>2, <2>6, <2>7 DEF NoPhantom
<1>4. CASE Crash
  <2>1. \A b \in outbox : b.doc \in BulkTickets => b.text # Absent
    BY <1>0, OutboxAssumption DEF Numbered, DatabaseOK, Batch, Present
  <2> QED
    BY <1>0, <1>4, <2>1 DEF Crash, NoPhantom, NoBulk
<1>5. CASE RecoverOne
  <2>1. PICK b \in unsettled : CommitTx(b) \/ DiscardTx(b)
    BY <1>5 DEF RecoverOne, Settle
  <2>2. outbox' \subseteq outbox
    BY <1>0, <2>1, SettleEffect DEF RestOK
  <2> QED
    BY <1>1, <1>5, <2>2 DEF RecoverOne
<1>6. CASE RecoverSkips \/ Serve \/ ToggleLink \/ UNCHANGED vars
  BY <1>1, <1>6 DEF RecoverSkips, Serve, ToggleLink, vars
<1> QED
  BY <1>2, <1>3, <1>4, <1>5, <1>6 DEF Next, Recovery
-------------------------------------------------------------------------------
(* Every step does one of six things to the outbox, the log and the history. *)

\* Nothing, except that a ticket may be removed.  The file of a landed batch
\* still pending stays as it is, unless its ticket is removed or bulk updated.
StepKept ==
  /\ UNCHANGED <<outbox, activity, queue, landed>>
  /\ retired' = retired \/ \E d \in Tickets : retired' = retired \cup {d}
  /\ \A b \in outbox \cap landed :
       b.doc \in BulkTickets \cup retired' \/ content'[b.doc] = content[b.doc]

StepAnnounced(b) ==
  /\ b.id = nextId /\ nextId <= MaxWrite /\ Pending(b.doc) = {} /\ b \notin landed
  /\ outbox' = outbox \cup {b}
  /\ UNCHANGED <<activity, queue, landed, retired, content>>

StepLanded(b) ==
  /\ Pending(b.doc) = {b}
  /\ \A c \in landed : c.doc = b.doc => c.id # b.id
  /\ landed' = landed \cup {b}
  /\ content' = [content EXCEPT ![b.doc] = b.text]
  /\ UNCHANGED <<outbox, activity, queue, retired>>

StepCommitted(b) ==
  /\ b \in landed
  /\ b \in outbox \/ b.id \in Published(b.doc)
  /\ CommitTx(b)
  /\ UNCHANGED <<landed, retired, content>>

\* A landed batch is discarded only if its ticket was removed or bulk updated.
StepDiscarded(b) ==
  /\ b \in outbox
  /\ b \in landed => b.doc \in BulkTickets \cup retired
  /\ DiscardTx(b)
  /\ UNCHANGED <<landed, retired, content>>

StepErased(d) ==
  /\ d \in retired
  /\ activity' = [activity EXCEPT ![d] = <<>>]
  /\ UNCHANGED <<outbox, queue, landed, retired, content>>

OneStep ==
  \/ StepKept
  \/ \E b \in Batch : StepAnnounced(b) \/ StepLanded(b) \/ StepCommitted(b) \/ StepDiscarded(b)
  \/ \E d \in Docs : StepErased(d)

\* Settling a batch of the outbox commits it only if it landed, and discards a
\* landed one only where its file may have changed behind the outbox.
LEMMA SettleStep ==
  ASSUME TypeOK, LandedNeverLost, Younger, NEW b \in outbox, NEW t, Settle(b, t),
         t = b.text => b \in landed,
         b.doc \in BulkTickets \cup retired \/ t = content[b.doc],
         UNCHANGED <<landed, retired, content>>
  PROVE  StepCommitted(b) \/ StepDiscarded(b)
<1>1. b \in Batch /\ b.id \in Nat
  BY BatchFields DEF TypeOK
<1>2. CASE t = b.text
  BY <1>2 DEF Settle, StepCommitted
<1>3. CASE t # b.text
  <2>1. b.id \notin Published(b.doc)
    BY <1>1 DEF Younger
  <2>2. b \in landed => b.doc \in BulkTickets \cup retired
    BY <1>3, <2>1 DEF LandedNeverLost
  <2> QED
    BY <1>3, <2>2 DEF Settle, StepDiscarded
<1> QED
  BY <1>2, <1>3

\* The classification is complete.
LEMMA StepClasses ==
  ASSUME TypeOK, LockHeld, Numbered, Stage, Booting, NoPhantom, Younger, LandedNeverLost,
         [Next]_vars
  PROVE  OneStep
<1>0. WritersOK /\ DatabaseOK /\ RestOK
  BY TypeParts
<1>1. ASSUME NEW p \in Writers, Handler(p)
      PROVE  OneStep
  <2>0. job[p].batch \in Batch /\ DocOf(p) \in Docs /\ StageOf(p)
    BY <1>0, DocOfType DEF Stage
  <2>1. ASSUME NEW d \in Docs, NEW kind \in Kinds, Begin(p, d, kind) PROVE StepKept
    BY <2>1 DEF Begin, history, StepKept
  <2>2. CASE SettleOne(p)
    <3>1. PICK b \in todo[p] : Settle(b, seen[p])
      BY <2>2 DEF SettleOne
    <3>2. b \in outbox /\ b.doc = DocOf(p) /\ b \in Batch
      BY <1>0, <2>0, <3>1 DEF StageOf, Pending, WritersOK
    <3>3. seen[p] = b.text => b \in landed
      BY <3>1 DEF NoPhantom
    <3>4. b.doc \in BulkTickets \/ seen[p] = content[b.doc]
      BY <2>0, <2>2, <3>2 DEF SettleOne, StageOf, Settling
    <3>5. UNCHANGED <<landed, retired, content>>
      BY <2>2 DEF SettleOne, history
    <3> QED
      BY <3>1, <3>2, <3>3, <3>4, <3>5, SettleStep DEF OneStep
  <2>3. CASE Abort(p) \/ Interrupt(p) \/ CommitGivesUp(p) \/ WriteFails(p)
    BY <2>3 DEF Abort, Interrupt, CommitGivesUp, WriteFails, history, StepKept, OneStep
  <2>4. ASSUME NEW text \in {nextId, Absent} \cup GroupTexts, NEW rows \in BOOLEAN,
               NEW wanted \in BOOLEAN, Prepare(p, text, rows, wanted)
        PROVE  OneStep
    <3> DEFINE batch == [id |-> nextId, doc |-> DocOf(p), text |-> text,
                         event |-> wanted /\ linked]
    <3>1. /\ outbox' = outbox \/ outbox' = outbox \cup {batch}
          /\ UNCHANGED <<activity, queue, landed, retired, content>>
          /\ nextId <= MaxWrite /\ pc[p] = "settling" /\ todo[p] = {}
      BY <2>4 DEF Prepare, history
    <3>2. batch.id = nextId /\ batch.doc = DocOf(p)
      OBVIOUS
    <3>3. batch \in Batch
      BY <1>0, <2>0 DEF RestOK, Batch, FileState, Present
    <3> HIDE DEF batch
    <3>4. Pending(DocOf(p)) = {}
      BY <2>0, <3>1 DEF StageOf, Settling
    <3>5. batch \notin landed
      BY <1>0, <3>2 DEF Numbered, RestOK
    <3> QED
      BY <3>1, <3>2, <3>3, <3>4, <3>5 DEF StepAnnounced, StepKept, OneStep
  <2>5. CASE WriteAtOnce(p) \/ FinishInPlace(p)
    <3>1. Complete(p) /\ pc[p] \in {"ready", "torn"}
      BY <2>5 DEF WriteAtOnce, FinishInPlace
    <3>2. CASE job[p].recorded
      <4>1. /\ Pending(DocOf(p)) = {job[p].batch} /\ job[p].batch.doc = DocOf(p)
            /\ \A c \in landed : c.doc = DocOf(p) => c.id # job[p].batch.id
        BY <2>0, <3>1, <3>2 DEF StageOf, Writing, Unwritten, Pending, DocOf
      <4>2. StepLanded(job[p].batch)
        BY <3>1, <3>2, <4>1 DEF Complete, StepLanded, boot
      <4> QED
        BY <2>0, <4>2 DEF OneStep
    <3>3. CASE ~job[p].recorded
      <4>1. Pending(DocOf(p)) = {}
        BY <2>0, <3>1, <3>3 DEF StageOf, Unrecorded
      <4>2. \A b \in outbox : content'[b.doc] = content[b.doc]
        BY <1>0, <3>1, <4>1 DEF Complete, Pending, RestOK, DatabaseOK, Batch
      <4> QED
        BY <3>1, <3>3, <4>2 DEF Complete, StepKept, OneStep
    <3> QED
      BY <3>2, <3>3
  <2>6. CASE Truncate(p)
    <3>1. Pending(DocOf(p)) \cap landed = {}
      BY <2>0, <2>6 DEF Truncate, StageOf, Writing, Unwritten, Unrecorded, Pending
    <3>2. \A b \in outbox \cap landed : content'[b.doc] = content[b.doc]
      BY <1>0, <2>6, <3>1 DEF Truncate, Pending, RestOK, DatabaseOK, Batch
    <3> QED
      BY <2>6, <3>2 DEF Truncate, StepKept, OneStep, history
  <2>7. CASE DiscardFailed(p)
    <3>1. job[p].batch \in outbox /\ job[p].batch \notin landed
      BY <2>0, <2>7 DEF DiscardFailed, StageOf, Unwritten, DocOf
    <3> QED
      BY <2>0, <2>7, <3>1 DEF DiscardFailed, StepDiscarded, StepKept, OneStep, history
  <2>8. CASE Commit(p) \/ CommitUnacknowledged(p)
    <3>1. /\ job[p].batch \in landed
          /\ job[p].batch \in outbox \/ job[p].batch.id \in Published(DocOf(p))
      BY <2>0, <2>8 DEF Commit, CommitUnacknowledged, StageOf, Written
    <3>2. StepCommitted(job[p].batch)
      BY <2>8, <3>1 DEF Commit, CommitUnacknowledged, StepCommitted, history, DocOf
    <3> QED
      BY <2>0, <3>2 DEF OneStep
  <2>9. ASSUME NEW d \in Tickets, RemoveTicket(p, d)
        PROVE  StepKept
    <3>1. \A e \in Docs : e # d => content'[e] = content[e]
      BY <1>0, <2>9 DEF RemoveTicket, RestOK
    <3>2. \A b \in outbox : b.doc \in Docs
      BY <1>0 DEF DatabaseOK, Batch
    <3> QED
      BY <2>9, <3>1, <3>2 DEF RemoveTicket, StepKept
  <2>10. CASE EraseActivity(p)
    <3>1. DocOf(p) \in retired
      BY <2>0, <2>10 DEF EraseActivity, StageOf
    <3> QED
      BY <2>0, <2>10, <3>1 DEF EraseActivity, StepErased, StepKept, OneStep, history
  <2> QED
    BY <1>1, <2>1, <2>2, <2>3, <2>4, <2>5, <2>6, <2>7, <2>8, <2>9, <2>10 DEF Handler, OneStep
<1>2. ASSUME NEW d \in BulkTickets, BulkUpdate(d)
      PROVE  OneStep
  <2>1. \A e \in Docs : e # d => content'[e] = content[e]
    BY <1>0, <1>2 DEF BulkUpdate, BulkWrite, BulkRevert, BulkDone, RestOK
  <2>2. \A b \in outbox : b.doc \in Docs
    BY <1>0 DEF DatabaseOK, Batch
  <2>3. UNCHANGED <<outbox, activity, queue, landed, retired>>
    BY <1>2 DEF BulkUpdate, BulkWrite, BulkRevert, BulkDone, history
  <2> QED
    BY <2>1, <2>2, <2>3 DEF StepKept, OneStep
<1>3. CASE RecoverOne
  <2>1. PICK b \in unsettled : Settle(b, content[b.doc])
    BY <1>3 DEF RecoverOne
  <2>2. b \in outbox /\ b \in Batch /\ UNCHANGED <<landed, retired, content>>
    BY <1>0, <1>3, <2>1 DEF Booting, RestOK, RecoverOne, history
  <2>3. content[b.doc] = b.text => b \in landed
    BY <2>2 DEF NoPhantom
  <2> QED
    BY <2>1, <2>2, <2>3, SettleStep DEF OneStep
<1>4. CASE Crash \/ RecoverSkips \/ Serve \/ ToggleLink \/ UNCHANGED vars
  BY <1>4 DEF Crash, RecoverSkips, Serve, ToggleLink, vars, history, StepKept, OneStep
<1> QED
  BY <1>1, <1>2, <1>3, <1>4 DEF Next, Recovery
-------------------------------------------------------------------------------
(* The safety invariants, from the six kinds of step.                        *)

\* A committed batch is published after everything published before it.
LEMMA CommitAppends ==
  ASSUME TypeOK, Younger, NEW b \in Batch, StepCommitted(b)
  PROVE  \/ activity' = activity
         \/ /\ b \in outbox
            /\ activity' = [activity EXCEPT ![b.doc] = Append(@, b.id)]
            /\ \A i \in Published(b.doc) : i < b.id
BY DEF StepCommitted, CommitTx, Younger

\* One pending batch per document, and it is younger than what is published.
LEMMA OnePendingNext ==
  ASSUME TypeOK, Numbered, OnePendingPerDocument, Younger, OneStep
  PROVE  OnePendingPerDocument' /\ Younger'
<1>0. DatabaseOK
  BY TypeParts
<1>1. CASE StepKept
  BY <1>1 DEF StepKept, OnePendingPerDocument, Younger, Published
<1>2. ASSUME NEW b \in Batch, StepAnnounced(b)
      PROVE  OnePendingPerDocument' /\ Younger'
  <2>1. b.doc \in Docs
    BY BatchFields
  <2> QED
    BY <1>2, <2>1 DEF StepAnnounced, OnePendingPerDocument, Younger, Published, Pending, Numbered
<1>3. ASSUME NEW b \in Batch, StepLanded(b)
      PROVE  OnePendingPerDocument' /\ Younger'
  BY <1>3 DEF StepLanded, OnePendingPerDocument, Younger, Published
<1>4. ASSUME NEW b \in Batch, StepCommitted(b)
      PROVE  OnePendingPerDocument' /\ Younger'
  <2>1. outbox' = outbox \ {b} /\ Published(b.doc)' = Published(b.doc) \cup {b.id}
    BY <1>0, <1>4, CommitTxEffect DEF StepCommitted
  <2>2. \A d \in Docs : d # b.doc => Published(d)' = Published(d)
    BY <1>0, <1>4, CommitTxEffect DEF StepCommitted
  <2>3. OnePendingPerDocument'
    BY <2>1 DEF OnePendingPerDocument
  <2>4. ASSUME NEW c \in outbox', NEW i \in Published(c.doc)'
        PROVE  i < c.id
    <3>1. c \in outbox /\ c # b /\ c.doc \in Docs
      BY <1>0, <2>1 DEF DatabaseOK, Batch
    <3>2. CASE c.doc = b.doc
      <4>1. b \notin outbox
        BY <3>1, <3>2 DEF OnePendingPerDocument
      <4>2. b.id \in Published(b.doc)
        BY <1>4, <4>1 DEF StepCommitted
      <4>3. Published(c.doc)' = Published(b.doc)
        BY <2>1, <3>2, <4>2
      <4> QED
        BY <2>4, <3>1, <3>2, <4>3 DEF Younger
    <3>3. CASE c.doc # b.doc
      BY <2>2, <2>4, <3>1, <3>3 DEF Younger
    <3> QED
      BY <3>2, <3>3
  <2> QED
    BY <2>3, <2>4 DEF Younger
<1>5. ASSUME NEW b \in Batch, StepDiscarded(b)
      PROVE  OnePendingPerDocument' /\ Younger'
  BY <1>5 DEF StepDiscarded, DiscardTx, OnePendingPerDocument, Younger, Published
<1>6. ASSUME NEW d \in Docs, StepErased(d)
      PROVE  OnePendingPerDocument' /\ Younger'
  <2>1. \A e \in Docs : Published(e)' \subseteq Published(e)
    BY <1>0, <1>6 DEF StepErased, DatabaseOK, Published
  <2>2. \A b \in outbox : b.doc \in Docs
    BY <1>0 DEF DatabaseOK, Batch
  <2> QED
    BY <1>6, <2>1, <2>2 DEF StepErased, OnePendingPerDocument, Younger
<1> QED
  BY <1>1, <1>2, <1>3, <1>4, <1>5, <1>6 DEF OneStep

\* Only landed writes are published.
LEMMA PublishedOnlyLandedNext ==
  ASSUME TypeOK, PublishedOnlyLanded, OneStep
  PROVE  PublishedOnlyLanded'
<1> DEFINE Ids(d) == {b.id : b \in {c \in landed : c.doc = d}}
           EventIds == {b.id : b \in {c \in landed : c.event}}
<1>0. DatabaseOK
  BY TypeParts
<1>1. landed \subseteq landed'
  BY DEF OneStep, StepKept, StepAnnounced, StepLanded, StepCommitted, StepDiscarded, StepErased
<1>2. ASSUME \A d \in Docs : Published(d)' \subseteq Published(d), queue' = queue
      PROVE  PublishedOnlyLanded'
  BY <1>1, <1>2 DEF PublishedOnlyLanded
<1>3. CASE StepKept \/ \E b \in Batch : StepAnnounced(b) \/ StepLanded(b) \/ StepDiscarded(b)
  BY <1>2, <1>3 DEF StepKept, StepAnnounced, StepLanded, StepDiscarded, DiscardTx, Published
<1>4. ASSUME NEW b \in Batch, StepCommitted(b)
      PROVE  PublishedOnlyLanded'
  <2>1. /\ Published(b.doc)' = Published(b.doc) \cup {b.id}
        /\ \A d \in Docs : d # b.doc => Published(d)' = Published(d)
        /\ queue' \subseteq queue \cup {b.id}
        /\ queue' # queue => b.event
    BY <1>0, <1>4, CommitTxEffect DEF StepCommitted
  <2>2. b \in landed /\ landed' = landed
    BY <1>4 DEF StepCommitted
  <2>3. \A d \in Docs : Published(d)' \subseteq Ids(d)
    BY <2>1, <2>2 DEF PublishedOnlyLanded
  <2>4. queue' \subseteq EventIds
    BY <2>1, <2>2 DEF PublishedOnlyLanded
  <2> QED
    BY <2>2, <2>3, <2>4 DEF PublishedOnlyLanded
<1>5. ASSUME NEW d \in Docs, StepErased(d)
      PROVE  PublishedOnlyLanded'
  BY <1>0, <1>2, <1>5 DEF StepErased, DatabaseOK, Published
<1> QED
  BY <1>3, <1>4, <1>5 DEF OneStep

\* A landed write is never lost.
LEMMA LandedNeverLostNext ==
  ASSUME TypeOK, LandedNeverLost, OneStep
  PROVE  LandedNeverLost'
<1>0. DatabaseOK /\ RestOK /\ \A b \in landed : b.doc \in Docs
  BY TypeParts DEF RestOK, Batch
<1>1. CASE StepKept
  BY <1>1 DEF StepKept, LandedNeverLost, Published
<1>2. ASSUME NEW b \in Batch, StepAnnounced(b)
      PROVE  LandedNeverLost'
  BY <1>2 DEF StepAnnounced, LandedNeverLost, Published
<1>3. ASSUME NEW b \in Batch, StepLanded(b)
      PROVE  LandedNeverLost'
  <2>1. b.doc \in Docs
    BY BatchFields
  <2> QED
    BY <1>0, <1>3, <2>1 DEF StepLanded, LandedNeverLost, Published, Pending, RestOK
<1>4. ASSUME NEW b \in Batch, StepCommitted(b)
      PROVE  LandedNeverLost'
  <2>1. /\ outbox' = outbox \ {b} /\ Published(b.doc)' = Published(b.doc) \cup {b.id}
        /\ \A d \in Docs : d # b.doc => Published(d)' = Published(d)
        /\ UNCHANGED <<landed, retired, content>>
    BY <1>0, <1>4, CommitTxEffect DEF StepCommitted
  <2> QED
    BY <1>0, <2>1 DEF LandedNeverLost
<1>5. ASSUME NEW b \in Batch, StepDiscarded(b)
      PROVE  LandedNeverLost'
  BY <1>5 DEF StepDiscarded, DiscardTx, LandedNeverLost, Published
<1>6. ASSUME NEW d \in Docs, StepErased(d)
      PROVE  LandedNeverLost'
  <2>1. \A e \in Docs : e # d => Published(e)' = Published(e)
    BY <1>0, <1>6 DEF StepErased, DatabaseOK, Published
  <2> QED
    BY <1>0, <1>6, <2>1 DEF StepErased, LandedNeverLost
<1> QED
  BY <1>1, <1>2, <1>3, <1>4, <1>5, <1>6 DEF OneStep

\* Appending a greater number keeps a log increasing.
LEMMA AppendIncreasing ==
  ASSUME NEW s \in Seq(Nat), NEW x \in Nat,
         \A i, j \in 1..Len(s) : i < j => s[i] < s[j],
         \A i \in 1..Len(s) : s[i] < x
  PROVE  \A i, j \in 1..Len(Append(s, x)) : i < j => Append(s, x)[i] < Append(s, x)[j]
<1>1. Len(Append(s, x)) = Len(s) + 1 /\ Len(s) \in Nat /\ Append(s, x)[Len(s) + 1] = x
  OBVIOUS
<1>2. \A i \in 1..Len(s) : Append(s, x)[i] = s[i]
  OBVIOUS
<1> QED
  BY <1>1, <1>2

\* The log of a document follows the order of its writes.
LEMMA ActivityInWriteOrderNext ==
  ASSUME TypeOK, Younger, ActivityInWriteOrder, OneStep
  PROVE  ActivityInWriteOrder'
<1>0. DatabaseOK
  BY TypeParts
<1>1. CASE activity' = activity
  BY <1>1 DEF ActivityInWriteOrder
<1>2. ASSUME NEW b \in Batch, StepCommitted(b)
      PROVE  ActivityInWriteOrder'
  <2>1. CASE b \in outbox /\ activity' = [activity EXCEPT ![b.doc] = Append(@, b.id)]
             /\ \A i \in Published(b.doc) : i < b.id
    <3>1. b.id \in Nat /\ b.doc \in Docs /\ activity[b.doc] \in Seq(Nat)
      BY <1>0, BatchFields DEF DatabaseOK
    <3>2. /\ activity'[b.doc] = Append(activity[b.doc], b.id)
          /\ \A d \in Docs : d # b.doc => activity'[d] = activity[d]
      BY <1>0, <2>1, <3>1 DEF DatabaseOK
    <3>3. \A i \in 1..Len(activity[b.doc]) : activity[b.doc][i] < b.id
      BY <2>1 DEF Published
    <3>4. \A i, j \in 1..Len(Append(activity[b.doc], b.id)) :
            i < j => Append(activity[b.doc], b.id)[i] < Append(activity[b.doc], b.id)[j]
      BY <3>1, <3>3, AppendIncreasing DEF ActivityInWriteOrder
    <3> QED
      BY <3>2, <3>4 DEF ActivityInWriteOrder
  <2> QED
    BY <1>1, <1>2, <2>1, CommitAppends
<1>3. ASSUME NEW d \in Docs, StepErased(d)
      PROVE  ActivityInWriteOrder'
  <2>1. \A e \in Docs : activity'[e] = activity[e] \/ activity'[e] = <<>>
    BY <1>0, <1>3 DEF StepErased, DatabaseOK
  <2>2. Len(<<>>) = 0
    OBVIOUS
  <2> QED
    BY <2>1, <2>2 DEF ActivityInWriteOrder
<1> QED
  BY <1>1, <1>2, <1>3
     DEF OneStep, StepKept, StepAnnounced, StepLanded, StepDiscarded, DiscardTx
-------------------------------------------------------------------------------
(* The inductive invariant.                                                  *)

\* The invariant holds initially.
LEMMA InvInit == Init => OutboxInv
<1> SUFFICES ASSUME Init PROVE OutboxInv
  OBVIOUS
<1>1. TypeOK
  BY TypeInit
<1>2. Len(<<>>) = 0
  OBVIOUS
<1>3. \A d \in Docs : Published(d) = {}
  BY <1>2 DEF Init, Published
<1>4. LockHeld /\ Booting /\ OnePendingPerDocument /\ Younger
  BY DEF Init, LockHeld, Booting, OnePendingPerDocument, Younger
<1>5. Numbered
  <2>1. \A d \in Tickets : content[d] = Absent \/ content[d] = 0
    BY OutboxAssumption DEF Init, Docs
  <2>2. \A d \in BulkTickets : bulk[d][1] = Absent
    BY DEF Init, NoBulk
  <2>3. nextId \in 1..(MaxWrite + 1)
    BY OutboxAssumption DEF Init
  <2> QED
    BY <1>3, <2>1, <2>2, <2>3 DEF Init, Numbered
<1>6. Stage
  BY DEF Init, Stage, StageOf, Settling, Writing, Unwritten, Unrecorded, Written
<1>7. NoPhantom
  BY DEF Init, NoPhantom
<1>8. PublishedOnlyLanded /\ LandedNeverLost
  BY <1>3 DEF Init, PublishedOnlyLanded, LandedNeverLost
<1>9. ActivityInWriteOrder
  BY <1>2 DEF Init, ActivityInWriteOrder
<1> QED
  BY <1>1, <1>4, <1>5, <1>6, <1>7, <1>8, <1>9 DEF OutboxInv

\* Every step keeps the invariant.
LEMMA InvNext == OutboxInv /\ [Next]_vars => OutboxInv'
<1> SUFFICES ASSUME OutboxInv, [Next]_vars PROVE OutboxInv'
  OBVIOUS
<1> USE DEF OutboxInv
<1>1. OneStep
  BY StepClasses
<1>2. TypeOK'
  BY TypeNext
<1>3. LockHeld' /\ Numbered' /\ Stage' /\ Booting'
  BY LockHeldNext, NumberedNext, StageNext, BootingNext
<1>4. NoPhantom'
  BY NoPhantomNext
<1>5. OnePendingPerDocument' /\ Younger'
  BY <1>1, OnePendingNext
<1>6. PublishedOnlyLanded' /\ LandedNeverLost' /\ ActivityInWriteOrder'
  BY <1>1, PublishedOnlyLandedNext, LandedNeverLostNext, ActivityInWriteOrderNext
<1> QED
  BY <1>2, <1>3, <1>4, <1>5, <1>6

LEMMA Invariant == Spec => []OutboxInv
BY InvInit, InvNext, PTL DEF Spec

\* Whatever the documents, the handlers and the failures, the log and the
\* integration queue speak only of writes that reached the file.
THEOREM OnlyLandedIsPublished == Spec => []PublishedOnlyLanded
<1>1. OutboxInv => PublishedOnlyLanded
  BY DEF OutboxInv
<1> QED
  BY <1>1, Invariant, PTL

\* The activity of a document is committed once per write, in write order.
THEOREM ActivityFollowsWrites == Spec => []ActivityInWriteOrder
<1>1. OutboxInv => ActivityInWriteOrder
  BY DEF OutboxInv
<1> QED
  BY <1>1, Invariant, PTL

\* settlePending leaves the outbox with one batch per document at most.
THEOREM AtMostOnePending == Spec => []OnePendingPerDocument
<1>1. OutboxInv => OnePendingPerDocument
  BY DEF OutboxInv
<1> QED
  BY <1>1, Invariant, PTL

\* A write that landed on a document no bulk update touches is published, or
\* its batch still waits in the outbox beside the file that proves it landed.
THEOREM LandedIsKept == Spec => []LandedNeverLost
<1>1. OutboxInv => LandedNeverLost
  BY DEF OutboxInv
<1> QED
  BY <1>1, Invariant, PTL

-------------------------------------------------------------------------------
(* The outbox implements RecordedWrites.                                     *)

PendingPairs == {<<b.doc, b.id>> : b \in outbox}
LandedPairs == {<<b.doc, b.id>> : b \in landed}
PromiseVars == <<PendingPairs, LandedPairs, activity, retired>>

\* The initial states of the outbox are initial states of the promise.
LEMMA PromiseInit == Init => Promise!Init
BY DEF Init, Promise!Init

\* Each of the six kinds of step is a step of the promise or a stutter.
LEMMA PromiseNext ==
  ASSUME OutboxInv, [Next]_vars
  PROVE  [Promise!Next]_PromiseVars
<1> USE DEF OutboxInv
<1>0. DatabaseOK /\ RestOK
  BY TypeParts
<1>1. OneStep
  BY StepClasses
<1>2. \A d \in Docs : Promise!Logged(d) = Published(d)
  BY DEF Promise!Logged, Published
<1>3. ASSUME NEW b \in outbox \cup landed
      PROVE  b \in Batch /\ b.doc \in Docs /\ b.id \in 1..MaxWrite /\ b.id \in Nat
  BY <1>0, <1>3, BatchFields DEF DatabaseOK, RestOK, Numbered
<1>4. ASSUME UNCHANGED <<outbox, landed, activity, retired>>
      PROVE  UNCHANGED PromiseVars
  BY <1>4 DEF PromiseVars, PendingPairs, LandedPairs
<1>5. CASE StepKept
  <2>1. CASE retired' = retired
    BY <1>4, <1>5, <2>1 DEF StepKept
  <2>2. CASE retired' # retired
    <3>1. PICK d \in Tickets : retired' = retired \cup {d}
      BY <1>5, <2>2 DEF StepKept
    <3>2. Promise!Delete(d)
      BY <1>5, <3>1 DEF StepKept, Promise!Delete
    <3> QED
      BY <3>2 DEF Promise!Next, Docs
  <2> QED
    BY <2>1, <2>2
<1>6. ASSUME NEW b \in Batch, StepAnnounced(b)
      PROVE  Promise!Next
  <2>1. b.doc \in Docs /\ b.id \in 1..MaxWrite
    BY <1>6, OutboxAssumption, BatchFields DEF StepAnnounced, Numbered
  <2>2. \A v \in 1..MaxWrite : <<b.doc, v>> \notin PendingPairs
    BY <1>6 DEF StepAnnounced, PendingPairs, Pending
  <2>3. \A v \in Promise!Logged(b.doc) : v < b.id
    BY <1>2, <1>6, <2>1 DEF StepAnnounced, Numbered
  <2>4. <<b.doc, b.id>> \notin LandedPairs
    BY <1>3, <1>6 DEF StepAnnounced, LandedPairs, Numbered
  <2>5. PendingPairs' = PendingPairs \cup {<<b.doc, b.id>>} /\ LandedPairs' = LandedPairs
    BY <1>6 DEF StepAnnounced, PendingPairs, LandedPairs
  <2>6. Promise!Announce(b.doc, b.id)
    BY <1>6, <2>2, <2>3, <2>4, <2>5
       DEF StepAnnounced, Promise!Announce, PendingPairs, LandedPairs
  <2> QED
    BY <2>1, <2>6 DEF Promise!Next
<1>7. ASSUME NEW b \in Batch, StepLanded(b)
      PROVE  Promise!Next
  <2>1. b \in outbox
    BY <1>7 DEF StepLanded, Pending
  <2>2. <<b.doc, b.id>> \in PendingPairs
    BY <2>1 DEF PendingPairs
  <2>3. <<b.doc, b.id>> \notin LandedPairs
    BY <1>7 DEF StepLanded, LandedPairs
  <2>4. PendingPairs' = PendingPairs /\ LandedPairs' = LandedPairs \cup {<<b.doc, b.id>>}
    BY <1>7 DEF StepLanded, PendingPairs, LandedPairs
  <2>5. Promise!Land(b.doc, b.id)
    BY <1>7, <2>2, <2>3, <2>4 DEF StepLanded, Promise!Land, PendingPairs, LandedPairs
  <2> QED
    BY <1>3, <2>1, <2>5 DEF Promise!Next
<1>8. ASSUME NEW b \in outbox, outbox' = outbox \ {b}
      PROVE  PendingPairs' = PendingPairs \ {<<b.doc, b.id>>}
  BY <1>8 DEF PendingPairs, OnePendingPerDocument
<1>9. ASSUME NEW b \in Batch, StepCommitted(b)
      PROVE  [Promise!Next]_PromiseVars
  <2>1. b \in landed /\ UNCHANGED <<landed, retired>> /\ outbox' = outbox \ {b}
    BY <1>9 DEF StepCommitted, CommitTx
  <2>2. CASE b \in outbox
    <3>1. \A i \in Published(b.doc) : i < b.id
      BY <2>2 DEF Younger
    <3>2. b.id \notin Published(b.doc)
      BY <1>3, <2>2, <3>1
    <3>3. activity' = [activity EXCEPT ![b.doc] = Append(@, b.id)]
      BY <1>9, <3>2 DEF StepCommitted, CommitTx
    <3>4. <<b.doc, b.id>> \in PendingPairs \cap LandedPairs
      BY <2>1, <2>2 DEF PendingPairs, LandedPairs
    <3>5. PendingPairs' = PendingPairs \ {<<b.doc, b.id>>} /\ LandedPairs' = LandedPairs
      BY <1>8, <2>1, <2>2 DEF LandedPairs
    <3>6. Promise!Publish(b.doc, b.id)
      BY <1>2, <1>3, <2>1, <2>2, <3>1, <3>3, <3>4, <3>5
         DEF Promise!Publish, PendingPairs, LandedPairs
    <3> QED
      BY <1>3, <2>2, <3>6 DEF Promise!Next
  <2>3. CASE b \notin outbox
    <3>1. activity' = activity /\ outbox' = outbox
      BY <1>9, <2>1, <2>3 DEF StepCommitted, CommitTx
    <3> QED
      BY <1>4, <2>1, <3>1
  <2> QED
    BY <2>2, <2>3
<1>10. ASSUME NEW b \in Batch, StepDiscarded(b)
       PROVE  Promise!Next
  <2>1. /\ b \in outbox /\ UNCHANGED <<activity, landed, retired>>
        /\ outbox' = outbox \ {b}
    BY <1>10 DEF StepDiscarded, DiscardTx
  <2>2. <<b.doc, b.id>> \in PendingPairs
    BY <2>1 DEF PendingPairs
  <2>3. ASSUME <<b.doc, b.id>> \in LandedPairs
        PROVE  b.doc \in retired \cup BulkTickets
    <3>1. PICK c \in landed : c.doc = b.doc /\ c.id = b.id
      BY <2>3 DEF LandedPairs
    <3>2. b.id \notin Published(b.doc)
      BY <1>3, <2>1 DEF Younger
    <3>3. c \in outbox => c = b
      BY <2>1, <3>1 DEF OnePendingPerDocument
    <3> QED
      BY <1>10, <3>1, <3>2, <3>3 DEF LandedNeverLost, StepDiscarded
  <2>4. PendingPairs' = PendingPairs \ {<<b.doc, b.id>>} /\ LandedPairs' = LandedPairs
    BY <1>8, <2>1 DEF LandedPairs
  <2>5. Promise!Drop(b.doc, b.id)
    BY <2>1, <2>2, <2>3, <2>4 DEF Promise!Drop, PendingPairs, LandedPairs
  <2> QED
    BY <1>3, <2>1, <2>5 DEF Promise!Next
<1>11. ASSUME NEW d \in Docs, StepErased(d)
       PROVE  Promise!Next
  <2>1. Promise!Erase(d)
    BY <1>11 DEF StepErased, Promise!Erase
  <2> QED
    BY <2>1 DEF Promise!Next
<1> QED
  BY <1>1, <1>5, <1>6, <1>7, <1>9, <1>10, <1>11 DEF OneStep

\* The outbox keeps its promise: each announced write either lands and is
\* published once, in order, or never lands and is dropped.
THEOREM OutboxImplementsRecordedWrites == Spec => PromiseKept
<1>1. OutboxInv /\ [Next]_vars => [Promise!Next]_PromiseVars
  BY PromiseNext
<1> QED
  BY <1>1, PromiseInit, Invariant, PTL
     DEF Spec, PromiseKept, Promise!Spec, PromiseVars, PendingPairs, LandedPairs, Promise!vars
===============================================================================
