---------------------------- MODULE ActivityOutbox ----------------------------
(***************************************************************************)
(* The ticket activity outbox (server-core/src/activity/TicketActivity.ts) *)
(* and the document writers that go through it: tickets/TicketDocs.ts and  *)
(* groups/GroupDocs.ts over the file primitives of markdown/Markdown.ts.   *)
(*                                                                         *)
(* A writer holds the in-process lock of its document, settles the batches *)
(* an earlier writer left behind, inserts its own batch in the database    *)
(* with the hash of the text it is about to write, writes the file, and    *)
(* commits: one transaction that inserts the activity rows and the         *)
(* integration events and deletes the batch.  The file and the database    *)
(* fail separately, and the process may stop between any two steps.        *)
(*                                                                         *)
(* A text stands for its hash (contentHash is taken to be collision free). *)
(* A ticket text is the number of the write that produced it: updatedAt is *)
(* part of it.  A group text may come back: a rollback in Groups.ts writes *)
(* the old document again.                                                 *)
(***************************************************************************)
EXTENDS Naturals, Sequences

CONSTANTS
  Tickets,      \* ticket documents
  Groups,       \* group documents of the same project
  BulkTickets,  \* tickets that TicketCommands.bulkUpdate may touch
  GroupTexts,   \* texts of a group file
  Writers,      \* concurrent handlers (fibers)
  NoWriter,     \* the holder of a free lock
  GroupFiles,   \* key of the one lock over a project's group files
  Absent,       \* a file that does not exist
  Torn,         \* a file cut short by a write in place
  MaxWrite      \* bound: writes prepared in one behaviour

Docs == Tickets \cup Groups
Present == Nat \cup GroupTexts
FileState == Present \cup {Absent, Torn}

ASSUME OutboxAssumption ==
  /\ BulkTickets \subseteq Tickets
  /\ Tickets \cap Groups = {}
  /\ Docs # {}
  /\ NoWriter \notin Writers
  /\ GroupFiles \notin Tickets
  /\ GroupTexts \cap Nat = {}
  /\ Absent \notin Present
  /\ Torn \notin Present
  /\ Absent # Torn
  /\ MaxWrite \in Nat

VARIABLES
  content,    \* the file of each document
  outbox,     \* rows of ticket_activity_outbox
  activity,   \* committed batches per document, in ticket_activity.seq order
  queue,      \* ids of the batches whose event is in project_integration_event
  linked,     \* the project's integration link is active
  lock,       \* KeyedLock: holder of each key
  pc,         \* where each writer is
  job,        \* the write each writer is making
  todo,       \* settlePending: batches each writer has yet to settle
  seen,       \* settlePending: the file as each writer read it
  nextId,     \* next write number
  phase,      \* "recovering" before the HTTP layer is built, then "serving"
  unsettled,  \* recover: batches left to settle at boot
  bulk,       \* texts a running bulk update replaced and wrote, per ticket
  landed,     \* history: batches whose file write completed
  retired     \* history: ticket documents that were removed

vars == <<content, outbox, activity, queue, linked, lock, pc, job, todo, seen,
          nextId, phase, unsettled, bulk, landed, retired>>
history == <<landed, retired>>
boot == <<phase, unsettled>>

-------------------------------------------------------------------------------
Batch == [id : Nat, doc : Docs, text : FileState, event : BOOLEAN]
Kinds == {"create", "update", "delete"}
LockKeys == Tickets \cup {GroupFiles}

\* Ticket documents have a lock each; groups share one per project.
LockOf(d) == IF d \in Groups THEN GroupFiles ELSE d

NoBatch == [id |-> 0, doc |-> CHOOSE d \in Docs : TRUE, text |-> Absent,
            event |-> FALSE]
NoJob == [kind |-> "update", batch |-> NoBatch, recorded |-> FALSE]
NoBulk == <<Absent, Absent>>


\* settlePending: the batches of one document.
Pending(d) == {b \in outbox : b.doc = d}
Published(d) == {activity[d][i] : i \in 1..Len(activity[d])}
DocOf(p) == job[p].batch.doc

\* The handler ends and gives its lock back.
Release(p) ==
  /\ lock' = [lock EXCEPT ![LockOf(DocOf(p))] = NoWriter]
  /\ pc' = [pc EXCEPT ![p] = "idle"]
  /\ job' = [job EXCEPT ![p] = NoJob]
  /\ todo' = [todo EXCEPT ![p] = {}]
  /\ seen' = [seen EXCEPT ![p] = Absent]

Goto(p, label) ==
  /\ pc' = [pc EXCEPT ![p] = label]
  /\ UNCHANGED <<lock, job, todo, seen>>

\* Fault: a batch not deleted when committed.
CommitTxKeepsBatch(b) ==
  /\ activity' = IF b.id \in Published(b.doc)
                 THEN activity
                 ELSE [activity EXCEPT ![b.doc] = Append(@, b.id)]
  /\ queue' = IF b.event /\ linked THEN queue \cup {b.id} ELSE queue
  /\ UNCHANGED outbox

\* commit: one transaction.  Rows and events carry ids made when the batch was
\* built and conflicts are ignored, so committing a batch again adds nothing;
\* an event is queued only while its link is active.
CommitTx(b) ==
  /\ activity' = IF b.id \in Published(b.doc)
                 THEN activity
                 ELSE [activity EXCEPT ![b.doc] = Append(@, b.id)]
  /\ queue' = IF b.event /\ linked THEN queue \cup {b.id} ELSE queue
  /\ outbox' = outbox \ {b}

DiscardTx(b) ==
  /\ outbox' = outbox \ {b}
  /\ UNCHANGED <<activity, queue>>

\* Faults: the file not compared with the batch.
SettleCommitsAll(b, text) == CommitTx(b)
SettleDiscardsAll(b, text) == DiscardTx(b)

\* settle: the file decides whether the write of the batch landed.
Settle(b, text) == IF text = b.text THEN CommitTx(b) ELSE DiscardTx(b)

Init ==
  /\ content \in [Docs -> {Absent, 0} \cup GroupTexts]
  /\ \A d \in Docs : IF d \in Groups THEN content[d] # 0
                                     ELSE content[d] \notin GroupTexts
  /\ outbox = {}
  /\ activity = [d \in Docs |-> <<>>]
  /\ queue = {}
  /\ linked \in BOOLEAN
  /\ lock = [k \in LockKeys |-> NoWriter]
  /\ pc = [p \in Writers |-> "idle"]
  /\ job = [p \in Writers |-> NoJob]
  /\ todo = [p \in Writers |-> {}]
  /\ seen = [p \in Writers |-> Absent]
  /\ nextId = 1
  /\ phase = "serving"
  /\ unsettled = {}
  /\ bulk = [d \in BulkTickets |-> NoBulk]
  /\ landed = {}
  /\ retired = {}

-------------------------------------------------------------------------------
(* record: the steps of a document writer.                                   *)

\* A ticket number is reserved once and never handed out again; a group is
\* created under the lock that covers the listing its id comes from.  An
\* update or a removal reads the document first, which fails on a torn file.
Admissible(d, kind) ==
  CASE kind = "create" -> IF d \in Groups THEN content[d] = Absent
                                          ELSE d \notin retired
    [] kind = "update" -> content[d] \in Present
    [] kind = "delete" -> d \in Groups /\ content[d] \in Present

\* The lock is taken and settlePending reads the document's batches and file.
Begin(p, d, kind) ==
  /\ phase = "serving"
  /\ pc[p] = "idle"
  /\ lock[LockOf(d)] = NoWriter
  /\ Admissible(d, kind)
  /\ lock' = [lock EXCEPT ![LockOf(d)] = p]
  /\ pc' = [pc EXCEPT ![p] = "settling"]
  /\ job' = [job EXCEPT ![p] = [NoJob EXCEPT !.kind = kind, !.batch.doc = d]]
  /\ todo' = [todo EXCEPT ![p] = Pending(d)]
  /\ seen' = [seen EXCEPT ![p] = content[d]]
  /\ UNCHANGED <<content, outbox, activity, queue, linked, nextId, bulk>>
  /\ UNCHANGED <<boot, history>>

SettleOne(p) ==
  /\ pc[p] = "settling"
  /\ \E b \in todo[p] :
       /\ Settle(b, seen[p])
       /\ todo' = [todo EXCEPT ![p] = @ \ {b}]
  /\ UNCHANGED <<content, linked, lock, pc, job, seen, nextId, bulk>>
  /\ UNCHANGED <<boot, history>>

\* A read or a transaction of settlePending dies, the transform of the update
\* refuses the change, or the insert of the new batch dies.
Abort(p) ==
  /\ pc[p] = "settling"
  /\ Release(p)
  /\ UNCHANGED <<content, outbox, activity, queue, linked, nextId, bulk>>
  /\ UNCHANGED <<boot, history>>

\* The texts a write of the document may carry.
TextsFor(d, kind) ==
  IF d \in Tickets THEN {nextId}
  ELSE IF kind = "delete" THEN {Absent} ELSE GroupTexts

\* The batch is inserted when there are rows or a subscribed event; creating a
\* ticket yields an event and no rows, and without either the file is written
\* with no batch.  A write with rows or an event changes the text.
Prepare(p, text, rows, wanted) ==
  LET d     == DocOf(p)
      event == wanted /\ linked
      batch == [id |-> nextId, doc |-> d, text |-> text, event |-> event]
      recorded == rows \/ event
  IN
  /\ pc[p] = "settling"
  /\ todo[p] = {}
  /\ nextId <= MaxWrite
  /\ text \in TextsFor(d, job[p].kind)
  /\ rows => ~(d \in Tickets /\ job[p].kind = "create")
  /\ recorded => text # content[d]
  /\ outbox' = IF recorded THEN outbox \cup {batch} ELSE outbox
  /\ job' = [job EXCEPT ![p].batch = batch, ![p].recorded = recorded]
  /\ pc' = [pc EXCEPT ![p] = "ready"]
  /\ seen' = [seen EXCEPT ![p] = Absent]
  /\ nextId' = nextId + 1
  /\ UNCHANGED <<content, activity, queue, linked, lock, todo, bulk>>
  /\ UNCHANGED <<boot, history>>

\* The request of a group change is interrupted after the insert and before the
\* uninterruptible part.  TicketDocs makes the whole of record uninterruptible.
Interrupt(p) ==
  /\ pc[p] = "ready"
  /\ DocOf(p) \in Groups
  /\ Release(p)
  /\ UNCHANGED <<content, outbox, activity, queue, linked, nextId, bulk>>
  /\ UNCHANGED <<boot, history>>

\* The file now holds the text of the writer's job.
Complete(p) ==
  /\ content' = [content EXCEPT ![DocOf(p)] = job[p].batch.text]
  /\ IF job[p].recorded
       THEN landed' = landed \cup {job[p].batch} /\ Goto(p, "landed")
       ELSE UNCHANGED landed /\ Release(p)
  /\ UNCHANGED <<outbox, activity, queue, linked, nextId, bulk, retired, boot>>

\* A ticket file is written beside and renamed over, or linked when it is new;
\* a group file is removed in one step.
WriteAtOnce(p) ==
  /\ pc[p] = "ready"
  /\ DocOf(p) \in Tickets \/ job[p].kind = "delete"
  /\ job[p].kind = "create" => content[DocOf(p)] = Absent
  /\ Complete(p)

\* A group file is truncated and written in place.
Truncate(p) ==
  /\ pc[p] = "ready"
  /\ DocOf(p) \in Groups
  /\ job[p].kind # "delete"
  /\ content' = [content EXCEPT ![DocOf(p)] = Torn]
  /\ Goto(p, "torn")
  /\ UNCHANGED <<outbox, activity, queue, linked, nextId, bulk, boot, history>>

FinishInPlace(p) ==
  /\ pc[p] = "torn"
  /\ Complete(p)

\* An I/O error, or the id is taken: the file keeps what it had, or what part
\* of it was written in place.
WriteFails(p) ==
  /\ pc[p] \in {"ready", "torn"}
  /\ IF job[p].recorded THEN Goto(p, "failed") ELSE Release(p)
  /\ UNCHANGED <<content, outbox, activity, queue, linked, nextId, bulk>>
  /\ UNCHANGED <<boot, history>>

\* onError(discard), which may die in turn and leave the batch behind.
DiscardFailed(p) ==
  /\ pc[p] = "failed"
  /\ \/ DiscardTx(job[p].batch)
     \/ UNCHANGED <<outbox, activity, queue>>
  /\ Release(p)
  /\ UNCHANGED <<content, linked, nextId, bulk, boot, history>>

Commit(p) ==
  /\ pc[p] = "landed"
  /\ CommitTx(job[p].batch)
  /\ Release(p)
  /\ UNCHANGED <<content, linked, nextId, bulk, boot, history>>

\* The transaction commits but its answer is lost: the writer retries.
CommitUnacknowledged(p) ==
  /\ pc[p] = "landed"
  /\ CommitTx(job[p].batch)
  /\ UNCHANGED <<content, linked, lock, pc, job, todo, seen, nextId, bulk>>
  /\ UNCHANGED <<boot, history>>

\* Every retry failed; the error is logged and the batch stays.
CommitGivesUp(p) ==
  /\ pc[p] = "landed"
  /\ Release(p)
  /\ UNCHANGED <<content, outbox, activity, queue, linked, nextId, bulk>>
  /\ UNCHANGED <<boot, history>>

-------------------------------------------------------------------------------
(* TicketDocs.remove: the file, then the activity rows; never the outbox.    *)

RemoveTicket(p, d) ==
  /\ phase = "serving"
  /\ pc[p] = "idle"
  /\ lock[d] = NoWriter
  /\ content[d] \in Present
  /\ lock' = [lock EXCEPT ![d] = p]
  /\ job' = [job EXCEPT ![p].batch.doc = d]
  /\ pc' = [pc EXCEPT ![p] = "erasing"]
  /\ content' = [content EXCEPT ![d] = Absent]
  /\ retired' = retired \cup {d}
  /\ UNCHANGED <<outbox, activity, queue, linked, todo, seen, nextId, bulk>>
  /\ UNCHANGED <<boot, landed>>

EraseActivity(p) ==
  /\ pc[p] = "erasing"
  /\ \/ activity' = [activity EXCEPT ![DocOf(p)] = <<>>]
     \/ UNCHANGED activity
  /\ Release(p)
  /\ UNCHANGED <<content, outbox, queue, linked, nextId, bulk, boot, history>>

-------------------------------------------------------------------------------
(* TicketCommands.bulkUpdate: TicketDocs.write with neither the write lock   *)
(* nor record, here with a patch that moves the ticket to another status;    *)
(* when a later step fails the tickets it wrote are restored.                *)

BulkWrite(d) ==
  /\ phase = "serving"
  /\ bulk[d] = NoBulk
  /\ content[d] \in Present
  /\ nextId <= MaxWrite
  /\ content' = [content EXCEPT ![d] = nextId]
  /\ bulk' = [bulk EXCEPT ![d] = <<content[d], nextId>>]
  /\ nextId' = nextId + 1
  /\ UNCHANGED <<outbox, activity, queue, linked, lock, pc, job, todo, seen>>
  /\ UNCHANGED <<boot, history>>

\* revertTicketPatch: the exact original if nobody wrote since, otherwise the
\* patched fields are put back into the current text.
BulkRevert(d) ==
  /\ bulk[d] # NoBulk
  /\ content[d] \in Present
  /\ \/ /\ content[d] = bulk[d][2]
        /\ content' = [content EXCEPT ![d] = bulk[d][1]]
        /\ UNCHANGED nextId
     \/ /\ content[d] # bulk[d][2]
        /\ nextId <= MaxWrite
        /\ content' = [content EXCEPT ![d] = nextId]
        /\ nextId' = nextId + 1
  /\ bulk' = [bulk EXCEPT ![d] = NoBulk]
  /\ UNCHANGED <<outbox, activity, queue, linked, lock, pc, job, todo, seen>>
  /\ UNCHANGED <<boot, history>>

\* The bulk update succeeds, or finds the ticket gone when it reverts.
BulkDone(d) ==
  /\ bulk[d] # NoBulk
  /\ bulk' = [bulk EXCEPT ![d] = NoBulk]
  /\ UNCHANGED <<content, outbox, activity, queue, linked, lock, pc, job, todo>>
  /\ UNCHANGED <<seen, nextId, boot, history>>

-------------------------------------------------------------------------------
(* The process stops; at the next boot recover runs before any handler.      *)

Crash ==
  /\ lock' = [k \in LockKeys |-> NoWriter]
  /\ pc' = [p \in Writers |-> "idle"]
  /\ job' = [p \in Writers |-> NoJob]
  /\ todo' = [p \in Writers |-> {}]
  /\ seen' = [p \in Writers |-> Absent]
  /\ bulk' = [d \in BulkTickets |-> NoBulk]
  /\ phase' = "recovering"
  /\ unsettled' = outbox
  /\ UNCHANGED <<content, outbox, activity, queue, linked, nextId, history>>

\* One batch is settled against the file as it is now.
RecoverOne ==
  /\ \E b \in unsettled :
       /\ Settle(b, content[b.doc])
       /\ unsettled' = unsettled \ {b}
  /\ UNCHANGED <<content, linked, lock, pc, job, todo, seen, nextId, phase>>
  /\ UNCHANGED <<bulk, history>>

\* A failure of one batch is logged and the batch is skipped.
RecoverSkips ==
  /\ \E b \in unsettled : unsettled' = unsettled \ {b}
  /\ UNCHANGED <<content, outbox, activity, queue, linked, lock, pc, job, todo>>
  /\ UNCHANGED <<seen, nextId, phase, bulk, history>>

Serve ==
  /\ phase = "recovering"
  /\ unsettled = {}
  /\ phase' = "serving"
  /\ UNCHANGED <<content, outbox, activity, queue, linked, lock, pc, job, todo>>
  /\ UNCHANGED <<seen, nextId, unsettled, bulk, history>>

\* A manager connects or disconnects the integration.
ToggleLink ==
  /\ linked' = ~linked
  /\ UNCHANGED <<content, outbox, activity, queue, lock, pc, job, todo, seen>>
  /\ UNCHANGED <<nextId, bulk, boot, history>>

-------------------------------------------------------------------------------
Handler(p) ==
  \/ \E d \in Docs, kind \in Kinds : Begin(p, d, kind)
  \/ SettleOne(p)
  \/ Abort(p)
  \/ \E text \in {nextId, Absent} \cup GroupTexts, rows, wanted \in BOOLEAN :
       Prepare(p, text, rows, wanted)
  \/ Interrupt(p)
  \/ WriteAtOnce(p)
  \/ Truncate(p)
  \/ FinishInPlace(p)
  \/ WriteFails(p)
  \/ DiscardFailed(p)
  \/ Commit(p)
  \/ CommitUnacknowledged(p)
  \/ CommitGivesUp(p)
  \/ \E d \in Tickets : RemoveTicket(p, d)
  \/ EraseActivity(p)

BulkUpdate(d) == BulkWrite(d) \/ BulkRevert(d) \/ BulkDone(d)
Recovery == RecoverOne \/ RecoverSkips \/ Serve

Next ==
  \/ \E p \in Writers : Handler(p)
  \/ \E d \in BulkTickets : BulkUpdate(d)
  \/ Crash
  \/ Recovery
  \/ ToggleLink

Spec == Init /\ [][Next]_vars

-------------------------------------------------------------------------------
\* The values of the state.
TypeOK ==
  /\ content \in [Docs -> FileState]
  /\ outbox \in SUBSET Batch
  /\ activity \in [Docs -> Seq(Nat)]
  /\ queue \in SUBSET Nat
  /\ linked \in BOOLEAN
  /\ lock \in [LockKeys -> Writers \cup {NoWriter}]
  /\ pc \in [Writers -> {"idle", "settling", "ready", "torn", "landed",
                         "failed", "erasing"}]
  /\ job \in [Writers -> [kind : Kinds, batch : Batch, recorded : BOOLEAN]]
  /\ todo \in [Writers -> SUBSET Batch]
  /\ seen \in [Writers -> FileState]
  /\ nextId \in Nat
  /\ phase \in {"recovering", "serving"}
  /\ unsettled \in SUBSET Batch
  /\ bulk \in [BulkTickets -> FileState \X FileState]
  /\ landed \in SUBSET Batch
  /\ retired \in SUBSET Tickets

\* The log and the integration queue never speak of a write that did not reach
\* the file: record and recover commit a batch only when its write landed.
PublishedOnlyLanded ==
  /\ \A d \in Docs : Published(d) \subseteq {b.id : b \in {c \in landed : c.doc = d}}
  /\ queue \subseteq {b.id : b \in {c \in landed : c.event}}

\* The activity of a document is committed once per write and in the order of
\* the writes, whatever failed, was retried or was recovered in between.
ActivityInWriteOrder ==
  \A d \in Docs : \A i, j \in 1..Len(activity[d]) :
    i < j => activity[d][i] < activity[d][j]

\* A document has one batch at most in the outbox: settlePending clears it of
\* what earlier writers left before record adds another.
OnePendingPerDocument ==
  \A b, c \in outbox : b.doc = c.doc => b = c

\* A write that landed on a document that no bulk update touches keeps its
\* batch until its activity is committed, unless the ticket was removed.
LandedNeverLost ==
  \A b \in landed :
    \/ b.doc \in BulkTickets \cup retired
    \/ b.id \in Published(b.doc)
    \/ b \in outbox /\ content[b.doc] = b.text

\* The outbox implements RecordedWrites.
Promise == INSTANCE RecordedWrites WITH
  Writes <- 1..MaxWrite,
  Forgettable <- BulkTickets,
  pending <- {<<b.doc, b.id>> : b \in outbox},
  landed <- {<<b.doc, b.id>> : b \in landed},
  log <- activity,
  gone <- retired

PromiseKept == Promise!Spec
===============================================================================
