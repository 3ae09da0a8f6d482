------------------------------ MODULE TicketStore ------------------------------
(***************************************************************************)
(* The tickets of one project: markdown files, the locks of their writers, *)
(* and the rows that mirror them in Postgres (packages/server-core/src/    *)
(* tickets, comments, locks).                                              *)
(*                                                                         *)
(* A request reads a file, writes it and publishes the row of the ticket   *)
(* under keyed locks of the process.  Scans (at boot, from the repair      *)
(* queue, asked for by a PM) read the files without a lock and write the   *)
(* rows they find missing or stale.  A request changes a ticket in one     *)
(* way of its own, so a document is the set of the requests whose change   *)
(* or comment it holds; patches of different requests touch different      *)
(* fields.                                                                 *)
(***************************************************************************)
EXTENDS Naturals, FiniteSets

CONSTANTS
  MaxTicket,   \* bound: the last ticket number that is handed out
  Requests,    \* requests, each of which changes one ticket once
  Kinds,       \* the kinds of request an instance has
  Scans,       \* reconciliations that may run at a time
  Behind,      \* may the ticket counter be behind the files (a restored database)
  MaxCrashes,  \* bound: crashes of the process
  MaxRebuilds, \* bound: rebuilds asked for by a PM
  MaxOutages,  \* bound: publications and reconciliations that fail
  None

AllKinds == {"create", "edit", "unassign", "comment", "bulk", "remove"}

VARIABLES
  file,        \* tickets/<id>.md: the document, or None
  row,         \* ticket_index: what was published of the document, or None
  listed,      \* comment_index: the comments that have a row
  nextNumber,  \* project_index.next_ticket_number
  queued,      \* is the project in TicketIndexRepairs (memory of the process)
  docLock,     \* who holds the ticketDocument lock of a ticket
  writeLock,   \* who holds its ticketWrite lock
  req,         \* the requests
  scan,        \* the reconciliations
  boot,        \* the reconciliation at boot: "pending", "running", "done", "failed"
  now,         \* the clock behind updatedAt
  born,        \* history: the numbers that ever had a file
  spent        \* crashes, rebuilds and outages so far

stored == <<file, row, listed, nextNumber, born>>
locks == <<docLock, writeLock>>
vars == <<file, row, listed, nextNumber, queued, docLock, writeLock, req, scan, boot, now,
          born, spent>>

-------------------------------------------------------------------------------
Tickets == 1..MaxTicket
Docs == [at : Nat, has : SUBSET Requests, comments : SUBSET Requests]
Rows == [at : Nat, has : SUBSET Requests]
Blank == [at |-> 0, has |-> {}, comments |-> {}]

ASSUME StoreAssumption ==
  /\ MaxTicket \in Nat
  /\ MaxCrashes \in Nat
  /\ MaxRebuilds \in Nat
  /\ MaxOutages \in Nat
  /\ Behind \in BOOLEAN
  /\ Kinds \subseteq AllKinds
  /\ None \notin Requests \cup Nat \cup Docs \cup Rows

Stages == {"idle", "numbering", "reserved", "locked", "listed", "read", "written", "published",
           "moving", "undoing", "undo", "undone", "removed", "done", "failed"}
Callers == {"boot", "repair", "tool"}
NoScan == [by |-> "tool", stage |-> "idle", before |-> [t \in Tickets |-> None],
           left |-> {}, docs |-> [t \in Tickets |-> None]]

On(r) == req[r].on
Kind(r) == req[r].kind
Held(t) == file[t] # None

\* What a row says of a document: its fields and updatedAt, not its comments.
Fields(d) == [at |-> d.at, has |-> d.has]

\* The kinds that also hold the ticketDocument lock, not the ticketWrite lock alone.
LocksDocument == {"edit", "bulk", "remove"}

\* Where each kind takes the ticketWrite lock: where it also reads and writes the file.
Entries == {<<"edit", "locked">>, <<"remove", "locked">>, <<"unassign", "idle">>,
            <<"comment", "listed">>, <<"create", "reserved">>}

Init ==
  /\ \E ts \in SUBSET Tickets : \E n \in 1..(MaxTicket + 1) :
       /\ Behind \/ \A t \in ts : t < n
       /\ file = [t \in Tickets |-> IF t \in ts THEN Blank ELSE None]
       /\ born = ts
       /\ nextNumber = n
  /\ row = [t \in Tickets |-> IF Held(t) THEN Fields(Blank) ELSE None]
  /\ listed = {}
  /\ queued = FALSE
  /\ docLock = [t \in Tickets |-> None]
  /\ writeLock = [t \in Tickets |-> None]
  /\ req \in [Requests -> [kind : Kinds, on : Tickets, stage : {"idle"}, doc : {None},
                           orig : {None}]]
  /\ scan = [s \in Scans |-> NoScan]
  /\ boot = "done"
  /\ now = 0
  /\ spent = [crashes |-> 0, rebuilds |-> 0, outages |-> 0]

-------------------------------------------------------------------------------
(* Requests.                                                                 *)

Goto(r, stage) == req' = [req EXCEPT ![r].stage = stage]

\* Fault: a request ends without giving its locks back.
KeepLock(lock, r) == lock

Free(lock, r) == [t \in Tickets |-> IF lock[t] = r THEN None ELSE lock[t]]

End(r, outcome) ==
  /\ Goto(r, outcome)
  /\ docLock' = Free(docLock, r)
  /\ writeLock' = Free(writeLock, r)

\* The database stays away longer than the code retries.
Outage ==
  /\ spent.outages < MaxOutages
  /\ spent' = [spent EXCEPT !.outages = @ + 1]

\* A new document, or a change of one, carries the time it is made.
Stamp == now' = now + 1

Begin(r) ==
  /\ Kind(r) = "create"
  /\ req[r].stage = "idle"
  /\ req' = [req EXCEPT ![r].stage = "numbering",
                        ![r].doc = [Blank EXCEPT !.at = now + 1, !.has = {r}]]
  /\ Stamp
  /\ UNCHANGED <<stored, locks, queued, scan, boot, spent>>

ReserveTicketNumber(r) ==
  /\ req[r].stage = "numbering"
  /\ nextNumber <= MaxTicket
  /\ nextNumber' = nextNumber + 1
  /\ req' = [req EXCEPT ![r].stage = "reserved", ![r].on = nextNumber]
  /\ UNCHANGED <<file, row, listed, born, locks, queued, scan, boot, now, spent>>

LockDocument(r) ==
  /\ Kind(r) \in LocksDocument
  /\ req[r].stage = "idle"
  /\ docLock[On(r)] = None
  /\ docLock' = [docLock EXCEPT ![On(r)] = r]
  /\ Goto(r, "locked")
  /\ UNCHANGED <<stored, writeLock, queued, scan, boot, now, spent>>

\* A comment gets its row before its place in the file.
ListComment(r) ==
  /\ Kind(r) = "comment"
  /\ req[r].stage = "idle"
  /\ listed' = listed \cup {r}
  /\ Goto(r, "listed")
  /\ UNCHANGED <<file, row, nextNumber, born, locks, queued, scan, boot, now, spent>>

\* A comment that fails takes its row back, if the database lets it.
Unlist(r) ==
  IF Kind(r) = "comment" THEN \/ listed' = listed \ {r} \/ UNCHANGED listed
                         ELSE UNCHANGED listed

\* Fault: the writers of a ticket do not wait for each other.
CanLockAnyway(r) == <<Kind(r), req[r].stage>> \in Entries

CanLock(r) == <<Kind(r), req[r].stage>> \in Entries /\ writeLock[On(r)] = None

NotFound(r) ==
  /\ \/ CanLock(r) /\ Kind(r) # "create"
     \/ Kind(r) = "bulk" /\ req[r].stage = "locked"
  /\ ~Held(On(r))
  /\ Unlist(r)
  /\ End(r, "failed")
  /\ UNCHANGED <<file, row, nextNumber, born, queued, scan, boot, now, spent>>

\* A comment leaves updatedAt alone, a change of a field does not.
Patched(r) ==
  IF Kind(r) = "comment" THEN [file[On(r)] EXCEPT !.comments = @ \cup {r}]
                         ELSE [file[On(r)] EXCEPT !.at = now + 1, !.has = @ \cup {r}]

Touch(r) == IF Kind(r) = "comment" THEN UNCHANGED now ELSE Stamp

\* update: the ticketWrite lock, then the read of the file.
Read(r) ==
  /\ CanLock(r)
  /\ Kind(r) \in {"edit", "unassign", "comment"}
  /\ Held(On(r))
  /\ writeLock' = [writeLock EXCEPT ![On(r)] = r]
  /\ req' = [req EXCEPT ![r].stage = "read", ![r].doc = Patched(r)]
  /\ Touch(r)
  /\ UNCHANGED <<stored, docLock, queued, scan, boot, spent>>

\* bulkUpdate reads, and later writes, without the ticketWrite lock.
ReadBulk(r) ==
  /\ Kind(r) = "bulk"
  /\ req[r].stage = "locked"
  /\ Held(On(r))
  /\ req' = [req EXCEPT ![r].stage = "read", ![r].doc = Patched(r), ![r].orig = file[On(r)]]
  /\ Touch(r)
  /\ UNCHANGED <<stored, locks, queued, scan, boot, spent>>

WriteTicketFile(r) ==
  /\ req[r].stage \in {"read", "undo"}
  /\ file' = [file EXCEPT ![On(r)] = req[r].doc]
  /\ IF Kind(r) = "comment"
     THEN End(r, "done")
     ELSE /\ Goto(r, IF req[r].stage = "read" THEN "written" ELSE "undone")
          /\ UNCHANGED locks
  /\ UNCHANGED <<row, listed, nextNumber, born, queued, scan, boot, now, spent>>

CreateTicketFile(r) ==
  /\ Kind(r) = "create"
  /\ CanLock(r)
  /\ IF Held(On(r))
     THEN /\ Goto(r, "numbering")
          /\ UNCHANGED <<file, born, writeLock>>
     ELSE /\ file' = [file EXCEPT ![On(r)] = req[r].doc]
          /\ born' = born \cup {On(r)}
          /\ writeLock' = [writeLock EXCEPT ![On(r)] = r]
          /\ Goto(r, "written")
  /\ UNCHANGED <<row, listed, nextNumber, docLock, queued, scan, boot, now, spent>>

\* A request is refused, fails or is interrupted before its write (uninterruptible).
GivesUp(r) ==
  /\ req[r].stage \in {"numbering", "reserved", "locked", "listed", "read", "undo"}
  /\ Unlist(r)
  /\ End(r, "failed")
  /\ UNCHANGED <<file, row, nextNumber, born, queued, scan, boot, now, spent>>

\* upsertTicket writes the row, or gives up retrying and queues the project.
UpsertTicket(r) ==
  /\ req[r].stage \in {"written", "undone"}
  /\ \/ /\ row' = [row EXCEPT ![On(r)] = Fields(req[r].doc)]
        /\ UNCHANGED <<queued, spent>>
     \/ /\ Outage
        /\ queued' = TRUE
        /\ UNCHANGED row
  /\ IF Kind(r) = "bulk" /\ req[r].stage = "written"
     THEN /\ Goto(r, "published")
          /\ UNCHANGED locks
     ELSE End(r, IF req[r].stage = "written" THEN "done" ELSE "failed")
  /\ UNCHANGED <<file, listed, nextNumber, born, scan, boot, now>>

-------------------------------------------------------------------------------
(* The end of a bulk update, and its way back.                               *)

\* The sprint is changed after the locks are gone; that may fail.
Unlock(r) ==
  /\ req[r].stage = "published"
  /\ End(r, "moving")
  /\ UNCHANGED <<stored, queued, scan, boot, now, spent>>

MoveToSprint(r) ==
  /\ req[r].stage = "moving"
  /\ Goto(r, "done")
  /\ UNCHANGED <<stored, locks, queued, scan, boot, now, spent>>

MoveToSprintFails(r) ==
  /\ req[r].stage = "moving"
  /\ docLock[On(r)] = None
  /\ docLock' = [docLock EXCEPT ![On(r)] = r]
  /\ Goto(r, "undoing")
  /\ UNCHANGED <<stored, writeLock, queued, scan, boot, now, spent>>

\* The write of a bulk update is interrupted after the rename and before it is noted
\* for the way back.
InterruptedWrite(r) ==
  /\ Kind(r) = "bulk"
  /\ req[r].stage = "read"
  /\ file' = [file EXCEPT ![On(r)] = req[r].doc]
  /\ End(r, "failed")
  /\ UNCHANGED <<row, listed, nextNumber, born, queued, scan, boot, now, spent>>

\* Another ticket of the batch fails, or the request is interrupted.
BatchFails(r) ==
  /\ Kind(r) = "bulk"
  /\ req[r].stage \in {"written", "published"}
  /\ Goto(r, "undoing")
  /\ UNCHANGED <<stored, locks, queued, scan, boot, now, spent>>

\* Fault: the way back writes the document that was read at first.
RestoreOriginal(r) == req[r].orig

\* The fields go back to what they were; updatedAt too, if nothing else moved it.
RevertTicketPatch(r) ==
  [file[On(r)] EXCEPT !.at = IF @ = req[r].doc.at THEN req[r].orig.at ELSE @,
                      !.has = @ \ {r}]

ReadUndo(r) ==
  /\ req[r].stage = "undoing"
  /\ IF Held(On(r)) /\ r \in file[On(r)].has
     THEN /\ req' = [req EXCEPT ![r].stage = "undo", ![r].doc = RevertTicketPatch(r)]
          /\ UNCHANGED locks
     ELSE End(r, "failed")
  /\ UNCHANGED <<stored, queued, scan, boot, now, spent>>

-------------------------------------------------------------------------------
(* Removal: the file, then the row.                                          *)

RemoveTicketFile(r) ==
  /\ Kind(r) = "remove"
  /\ CanLock(r)
  /\ Held(On(r))
  /\ writeLock' = [writeLock EXCEPT ![On(r)] = r]
  /\ file' = [file EXCEPT ![On(r)] = None]
  /\ Goto(r, "removed")
  /\ UNCHANGED <<row, listed, nextNumber, born, docLock, queued, scan, boot, now, spent>>

DeleteTicket(r) ==
  /\ req[r].stage = "removed"
  /\ row' = [row EXCEPT ![On(r)] = None]
  /\ End(r, "done")
  /\ UNCHANGED <<file, listed, nextNumber, born, queued, scan, boot, now, spent>>

\* The database refuses, or the request is interrupted; nothing is queued.
DeleteTicketFails(r) ==
  /\ req[r].stage = "removed"
  /\ End(r, "failed")
  /\ UNCHANGED <<stored, queued, scan, boot, now, spent>>

-------------------------------------------------------------------------------
(* Reconciliation.                                                           *)

Refs == [t \in Tickets |-> IF row[t] = None THEN None ELSE row[t].at]

StartScan(s, by) ==
  /\ scan[s].stage = "idle"
  /\ scan' = [scan EXCEPT ![s] = [NoScan EXCEPT !.by = by, !.stage = "list", !.before = Refs]]

ReconcileOnBoot(s) ==
  /\ boot = "pending"
  /\ StartScan(s, "boot")
  /\ boot' = "running"
  /\ UNCHANGED <<stored, locks, queued, req, now, spent>>

\* The repair loop takes the project off the queue before it reconciles it.
RepairUnpublished(s) ==
  /\ queued
  /\ \A o \in Scans : scan[o].stage # "idle" => scan[o].by # "repair"
  /\ StartScan(s, "repair")
  /\ queued' = FALSE
  /\ UNCHANGED <<stored, locks, req, boot, now, spent>>

RebuildTicketIndex(s) ==
  /\ spent.rebuilds < MaxRebuilds
  /\ StartScan(s, "tool")
  /\ spent' = [spent EXCEPT !.rebuilds = @ + 1]
  /\ UNCHANGED <<stored, locks, queued, req, boot, now>>

ListIds(s) ==
  /\ scan[s].stage = "list"
  /\ scan' = [scan EXCEPT ![s].stage = "read", ![s].left = {t \in Tickets : Held(t)}]
  /\ UNCHANGED <<stored, locks, queued, req, boot, now, spent>>

\* A file that has vanished since the listing is skipped.
ReadDocument(s, t) ==
  /\ t \in scan[s].left
  /\ scan' = [scan EXCEPT ![s].left = @ \ {t}, ![s].docs = [@ EXCEPT ![t] = file[t]]]
  /\ UNCHANGED <<stored, locks, queued, req, boot, now, spent>>

EndScan(s) == scan' = [scan EXCEPT ![s] = NoScan]

Finished(s) == boot' = IF scan[s].by = "boot" THEN "done" ELSE boot

Drift(s) ==
  \E t \in Tickets : Refs[t] # IF scan[s].docs[t] = None THEN None ELSE scan[s].docs[t].at

DetectDrift(s) ==
  /\ scan[s].stage = "read"
  /\ scan[s].left = {}
  /\ IF scan[s].by = "tool" \/ Drift(s)
     THEN /\ scan' = [scan EXCEPT ![s].stage = "write"]
          /\ UNCHANGED boot
     ELSE EndScan(s) /\ Finished(s)
  /\ UNCHANGED <<stored, locks, queued, req, now, spent>>

\* A row goes if it is as it was before the scan and there was no file for it.
Dropped(s, t) ==
  /\ scan[s].docs[t] = None
  /\ scan[s].before[t] # None
  /\ Refs[t] = scan[s].before[t]

AheadOfDisk(s, t) ==
  /\ scan[s].before[t] # None
  /\ scan[s].before[t] > scan[s].docs[t].at
  /\ row[t].at = scan[s].before[t]

\* Fault: a rebuild replaces the rows of the project by what it read.
RewrittenAlways(s, t) == scan[s].docs[t] # None

\* A row is written unless the ticket was published anew since it was read.
Rewritten(s, t) ==
  /\ scan[s].docs[t] # None
  /\ row[t] # None => row[t].at <= scan[s].docs[t].at \/ AheadOfDisk(s, t)

\* The number behind that of the last document.
NextTicketNumberFor(s, n) ==
  /\ \A t \in Tickets : scan[s].docs[t] # None => t < n
  /\ n = 1 \/ \E t \in Tickets : scan[s].docs[t] # None /\ n = t + 1

\* Fault: the counter starts over behind the last file.
StartOver(a, b) == b

Greatest(a, b) == IF a >= b THEN a ELSE b

WriteProjectIndex(s) ==
  /\ scan[s].stage = "write"
  /\ row' = [t \in Tickets |-> IF Dropped(s, t) THEN None
                               ELSE IF Rewritten(s, t) THEN Fields(scan[s].docs[t])
                               ELSE row[t]]
  /\ listed' = {c \in listed : ~Dropped(s, On(c)) /\ ~Rewritten(s, On(c))}
               \cup UNION {scan[s].docs[t].comments : t \in {u \in Tickets : Rewritten(s, u)}}
  /\ \E n \in 1..(MaxTicket + 1) :
       NextTicketNumberFor(s, n) /\ nextNumber' = Greatest(nextNumber, n)
  /\ EndScan(s)
  /\ Finished(s)
  /\ UNCHANGED <<file, born, locks, queued, req, now, spent>>

\* Fault: a repair that fails is forgotten.
ForgetRepair(s) ==
  /\ scan[s].stage # "idle"
  /\ Outage
  /\ EndScan(s)
  /\ boot' = IF scan[s].by = "boot" THEN "failed" ELSE boot
  /\ UNCHANGED <<stored, locks, queued, req, now>>

\* A repair that fails goes back to the queue; the one at boot is given up.
ReconcileFails(s) ==
  /\ scan[s].stage # "idle"
  /\ Outage
  /\ EndScan(s)
  /\ queued' = (queued \/ scan[s].by = "repair")
  /\ boot' = IF scan[s].by = "boot" THEN "failed" ELSE boot
  /\ UNCHANGED <<stored, locks, req, now>>

-------------------------------------------------------------------------------
\* The process ends and starts again: files and rows stay, the rest is gone.
Crash ==
  /\ spent.crashes < MaxCrashes
  /\ spent' = [spent EXCEPT !.crashes = @ + 1]
  /\ req' = [r \in Requests |-> IF req[r].stage \in {"idle", "done"} THEN req[r]
                                ELSE [req[r] EXCEPT !.stage = "failed"]]
  /\ docLock' = [t \in Tickets |-> None]
  /\ writeLock' = [t \in Tickets |-> None]
  /\ queued' = FALSE
  /\ scan' = [s \in Scans |-> NoScan]
  /\ boot' = "pending"
  /\ UNCHANGED <<stored, now>>

Goes(r) ==
  \/ Begin(r) \/ ReserveTicketNumber(r) \/ CreateTicketFile(r)
  \/ LockDocument(r) \/ ListComment(r) \/ NotFound(r) \/ Read(r) \/ ReadBulk(r)
  \/ WriteTicketFile(r) \/ UpsertTicket(r)
  \/ Unlock(r) \/ MoveToSprint(r) \/ ReadUndo(r)
  \/ RemoveTicketFile(r) \/ DeleteTicket(r)

Fails(r) ==
  \/ GivesUp(r) \/ MoveToSprintFails(r) \/ BatchFails(r) \/ InterruptedWrite(r)
  \/ DeleteTicketFails(r)

Request(r) == Goes(r) \/ Fails(r)

ScanOn(s) ==
  ListIds(s) \/ (\E t \in Tickets : ReadDocument(s, t)) \/ DetectDrift(s) \/ WriteProjectIndex(s)

Next ==
  \/ \E r \in Requests : Request(r)
  \/ \E s \in Scans : \/ ReconcileOnBoot(s) \/ RepairUnpublished(s) \/ RebuildTicketIndex(s)
                      \/ ScanOn(s) \/ ReconcileFails(s)
  \/ Crash

Spec == Init /\ [][Next]_vars

(* A request that has begun goes on, and has its turn at the locks, whose waiters *)
(* queue.  A scan that has begun goes on, the boot starts one, and the repair     *)
(* loop looks at the queue again and again.  Nobody need begin a request, ask for *)
(* a rebuild, or fail.                                                            *)
FairSpec ==
  /\ Spec
  /\ \A r \in Requests : SF_vars(Goes(r) /\ req[r].stage # "idle")
  /\ \A s \in Scans : WF_vars(ReconcileOnBoot(s) \/ RepairUnpublished(s) \/ ScanOn(s))

-------------------------------------------------------------------------------
(* Properties.                                                               *)

Scanning(by) == \E s \in Scans : scan[s].stage # "idle" /\ scan[s].by = by
Publishing(t) == \E r \in Requests : On(r) = t /\ req[r].stage \in {"written", "undoing", "undo", "undone"}

RequestRecords ==
  [kind : Kinds, on : Tickets, stage : Stages, doc : Docs \cup {None}, orig : Docs \cup {None}]

ScanRecords ==
  [by : Callers, stage : {"idle", "list", "read", "write"}, left : SUBSET Tickets,
   before : [Tickets -> Nat \cup {None}], docs : [Tickets -> Docs \cup {None}]]

\* Every variable has its type.
TypeOK ==
  /\ file \in [Tickets -> Docs \cup {None}]
  /\ row \in [Tickets -> Rows \cup {None}]
  /\ listed \subseteq Requests
  /\ nextNumber \in 1..(MaxTicket + 1)
  /\ queued \in BOOLEAN
  /\ docLock \in [Tickets -> Requests \cup {None}]
  /\ writeLock \in [Tickets -> Requests \cup {None}]
  /\ req \in [Requests -> RequestRecords]
  /\ scan \in [Scans -> ScanRecords]
  /\ boot \in {"pending", "running", "done", "failed"}
  /\ now \in Nat
  /\ born \subseteq Tickets
  /\ spent \in [crashes : 0..MaxCrashes, rebuilds : 0..MaxRebuilds, outages : 0..MaxOutages]

\* Nothing is under way that is going to bring the row of t up to date.
Settled(t) ==
  /\ boot = "done"
  /\ ~queued
  /\ ~Scanning("repair")
  /\ ~Publishing(t)

Begun(r, t) == On(r) = t /\ req[r].stage # "idle"

\* A bulk update does not wait for the writers of t that hold the ticketWrite lock alone.
Raced(t) ==
  /\ \E r \in Requests : Kind(r) = "bulk" /\ Begun(r, t)
  /\ \E r \in Requests : Kind(r) \notin LocksDocument /\ Begun(r, t)

\* Its way back moves updatedAt back, and may end between the file and the row.
TakenBack(t) ==
  \E r \in Requests : /\ Kind(r) = "bulk" /\ On(r) = t
                      /\ req[r].stage \in {"undoing", "undo", "undone", "failed"}

\* The index mirrors the files: when no publication is under way or queued and the
\* reconciliation at boot has gone through, the row of a ticket says what its file says,
\* whatever scans are still running on files they read long ago.
IndexMirrorsFiles ==
  \A t \in Tickets :
    Held(t) /\ Settled(t) /\ ~Raced(t) /\ ~TakenBack(t) => row[t] = Fields(file[t])

\* No lost update: a change that was acknowledged is in the file for as long as there is one,
\* whatever bulk updates take back there.
NoLostUpdate ==
  \A r \in Requests :
    req[r].stage = "done" /\ Kind(r) # "remove" /\ Held(On(r)) /\ ~Raced(On(r))
    => r \in file[On(r)].has \cup file[On(r)].comments

\* A list never goes back: the row of a ticket is not replaced by an older one.
RowsGoForward ==
  [][\A t \in Tickets :
       row[t] # None /\ row'[t] # None /\ ~Raced(t) /\ ~TakenBack(t)
       => row[t].at <= row'[t].at]_vars

\* Ticket ids are sequential: a number that had a ticket is never given to another one,
\* not after the removal of the last ticket and not after a rebuild from the files.
NumbersAreNotReused ==
  [][\A t \in born : file[t] = None => file'[t] = None]_vars

Ended(r) ==
  \/ req[r].stage \in {"done", "failed"}
  \/ req[r].stage = "numbering" /\ nextNumber > MaxTicket

\* Liveness: a request that has begun ends: it gets its locks, and one that creates a ticket
\* gets past the numbers that are taken, up to the last there is.
EveryRequestEnds ==
  \A r \in Requests : req[r].stage # "idle" ~> Ended(r)

\* Liveness: the index catches up with the files, unless the reconciliation at boot failed.
IndexCatchesUp ==
  <>[](boot = "failed" \/ \A t \in Tickets : Held(t) => row[t] = Fields(file[t]))

===============================================================================
