-------------------------- MODULE TicketStore_proofs --------------------------
(***************************************************************************)
(* What TicketStore keeps, for every number of tickets, requests, scans,   *)
(* crashes, rebuilds and outages.                                          *)
(*                                                                         *)
(* Types first: TypeInv adds to TypeOK that a request which is going to    *)
(* write has a document, and one which may have to undo has the original.  *)
(* Then StoreInv, for every kind of request, where the counter starts      *)
(* ahead of the files.  Its core is Covered: a file whose row is wrong     *)
(* while nobody is about to publish it and no repair is queued is covered  *)
(* by the reconciliation at boot or by a running scan that is going to     *)
(* see it.  The rest is what Covered needs to survive a scan's write: that *)
(* rows and scans are behind the files, and equal to them when not older   *)
(* (RowsBehindFiles, ScansBehindFiles), which needs one writer at a time   *)
(* and a draft to be a change of the file as it is (Writers, Drafts),      *)
(* stamps not to be ahead of the clock (Times), and a number to be used    *)
(* once (Numbers).  A bulk update takes the one lock of a ticket and not   *)
(* the other, so a writer that takes the other one crosses it, and its way *)
(* back moves updatedAt backwards.  Neither spoils the other tickets, and  *)
(* neither is ever over (CrossedStays), so these parts are claimed of the  *)
(* tickets that are Clean, or not Crossed, and what does not need it of    *)
(* all: who writes finds a file to write to (Found).  Each lemma about an  *)
(* action has one step per part of the invariant; the actions that write   *)
(* no file and no row share one (MovesOnKept).                             *)
(***************************************************************************)
EXTENDS TicketStore, TLAPS

\* The stages in which a bulk update has its original, and may take its change back.
HasOriginal == {"read", "written", "published", "moving", "undoing"}
Undoing == {"published", "moving", "undoing", "undo", "undone"}

Typed ==
  \A r \in Requests :
    /\ req[r].stage \in {"numbering", "reserved", "read", "written"} \cup Undoing
         => req[r].doc \in Docs
    /\ req[r].stage \in Undoing => req[r].kind = "bulk"
    /\ req[r].kind = "bulk" /\ req[r].stage \in HasOriginal => req[r].orig \in Docs

TypeInv == TypeOK /\ Typed

\* The record of request r, and no other, is given these fields.
Becomes(r, g, o, d, e) ==
  /\ req' \in [Requests -> RequestRecords]
  /\ req'[r].kind = req[r].kind
  /\ req'[r].stage = g
  /\ req'[r].on = o
  /\ req'[r].doc = d
  /\ req'[r].orig = e
  /\ \A q \in Requests : q # r => req'[q] = req[q]

Keeps(r, g) == Becomes(r, g, req[r].on, req[r].doc, req[r].orig)

\* A request that moves on keeps all but its stage.
LEMMA GotoKeeps ==
  ASSUME TypeOK, NEW r \in Requests, NEW g \in Stages, Goto(r, g)
  PROVE  Keeps(r, g)
<1> DEFINE rec == [req[r] EXCEPT !.stage = g]
<1>1. req[r] \in RequestRecords /\ req \in [Requests -> RequestRecords]
  BY DEF TypeOK
<1>2. /\ rec \in RequestRecords
      /\ rec.stage = g /\ rec.on = req[r].on /\ rec.doc = req[r].doc
      /\ rec.orig = req[r].orig /\ rec.kind = req[r].kind
  BY <1>1 DEF RequestRecords
<1>3. req' = [req EXCEPT ![r] = rec]
  BY DEF Goto
<1> HIDE DEF rec
<1> QED BY <1>1, <1>2, <1>3 DEF Keeps, Becomes

\* Giving up the locks of a request leaves those of the others.
LEMMA FreeIsTyped ==
  ASSUME NEW lock \in [Tickets -> Requests \cup {None}], NEW r \in Requests
  PROVE  /\ Free(lock, r) \in [Tickets -> Requests \cup {None}]
         /\ \A t \in Tickets : \A q \in Requests \ {r} : lock[t] = q => Free(lock, r)[t] = q
BY DEF Free

\* The others keep the locks they hold.
LocksStay(r) ==
  \A t \in Tickets : \A q \in Requests \ {r} :
    /\ writeLock[t] = q => writeLock'[t] = q
    /\ docLock[t] = q => docLock'[t] = q

\* A request that ends gives up its own locks and no others.
LEMMA EndKeeps ==
  ASSUME TypeOK, NEW r \in Requests, NEW g \in Stages, End(r, g)
  PROVE  /\ Keeps(r, g)
         /\ docLock' \in [Tickets -> Requests \cup {None}]
         /\ writeLock' \in [Tickets -> Requests \cup {None}]
         /\ LocksStay(r)
<1>1. Goto(r, g) /\ docLock' = Free(docLock, r) /\ writeLock' = Free(writeLock, r)
  BY DEF End
<1>2. /\ docLock \in [Tickets -> Requests \cup {None}]
      /\ writeLock \in [Tickets -> Requests \cup {None}]
  BY DEF TypeOK
<1>3. Keeps(r, g)
  BY <1>1, GotoKeeps
<1> QED BY <1>1, <1>2, <1>3, FreeIsTyped DEF LocksStay

\* What Begin does to the record of its request or scan.
LEMMA BeginMoves ==
  ASSUME TypeOK, NEW r \in Requests, Begin(r)
  PROVE  \E d \in Docs : /\ Becomes(r, "numbering", req[r].on, d, req[r].orig)
                         /\ d.at = now + 1 /\ d.has = {r} /\ d.comments = {}
<1> DEFINE d == [Blank EXCEPT !.at = now + 1, !.has = {r}]
           rec == [req[r] EXCEPT !.stage = "numbering", !.doc = d]
<1>1. now + 1 \in Nat /\ req[r] \in RequestRecords /\ req \in [Requests -> RequestRecords]
  BY DEF TypeOK
<1>2. d \in Docs /\ d.at = now + 1 /\ d.has = {r} /\ d.comments = {}
  BY <1>1 DEF Docs, Blank
<1>3. req' = [req EXCEPT ![r] = rec]
  BY DEF Begin
<1>4. /\ rec \in RequestRecords /\ rec.stage = "numbering" /\ rec.kind = req[r].kind
      /\ rec.doc = d /\ rec.on = req[r].on /\ rec.orig = req[r].orig
  <2> HIDE DEF d
  <2> QED BY <1>1, <1>2 DEF RequestRecords, Stages
<1>5. Becomes(r, "numbering", req[r].on, d, req[r].orig)
  <2> HIDE DEF d, rec
  <2> QED BY <1>1, <1>3, <1>4 DEF Becomes
<1> HIDE DEF d
<1> QED BY <1>2, <1>5

\* What Reserve does to the record of its request or scan.
LEMMA ReserveMoves ==
  ASSUME TypeOK, NEW r \in Requests, ReserveTicketNumber(r)
  PROVE  Becomes(r, "reserved", nextNumber, req[r].doc, req[r].orig) /\ nextNumber \in Tickets
<1> DEFINE rec == [req[r] EXCEPT !.stage = "reserved", !.on = nextNumber]
<1>1. req[r] \in RequestRecords /\ req \in [Requests -> RequestRecords]
  BY DEF TypeOK
<1>2. nextNumber \in Tickets
  BY StoreAssumption DEF TypeOK, ReserveTicketNumber, Tickets
<1>3. req' = [req EXCEPT ![r] = rec]
  BY DEF ReserveTicketNumber
<1>4. /\ rec \in RequestRecords /\ rec.stage = "reserved" /\ rec.kind = req[r].kind
      /\ rec.doc = req[r].doc /\ rec.on = nextNumber /\ rec.orig = req[r].orig
  BY <1>1, <1>2 DEF RequestRecords, Stages
<1> HIDE DEF rec
<1> QED BY <1>1, <1>2, <1>3, <1>4 DEF Becomes

\* What a patch makes of a document.
LEMMA PatchedIsTyped ==
  ASSUME TypeOK, NEW r \in Requests, Held(On(r))
  PROVE  /\ On(r) \in Tickets
         /\ file[On(r)] \in Docs
         /\ Patched(r) \in Docs
         /\ IF Kind(r) = "comment"
            THEN /\ Patched(r).at = file[On(r)].at
                 /\ Patched(r).has = file[On(r)].has
                 /\ Patched(r).comments = file[On(r)].comments \cup {r}
            ELSE /\ Patched(r).at = now + 1
                 /\ Patched(r).has = file[On(r)].has \cup {r}
                 /\ Patched(r).comments = file[On(r)].comments
<1>1. On(r) \in Tickets
  BY DEF TypeOK, On, RequestRecords
<1>2. file[On(r)] \in Docs /\ now + 1 \in Nat
  BY <1>1 DEF TypeOK, Held
<1> QED BY <1>1, <1>2 DEF Patched, Docs

\* What Read does to the record of its request or scan.
LEMMA ReadMoves ==
  ASSUME TypeOK, NEW r \in Requests, Read(r)
  PROVE  /\ Becomes(r, "read", req[r].on, Patched(r), req[r].orig)
         /\ Patched(r) \in Docs
<1> DEFINE d == Patched(r)
           rec == [req[r] EXCEPT !.stage = "read", !.doc = d]
<1>1. req[r] \in RequestRecords /\ req \in [Requests -> RequestRecords]
  BY DEF TypeOK
<1>2. d \in Docs
  BY PatchedIsTyped DEF Read
<1>3. req' = [req EXCEPT ![r] = rec]
  BY DEF Read
<1> HIDE DEF d
<1>4. /\ rec \in RequestRecords /\ rec.stage = "read" /\ rec.kind = req[r].kind
      /\ rec.doc = d /\ rec.on = req[r].on /\ rec.orig = req[r].orig
  BY <1>1, <1>2 DEF RequestRecords, Stages
<1> HIDE DEF rec
<1>5. Becomes(r, "read", req[r].on, d, req[r].orig)
  BY <1>1, <1>3, <1>4 DEF Becomes
<1> QED BY <1>2, <1>5 DEF d

\* What ReadBulk does to the record of its request or scan.
LEMMA ReadBulkMoves ==
  ASSUME TypeOK, NEW r \in Requests, ReadBulk(r)
  PROVE  /\ Becomes(r, "read", req[r].on, Patched(r), file[On(r)])
         /\ Patched(r) \in Docs
         /\ file[On(r)] \in Docs
<1> DEFINE d == Patched(r)
           e == file[On(r)]
           rec == [req[r] EXCEPT !.stage = "read", !.doc = d, !.orig = e]
<1>1. req[r] \in RequestRecords /\ req \in [Requests -> RequestRecords]
  BY DEF TypeOK
<1>2. d \in Docs /\ e \in Docs
  BY PatchedIsTyped DEF ReadBulk
<1>3. req' = [req EXCEPT ![r] = rec]
  BY DEF ReadBulk
<1> HIDE DEF d, e
<1>4. /\ rec \in RequestRecords /\ rec.stage = "read" /\ rec.kind = req[r].kind
      /\ rec.doc = d /\ rec.on = req[r].on /\ rec.orig = e
  BY <1>1, <1>2 DEF RequestRecords, Stages
<1> HIDE DEF rec
<1>5. Becomes(r, "read", req[r].on, d, e)
  BY <1>1, <1>3, <1>4 DEF Becomes
<1> QED BY <1>2, <1>5 DEF d, e

\* What ReadUndo does to the record of its request or scan.
LEMMA ReadUndoMoves ==
  ASSUME TypeInv, NEW r \in Requests, ReadUndo(r), Held(On(r)), r \in file[On(r)].has
  PROVE  /\ Becomes(r, "undo", req[r].on, RevertTicketPatch(r), req[r].orig)
         /\ RevertTicketPatch(r) \in Docs
<1> DEFINE d == RevertTicketPatch(r)
           rec == [req[r] EXCEPT !.stage = "undo", !.doc = d]
<1>1. req[r] \in RequestRecords /\ req \in [Requests -> RequestRecords]
  BY DEF TypeInv, TypeOK
<1>2. On(r) \in Tickets /\ file[On(r)] \in Docs /\ req[r].orig \in Docs
  BY <1>1 DEF TypeInv, TypeOK, Typed, ReadUndo, RequestRecords, On, Held, Undoing, HasOriginal
<1>3. d \in Docs
  BY <1>2 DEF RevertTicketPatch, Docs
<1>4. req' = [req EXCEPT ![r] = rec]
  BY DEF ReadUndo
<1> HIDE DEF d
<1>5. /\ rec \in RequestRecords /\ rec.stage = "undo" /\ rec.kind = req[r].kind
      /\ rec.doc = d /\ rec.on = req[r].on /\ rec.orig = req[r].orig
  BY <1>1, <1>3 DEF RequestRecords, Stages
<1> HIDE DEF rec
<1>6. Becomes(r, "undo", req[r].on, d, req[r].orig)
  BY <1>1, <1>4, <1>5 DEF Becomes
<1> QED BY <1>3, <1>6 DEF d

\* An outage is counted within its bound.
LEMMA OutageTyped ==
  ASSUME TypeOK, Outage
  PROVE  spent' \in [crashes : 0..MaxCrashes, rebuilds : 0..MaxRebuilds, outages : 0..MaxOutages]
<1>1. spent \in [crashes : 0..MaxCrashes, rebuilds : 0..MaxRebuilds, outages : 0..MaxOutages]
  BY DEF TypeOK
<1> QED BY <1>1, StoreAssumption DEF Outage

\* What a request has, by its stage.
LEMMA RequestTyped ==
  ASSUME TypeInv, NEW r \in Requests
  PROVE  /\ On(r) \in Tickets
         /\ Kind(r) \in Kinds
         /\ docLock \in [Tickets -> Requests \cup {None}]
         /\ writeLock \in [Tickets -> Requests \cup {None}]
         /\ req[r].stage \in {"read", "written", "undo", "undone"} =>
              req[r].doc \in Docs /\ Fields(req[r].doc) \in Rows
         /\ Kind(r) = "create" /\ req[r].stage = "reserved" => req[r].doc \in Docs
<1>1. req[r] \in RequestRecords
  BY DEF TypeInv, TypeOK
<1> QED BY <1>1 DEF RequestRecords, On, Kind, TypeInv, TypeOK, Typed, Fields, Docs, Rows, Undoing

\* LockDocument keeps the types.
LEMMA LockDocumentTyped ==
  ASSUME TypeInv, NEW r \in Requests, LockDocument(r)
  PROVE  TypeInv'
<1>0. TypeOK /\ Typed
  BY DEF TypeInv
<1>1. Keeps(r, "locked")
  BY <1>0, GotoKeeps DEF LockDocument, Stages
<1>2. TypeOK'
  BY <1>0, <1>1, RequestTyped DEF TypeOK, Keeps, Becomes, LockDocument, stored, locks, On, Kind
<1>3. Typed'
  BY <1>0, <1>1 DEF Typed, Keeps, Becomes, LockDocument, Undoing, HasOriginal, Kind, Stages
<1> QED BY <1>2, <1>3 DEF TypeInv


\* ListComment keeps the types.
LEMMA ListCommentTyped ==
  ASSUME TypeInv, NEW r \in Requests, ListComment(r)
  PROVE  TypeInv'
<1>0. TypeOK /\ Typed
  BY DEF TypeInv
<1>1. Keeps(r, "listed")
  BY <1>0, GotoKeeps DEF ListComment, Stages
<1>2. TypeOK'
  BY <1>0, <1>1, RequestTyped DEF TypeOK, Keeps, Becomes, ListComment, stored, locks, On, Kind
<1>3. Typed'
  BY <1>0, <1>1 DEF Typed, Keeps, Becomes, ListComment, Undoing, HasOriginal, Kind, Stages
<1> QED BY <1>2, <1>3 DEF TypeInv


\* NotFound keeps the types.
LEMMA NotFoundTyped ==
  ASSUME TypeInv, NEW r \in Requests, NotFound(r)
  PROVE  TypeInv'
<1>0. TypeOK /\ Typed
  BY DEF TypeInv
<1>1. Keeps(r, "failed")
  BY <1>0, EndKeeps DEF NotFound, Stages
<1>2. TypeOK'
  BY <1>0, <1>1, RequestTyped, EndKeeps
     DEF TypeOK, Keeps, Becomes, NotFound, stored, locks, On, Kind, Unlist, Stages
<1>3. Typed'
  BY <1>0, <1>1 DEF Typed, Keeps, Becomes, NotFound, Undoing, HasOriginal, Kind, Stages
<1> QED BY <1>2, <1>3 DEF TypeInv


\* WriteTicketFile keeps the types.
LEMMA WriteTicketFileTyped ==
  ASSUME TypeInv, NEW r \in Requests, WriteTicketFile(r)
  PROVE  TypeInv'
<1>0. TypeOK /\ Typed
  BY DEF TypeInv
<1>1. CASE Kind(r) = "comment"
  <2>1. Keeps(r, "done")
    BY <1>0, <1>1, EndKeeps DEF WriteTicketFile, Stages
  <2>2. TypeOK'
    BY <1>0, <1>1, <2>1, RequestTyped, EndKeeps
       DEF TypeOK, Keeps, Becomes, WriteTicketFile, stored, locks, On, Kind, Stages
  <2>3. Typed'
    BY <1>0, <1>1, <2>1
       DEF Typed, Keeps, Becomes, WriteTicketFile, Undoing, HasOriginal, Kind, Stages
  <2> QED BY <2>2, <2>3 DEF TypeInv
<1>2. CASE ~(Kind(r) = "comment")
  <2>1. Keeps(r, IF req[r].stage = "read" THEN "written" ELSE "undone")
    BY <1>0, <1>2, GotoKeeps DEF WriteTicketFile, Stages
  <2>2. TypeOK'
    BY <1>0, <1>2, <2>1, RequestTyped
       DEF TypeOK, Keeps, Becomes, WriteTicketFile, stored, locks, On, Kind
  <2>3. Typed'
    BY <1>0, <1>2, <2>1
       DEF Typed, Keeps, Becomes, WriteTicketFile, Undoing, HasOriginal, Kind, Stages
  <2> QED BY <2>2, <2>3 DEF TypeInv
<1> QED BY <1>1, <1>2


\* CreateTicketFile keeps the types.
LEMMA CreateTicketFileTyped ==
  ASSUME TypeInv, NEW r \in Requests, CreateTicketFile(r)
  PROVE  TypeInv'
<1>0. TypeOK /\ Typed
  BY DEF TypeInv
<1>1. CASE Held(On(r))
  <2>1. Keeps(r, "numbering")
    BY <1>0, <1>1, GotoKeeps DEF CreateTicketFile, Stages
  <2>2. TypeOK'
    BY <1>0, <1>1, <2>1, RequestTyped
       DEF TypeOK, Keeps, Becomes, CreateTicketFile, stored, locks, On, Kind, CanLock, Entries
  <2>3. Typed'
    BY <1>0, <1>1, <2>1
       DEF Typed, Keeps, Becomes, CreateTicketFile, Undoing, HasOriginal, Kind, Stages, CanLock,
          Entries
  <2> QED BY <2>2, <2>3 DEF TypeInv
<1>2. CASE ~Held(On(r))
  <2>1. Keeps(r, "written")
    BY <1>0, <1>2, GotoKeeps DEF CreateTicketFile, Stages
  <2>2. TypeOK'
    BY <1>0, <1>2, <2>1, RequestTyped
       DEF TypeOK, Keeps, Becomes, CreateTicketFile, stored, locks, On, Kind, CanLock, Entries
  <2>3. Typed'
    BY <1>0, <1>2, <2>1
       DEF Typed, Keeps, Becomes, CreateTicketFile, Undoing, HasOriginal, Kind, Stages, CanLock,
          Entries
  <2> QED BY <2>2, <2>3 DEF TypeInv
<1> QED BY <1>1, <1>2


\* GivesUp keeps the types.
LEMMA GivesUpTyped ==
  ASSUME TypeInv, NEW r \in Requests, GivesUp(r)
  PROVE  TypeInv'
<1>0. TypeOK /\ Typed
  BY DEF TypeInv
<1>1. Keeps(r, "failed")
  BY <1>0, EndKeeps DEF GivesUp, Stages
<1>2. TypeOK'
  BY <1>0, <1>1, RequestTyped, EndKeeps
     DEF TypeOK, Keeps, Becomes, GivesUp, stored, locks, On, Kind, Unlist, Stages
<1>3. Typed'
  BY <1>0, <1>1 DEF Typed, Keeps, Becomes, GivesUp, Undoing, HasOriginal, Kind, Stages
<1> QED BY <1>2, <1>3 DEF TypeInv


\* UpsertTicket keeps the types.
LEMMA UpsertTicketTyped ==
  ASSUME TypeInv, NEW r \in Requests, UpsertTicket(r)
  PROVE  TypeInv'
<1>0. TypeOK /\ Typed
  BY DEF TypeInv
<1>1. /\ row' \in [Tickets -> Rows \cup {None}]
      /\ queued' \in BOOLEAN
      /\ spent' \in [crashes : 0..MaxCrashes, rebuilds : 0..MaxRebuilds, outages : 0..MaxOutages]
  <2>1. CASE row' = [row EXCEPT ![On(r)] = Fields(req[r].doc)] /\ UNCHANGED <<queued, spent>>
    BY <1>0, <2>1, RequestTyped DEF UpsertTicket, TypeOK
  <2>2. CASE Outage /\ queued' = TRUE /\ UNCHANGED row
    BY <1>0, <2>2, OutageTyped DEF TypeOK
  <2> QED BY <2>1, <2>2 DEF UpsertTicket
<1>2. CASE Kind(r) = "bulk" /\ req[r].stage = "written"
  <2>1. Keeps(r, "published")
    BY <1>0, <1>2, GotoKeeps DEF UpsertTicket, Stages
  <2>2. TypeOK'
    BY <1>0, <1>1, <1>2, <2>1 DEF TypeOK, Keeps, Becomes, UpsertTicket, locks
  <2>3. Typed'
    BY <1>0, <1>2, <2>1 DEF Typed, Keeps, Becomes, UpsertTicket, Undoing, HasOriginal, Kind
  <2> QED BY <2>2, <2>3 DEF TypeInv
<1>3. CASE ~(Kind(r) = "bulk" /\ req[r].stage = "written")
  <2>1. End(r, IF req[r].stage = "written" THEN "done" ELSE "failed")
    BY <1>3 DEF UpsertTicket
  <2>2. PICK g \in {"done", "failed"} : End(r, g)
    BY <2>1
  <2>3. Keeps(r, g)
    BY <1>0, <2>2, EndKeeps DEF Stages
  <2>4. TypeOK'
    <3>1. docLock' \in [Tickets -> Requests \cup {None}] /\ writeLock' \in [Tickets -> Requests \cup {None}]
      BY <1>0, <2>2, EndKeeps DEF Stages
    <3> QED BY <1>0, <1>1, <2>3, <3>1 DEF TypeOK, Keeps, Becomes, UpsertTicket
  <2>5. Typed'
    BY <1>0, <2>3 DEF Typed, Keeps, Becomes, Undoing, HasOriginal
  <2> QED BY <2>4, <2>5 DEF TypeInv
<1> QED BY <1>2, <1>3


\* Unlock keeps the types.
LEMMA UnlockTyped ==
  ASSUME TypeInv, NEW r \in Requests, Unlock(r)
  PROVE  TypeInv'
<1>0. TypeOK /\ Typed
  BY DEF TypeInv
<1>1. Keeps(r, "moving")
  BY <1>0, EndKeeps DEF Unlock, Stages
<1>2. TypeOK'
  BY <1>0, <1>1, RequestTyped, EndKeeps
     DEF TypeOK, Keeps, Becomes, Unlock, stored, locks, On, Kind, Stages
<1>3. Typed'
  BY <1>0, <1>1 DEF Typed, Keeps, Becomes, Unlock, Undoing, HasOriginal, Kind, Stages
<1> QED BY <1>2, <1>3 DEF TypeInv


\* MoveToSprint keeps the types.
LEMMA MoveToSprintTyped ==
  ASSUME TypeInv, NEW r \in Requests, MoveToSprint(r)
  PROVE  TypeInv'
<1>0. TypeOK /\ Typed
  BY DEF TypeInv
<1>1. Keeps(r, "done")
  BY <1>0, GotoKeeps DEF MoveToSprint, Stages
<1>2. TypeOK'
  BY <1>0, <1>1, RequestTyped DEF TypeOK, Keeps, Becomes, MoveToSprint, stored, locks, On, Kind
<1>3. Typed'
  BY <1>0, <1>1 DEF Typed, Keeps, Becomes, MoveToSprint, Undoing, HasOriginal, Kind, Stages
<1> QED BY <1>2, <1>3 DEF TypeInv


\* MoveToSprintFails keeps the types.
LEMMA MoveToSprintFailsTyped ==
  ASSUME TypeInv, NEW r \in Requests, MoveToSprintFails(r)
  PROVE  TypeInv'
<1>0. TypeOK /\ Typed
  BY DEF TypeInv
<1>1. Keeps(r, "undoing")
  BY <1>0, GotoKeeps DEF MoveToSprintFails, Stages
<1>2. TypeOK'
  BY <1>0, <1>1, RequestTyped DEF TypeOK, Keeps, Becomes, MoveToSprintFails, stored, locks, On, Kind
<1>3. Typed'
  BY <1>0, <1>1 DEF Typed, Keeps, Becomes, MoveToSprintFails, Undoing, HasOriginal, Kind, Stages
<1> QED BY <1>2, <1>3 DEF TypeInv


\* InterruptedWrite keeps the types.
LEMMA InterruptedWriteTyped ==
  ASSUME TypeInv, NEW r \in Requests, InterruptedWrite(r)
  PROVE  TypeInv'
<1>0. TypeOK /\ Typed
  BY DEF TypeInv
<1>1. Keeps(r, "failed")
  BY <1>0, EndKeeps DEF InterruptedWrite, Stages
<1>2. TypeOK'
  BY <1>0, <1>1, RequestTyped, EndKeeps
     DEF TypeOK, Keeps, Becomes, InterruptedWrite, stored, locks, On, Kind, Stages
<1>3. Typed'
  BY <1>0, <1>1 DEF Typed, Keeps, Becomes, InterruptedWrite, Undoing, HasOriginal, Kind, Stages
<1> QED BY <1>2, <1>3 DEF TypeInv


\* BatchFails keeps the types.
LEMMA BatchFailsTyped ==
  ASSUME TypeInv, NEW r \in Requests, BatchFails(r)
  PROVE  TypeInv'
<1>0. TypeOK /\ Typed
  BY DEF TypeInv
<1>1. Keeps(r, "undoing")
  BY <1>0, GotoKeeps DEF BatchFails, Stages
<1>2. TypeOK'
  BY <1>0, <1>1, RequestTyped DEF TypeOK, Keeps, Becomes, BatchFails, stored, locks, On, Kind
<1>3. Typed'
  BY <1>0, <1>1 DEF Typed, Keeps, Becomes, BatchFails, Undoing, HasOriginal, Kind, Stages
<1> QED BY <1>2, <1>3 DEF TypeInv


\* RemoveTicketFile keeps the types.
LEMMA RemoveTicketFileTyped ==
  ASSUME TypeInv, NEW r \in Requests, RemoveTicketFile(r)
  PROVE  TypeInv'
<1>0. TypeOK /\ Typed
  BY DEF TypeInv
<1>1. Keeps(r, "removed")
  BY <1>0, GotoKeeps DEF RemoveTicketFile, Stages
<1>2. TypeOK'
  BY <1>0, <1>1, RequestTyped DEF TypeOK, Keeps, Becomes, RemoveTicketFile, stored, locks, On, Kind
<1>3. Typed'
  BY <1>0, <1>1 DEF Typed, Keeps, Becomes, RemoveTicketFile, Undoing, HasOriginal, Kind, Stages
<1> QED BY <1>2, <1>3 DEF TypeInv


\* DeleteTicket keeps the types.
LEMMA DeleteTicketTyped ==
  ASSUME TypeInv, NEW r \in Requests, DeleteTicket(r)
  PROVE  TypeInv'
<1>0. TypeOK /\ Typed
  BY DEF TypeInv
<1>1. Keeps(r, "done")
  BY <1>0, EndKeeps DEF DeleteTicket, Stages
<1>2. TypeOK'
  BY <1>0, <1>1, RequestTyped, EndKeeps
     DEF TypeOK, Keeps, Becomes, DeleteTicket, stored, locks, On, Kind, Stages
<1>3. Typed'
  BY <1>0, <1>1 DEF Typed, Keeps, Becomes, DeleteTicket, Undoing, HasOriginal, Kind, Stages
<1> QED BY <1>2, <1>3 DEF TypeInv


\* DeleteTicketFails keeps the types.
LEMMA DeleteTicketFailsTyped ==
  ASSUME TypeInv, NEW r \in Requests, DeleteTicketFails(r)
  PROVE  TypeInv'
<1>0. TypeOK /\ Typed
  BY DEF TypeInv
<1>1. Keeps(r, "failed")
  BY <1>0, EndKeeps DEF DeleteTicketFails, Stages
<1>2. TypeOK'
  BY <1>0, <1>1, RequestTyped, EndKeeps
     DEF TypeOK, Keeps, Becomes, DeleteTicketFails, stored, locks, On, Kind, Stages
<1>3. Typed'
  BY <1>0, <1>1 DEF Typed, Keeps, Becomes, DeleteTicketFails, Undoing, HasOriginal, Kind, Stages
<1> QED BY <1>2, <1>3 DEF TypeInv


\* Begin keeps the types.
LEMMA BeginTyped ==
  ASSUME TypeInv, NEW r \in Requests, Begin(r)
  PROVE  TypeInv'
<1>0. TypeOK /\ Typed
  BY DEF TypeInv
<1>1. PICK d \in Docs : Becomes(r, "numbering", req[r].on, d, req[r].orig)
  BY <1>0, BeginMoves
<1>2. TypeOK'
  BY <1>0, <1>1 DEF TypeOK, Becomes, Begin, Stamp, stored, locks
<1>3. Typed'
  BY <1>0, <1>1 DEF Typed, Becomes, Begin, Undoing, HasOriginal, Kind
<1> QED BY <1>2, <1>3 DEF TypeInv

\* ReserveTicketNumber keeps the types.
LEMMA ReserveTicketNumberTyped ==
  ASSUME TypeInv, NEW r \in Requests, ReserveTicketNumber(r)
  PROVE  TypeInv'
<1>0. TypeOK /\ Typed
  BY DEF TypeInv
<1>1. Becomes(r, "reserved", nextNumber, req[r].doc, req[r].orig) /\ nextNumber \in Tickets
  BY <1>0, ReserveMoves
<1>2. nextNumber + 1 \in 1..(MaxTicket + 1)
  BY <1>1, StoreAssumption DEF Tickets
<1>3. TypeOK'
  BY <1>0, <1>1, <1>2 DEF TypeOK, Becomes, ReserveTicketNumber, locks
<1>4. Typed'
  BY <1>0, <1>1 DEF Typed, Becomes, ReserveTicketNumber, Undoing, HasOriginal
<1> QED BY <1>3, <1>4 DEF TypeInv

\* Read keeps the types.
LEMMA ReadTyped ==
  ASSUME TypeInv, NEW r \in Requests, Read(r)
  PROVE  TypeInv'
<1>0. TypeOK /\ Typed
  BY DEF TypeInv
<1>1. Becomes(r, "read", req[r].on, Patched(r), req[r].orig) /\ Patched(r) \in Docs
  BY <1>0, ReadMoves
<1>2. TypeOK'
  BY <1>0, <1>1, RequestTyped DEF TypeOK, Becomes, Read, Touch, Stamp, stored
<1>3. Typed'
  BY <1>0, <1>1 DEF Typed, Becomes, Read, Undoing, HasOriginal, Kind
<1> QED BY <1>2, <1>3 DEF TypeInv

\* ReadBulk keeps the types.
LEMMA ReadBulkTyped ==
  ASSUME TypeInv, NEW r \in Requests, ReadBulk(r)
  PROVE  TypeInv'
<1>0. TypeOK /\ Typed
  BY DEF TypeInv
<1>1. /\ Becomes(r, "read", req[r].on, Patched(r), file[On(r)])
      /\ Patched(r) \in Docs /\ file[On(r)] \in Docs
  BY <1>0, ReadBulkMoves
<1>2. TypeOK'
  BY <1>0, <1>1, RequestTyped DEF TypeOK, Becomes, ReadBulk, Touch, Stamp, stored, locks
<1>3. Typed'
  BY <1>0, <1>1 DEF Typed, Becomes, ReadBulk, Undoing, HasOriginal, Kind
<1> QED BY <1>2, <1>3 DEF TypeInv

\* ReadUndo keeps the types.
LEMMA ReadUndoTyped ==
  ASSUME TypeInv, NEW r \in Requests, ReadUndo(r)
  PROVE  TypeInv'
<1>0. TypeOK /\ Typed
  BY DEF TypeInv
<1>1. CASE Held(On(r)) /\ r \in file[On(r)].has
  <2>1. /\ Becomes(r, "undo", req[r].on, RevertTicketPatch(r), req[r].orig)
        /\ RevertTicketPatch(r) \in Docs
    BY <1>1, ReadUndoMoves
  <2>2. TypeOK'
    BY <1>0, <1>1, <2>1 DEF TypeOK, Becomes, ReadUndo, stored, locks
  <2>3. Typed'
    BY <1>0, <2>1 DEF Typed, Becomes, ReadUndo, Undoing, HasOriginal
  <2> QED BY <2>2, <2>3 DEF TypeInv
<1>2. CASE ~(Held(On(r)) /\ r \in file[On(r)].has)
  <2>1. End(r, "failed")
    BY <1>2 DEF ReadUndo
  <2>2. Keeps(r, "failed")
    BY <1>0, <2>1, EndKeeps DEF Stages
  <2>3. TypeOK'
    BY <1>0, <2>1, <2>2, EndKeeps DEF TypeOK, Keeps, Becomes, ReadUndo, stored, Stages
  <2>4. Typed'
    BY <1>0, <2>2 DEF Typed, Keeps, Becomes, Undoing, HasOriginal
  <2> QED BY <2>3, <2>4 DEF TypeInv
<1> QED BY <1>1, <1>2

\* The record of scan s, and no other, is given these fields.
ScanBecomes(s, b, g, l, bs, ds) ==
  /\ scan' \in [Scans -> ScanRecords]
  /\ scan'[s].by = b
  /\ scan'[s].stage = g
  /\ scan'[s].left = l
  /\ scan'[s].before = bs
  /\ scan'[s].docs = ds
  /\ \A o \in Scans : o # s => scan'[o] = scan[o]

Nothing == [t \in Tickets |-> None]

\* The record of a scan that does not run.
LEMMA NoScanIsTyped ==
  /\ NoScan \in ScanRecords
  /\ NoScan.by = "tool" /\ NoScan.stage = "idle" /\ NoScan.left = {}
  /\ NoScan.before = Nothing /\ NoScan.docs = Nothing
BY DEF NoScan, ScanRecords, Callers, Nothing

\* What a scan has.
LEMMA ScanTyped ==
  ASSUME TypeOK, NEW s \in Scans
  PROVE  /\ scan \in [Scans -> ScanRecords]
         /\ scan[s] \in ScanRecords
         /\ scan[s].by \in Callers
         /\ scan[s].stage \in {"idle", "list", "read", "write"}
         /\ scan[s].left \in SUBSET Tickets
         /\ scan[s].before \in [Tickets -> Nat \cup {None}]
         /\ scan[s].docs \in [Tickets -> Docs \cup {None}]
<1>1. scan \in [Scans -> ScanRecords] /\ scan[s] \in ScanRecords
  BY DEF TypeOK
<1> QED BY <1>1 DEF ScanRecords

\* The refs of the rows.
LEMMA RefsTyped ==
  ASSUME TypeOK
  PROVE  /\ Refs \in [Tickets -> Nat \cup {None}]
         /\ \A t \in Tickets : Refs[t] = IF row[t] = None THEN None ELSE row[t].at
         /\ \A t \in Tickets : row[t] # None => row[t].at \in Nat
<1>1. \A t \in Tickets : row[t] \in Rows \cup {None}
  BY DEF TypeOK
<1> QED BY <1>1 DEF Refs, Rows

\* What StartScan does to the record of its request or scan.
LEMMA StartScanMoves ==
  ASSUME TypeOK, NEW s \in Scans, NEW by \in Callers, StartScan(s, by)
  PROVE  ScanBecomes(s, by, "list", {}, Refs, Nothing)
<1> DEFINE rec == [NoScan EXCEPT !.by = by, !.stage = "list", !.before = Refs]
<1>1. scan' = [scan EXCEPT ![s] = rec] /\ scan \in [Scans -> ScanRecords]
  BY ScanTyped DEF StartScan
<1>2. /\ rec \in ScanRecords
      /\ rec.by = by /\ rec.stage = "list" /\ rec.left = {} /\ rec.before = Refs
      /\ rec.docs = Nothing
  BY NoScanIsTyped, RefsTyped DEF ScanRecords
<1> HIDE DEF rec
<1> QED BY <1>1, <1>2 DEF ScanBecomes

\* What ListIds does to the record of its request or scan.
LEMMA ListIdsMoves ==
  ASSUME TypeOK, NEW s \in Scans, ListIds(s)
  PROVE  ScanBecomes(s, scan[s].by, "read", {t \in Tickets : Held(t)}, scan[s].before, scan[s].docs)
<1> DEFINE l == {t \in Tickets : Held(t)}
           rec == [scan[s] EXCEPT !.stage = "read", !.left = l]
<1>1. scan' = [scan EXCEPT ![s] = rec] /\ scan \in [Scans -> ScanRecords]
  BY ScanTyped DEF ListIds
<1>2. l \in SUBSET Tickets
  OBVIOUS
<1> HIDE DEF l
<1>3. /\ rec \in ScanRecords
      /\ rec.by = scan[s].by /\ rec.stage = "read" /\ rec.left = l
      /\ rec.before = scan[s].before /\ rec.docs = scan[s].docs
  BY <1>2, ScanTyped DEF ScanRecords
<1> HIDE DEF rec
<1>4. ScanBecomes(s, scan[s].by, "read", l, scan[s].before, scan[s].docs)
  BY <1>1, <1>3 DEF ScanBecomes
<1> QED BY <1>4 DEF l

\* What ReadDocument does to the record of its request or scan.
LEMMA ReadDocumentMoves ==
  ASSUME TypeOK, NEW s \in Scans, NEW t \in Tickets, ReadDocument(s, t)
  PROVE  ScanBecomes(s, scan[s].by, scan[s].stage, scan[s].left \ {t}, scan[s].before,
                     [scan[s].docs EXCEPT ![t] = file[t]])
<1> DEFINE l == scan[s].left \ {t}
           ds == [scan[s].docs EXCEPT ![t] = file[t]]
           rec == [scan[s] EXCEPT !.left = l, !.docs = ds]
<1>1. scan' = [scan EXCEPT ![s] = rec] /\ scan \in [Scans -> ScanRecords]
  BY ScanTyped DEF ReadDocument
<1>2. l \in SUBSET Tickets /\ ds \in [Tickets -> Docs \cup {None}]
  BY ScanTyped DEF TypeOK
<1> HIDE DEF l, ds
<1>3. /\ rec \in ScanRecords
      /\ rec.by = scan[s].by /\ rec.stage = scan[s].stage /\ rec.left = l
      /\ rec.before = scan[s].before /\ rec.docs = ds
  BY <1>2, ScanTyped DEF ScanRecords
<1> HIDE DEF rec
<1>4. ScanBecomes(s, scan[s].by, scan[s].stage, l, scan[s].before, ds)
  BY <1>1, <1>3 DEF ScanBecomes
<1> QED BY <1>4 DEF l, ds

\* A scan that found drift goes on to write.
LEMMA ToWriteMoves ==
  ASSUME TypeOK, NEW s \in Scans, scan' = [scan EXCEPT ![s].stage = "write"]
  PROVE  ScanBecomes(s, scan[s].by, "write", scan[s].left, scan[s].before, scan[s].docs)
<1> DEFINE rec == [scan[s] EXCEPT !.stage = "write"]
<1>1. scan' = [scan EXCEPT ![s] = rec] /\ scan \in [Scans -> ScanRecords]
  BY ScanTyped
<1>2. /\ rec \in ScanRecords
      /\ rec.by = scan[s].by /\ rec.stage = "write" /\ rec.left = scan[s].left
      /\ rec.before = scan[s].before /\ rec.docs = scan[s].docs
  BY ScanTyped DEF ScanRecords
<1> HIDE DEF rec
<1> QED BY <1>1, <1>2 DEF ScanBecomes

\* A scan that ends is forgotten.
LEMMA EndScanMoves ==
  ASSUME TypeOK, NEW s \in Scans, EndScan(s)
  PROVE  ScanBecomes(s, "tool", "idle", {}, Nothing, Nothing) /\ scan'[s] = NoScan
BY ScanTyped, NoScanIsTyped DEF EndScan, ScanBecomes


\* ReconcileOnBoot keeps the types.
LEMMA ReconcileOnBootTyped ==
  ASSUME TypeInv, NEW s \in Scans, ReconcileOnBoot(s)
  PROVE  TypeInv'
<1>0. TypeOK /\ Typed
  BY DEF TypeInv
<1>1. ScanBecomes(s, "boot", "list", {}, Refs, Nothing)
  BY <1>0, StartScanMoves DEF ReconcileOnBoot, Callers
<1>3. TypeOK'
  BY <1>0, <1>1 DEF TypeOK, ScanBecomes, ReconcileOnBoot, stored, locks
<1>4. Typed'
  BY <1>0 DEF Typed, ReconcileOnBoot
<1> QED BY <1>3, <1>4 DEF TypeInv

\* RepairUnpublished keeps the types.
LEMMA RepairUnpublishedTyped ==
  ASSUME TypeInv, NEW s \in Scans, RepairUnpublished(s)
  PROVE  TypeInv'
<1>0. TypeOK /\ Typed
  BY DEF TypeInv
<1>1. ScanBecomes(s, "repair", "list", {}, Refs, Nothing)
  BY <1>0, StartScanMoves DEF RepairUnpublished, Callers
<1>3. TypeOK'
  BY <1>0, <1>1 DEF TypeOK, ScanBecomes, RepairUnpublished, stored, locks
<1>4. Typed'
  BY <1>0 DEF Typed, RepairUnpublished
<1> QED BY <1>3, <1>4 DEF TypeInv

\* RebuildTicketIndex keeps the types.
LEMMA RebuildTicketIndexTyped ==
  ASSUME TypeInv, NEW s \in Scans, RebuildTicketIndex(s)
  PROVE  TypeInv'
<1>0. TypeOK /\ Typed
  BY DEF TypeInv
<1>1. ScanBecomes(s, "tool", "list", {}, Refs, Nothing)
  BY <1>0, StartScanMoves DEF RebuildTicketIndex, Callers
<1>2. spent' \in [crashes : 0..MaxCrashes, rebuilds : 0..MaxRebuilds, outages : 0..MaxOutages]
  <2>1. spent \in [crashes : 0..MaxCrashes, rebuilds : 0..MaxRebuilds, outages : 0..MaxOutages]
    BY <1>0 DEF TypeOK
  <2> QED BY <2>1, StoreAssumption DEF RebuildTicketIndex
<1>3. TypeOK'
  BY <1>0, <1>1, <1>2 DEF TypeOK, ScanBecomes, RebuildTicketIndex, stored, locks
<1>4. Typed'
  BY <1>0 DEF Typed, RebuildTicketIndex
<1> QED BY <1>3, <1>4 DEF TypeInv

\* ListIds keeps the types.
LEMMA ListIdsTyped ==
  ASSUME TypeInv, NEW s \in Scans, ListIds(s)
  PROVE  TypeInv'
<1>0. TypeOK /\ Typed
  BY DEF TypeInv
<1>1. ScanBecomes(s, scan[s].by, "read", {t \in Tickets : Held(t)}, scan[s].before, scan[s].docs)
  BY <1>0, ListIdsMoves
<1>2. TypeOK'
  BY <1>0, <1>1 DEF TypeOK, ScanBecomes, ListIds, stored, locks
<1>3. Typed'
  BY <1>0 DEF Typed, ListIds
<1> QED BY <1>2, <1>3 DEF TypeInv

\* ReadDocument keeps the types.
LEMMA ReadDocumentTyped ==
  ASSUME TypeInv, NEW s \in Scans, NEW t \in Tickets, ReadDocument(s, t)
  PROVE  TypeInv'
<1>0. TypeOK /\ Typed
  BY DEF TypeInv
<1>1. ScanBecomes(s, scan[s].by, scan[s].stage, scan[s].left \ {t}, scan[s].before,
                    [scan[s].docs EXCEPT ![t] = file[t]])
  BY <1>0, ReadDocumentMoves
<1>2. TypeOK'
  BY <1>0, <1>1 DEF TypeOK, ScanBecomes, ReadDocument, stored, locks
<1>3. Typed'
  BY <1>0 DEF Typed, ReadDocument
<1> QED BY <1>2, <1>3 DEF TypeInv

\* DetectDrift keeps the types.
LEMMA DetectDriftTyped ==
  ASSUME TypeInv, NEW s \in Scans, DetectDrift(s)
  PROVE  TypeInv'
<1>0. TypeOK /\ Typed
  BY DEF TypeInv
<1>1. Typed'
  BY <1>0 DEF Typed, DetectDrift
<1>2. CASE scan[s].by = "tool" \/ Drift(s)
  <2>1. ScanBecomes(s, scan[s].by, "write", scan[s].left, scan[s].before, scan[s].docs)
    BY <1>0, <1>2, ToWriteMoves DEF DetectDrift
  <2> QED BY <1>0, <1>1, <1>2, <2>1 DEF TypeInv, TypeOK, ScanBecomes, DetectDrift, stored, locks
<1>3. CASE ~(scan[s].by = "tool" \/ Drift(s))
  <2>1. EndScan(s) /\ Finished(s)
    BY <1>3 DEF DetectDrift
  <2>2. scan' \in [Scans -> ScanRecords]
    BY <1>0, <2>1, EndScanMoves DEF ScanBecomes
  <2> QED BY <1>0, <1>1, <1>3, <2>1, <2>2 DEF TypeInv, TypeOK, DetectDrift, Finished, stored, locks
<1> QED BY <1>2, <1>3

\* What a scan has read.
LEMMA DocumentTyped ==
  ASSUME TypeOK, NEW s \in Scans, NEW t \in Tickets, scan[s].docs[t] # None
  PROVE  /\ scan[s].docs[t] \in Docs
         /\ scan[s].docs[t].at \in Nat
         /\ scan[s].docs[t].comments \subseteq Requests
         /\ Fields(scan[s].docs[t]) \in Rows
         /\ Fields(scan[s].docs[t]).at = scan[s].docs[t].at
<1>1. scan[s].docs[t] \in Docs
  BY ScanTyped
<1> QED BY <1>1 DEF Docs, Rows, Fields

\* WriteProjectIndex keeps the types.
LEMMA WriteProjectIndexTyped ==
  ASSUME TypeInv, NEW s \in Scans, WriteProjectIndex(s)
  PROVE  TypeInv'
<1>0. TypeOK /\ Typed
  BY DEF TypeInv
<1>1. row' \in [Tickets -> Rows \cup {None}]
  <2>1. \A t \in Tickets : Rewritten(s, t) => Fields(scan[s].docs[t]) \in Rows
    BY <1>0, DocumentTyped DEF Rewritten
  <2>2. row \in [Tickets -> Rows \cup {None}]
    BY <1>0 DEF TypeOK
  <2> QED BY <2>1, <2>2 DEF WriteProjectIndex
<1>2. listed' \subseteq Requests
  <2>1. \A t \in Tickets : Rewritten(s, t) => scan[s].docs[t].comments \subseteq Requests
    BY <1>0, DocumentTyped DEF Rewritten
  <2>2. listed \subseteq Requests
    BY <1>0 DEF TypeOK
  <2> QED BY <2>1, <2>2 DEF WriteProjectIndex
<1>3. nextNumber' \in 1..(MaxTicket + 1)
  BY <1>0 DEF TypeOK, WriteProjectIndex, Greatest
<1>4. scan' \in [Scans -> ScanRecords]
  BY <1>0, EndScanMoves DEF WriteProjectIndex, ScanBecomes
<1>5. TypeOK'
  BY <1>0, <1>1, <1>2, <1>3, <1>4 DEF TypeOK, WriteProjectIndex, Finished, locks
<1>6. Typed'
  BY <1>0 DEF Typed, WriteProjectIndex
<1> QED BY <1>5, <1>6 DEF TypeInv

\* ReconcileFails keeps the types.
LEMMA ReconcileFailsTyped ==
  ASSUME TypeInv, NEW s \in Scans, ReconcileFails(s)
  PROVE  TypeInv'
<1>0. TypeOK /\ Typed
  BY DEF TypeInv
<1>1. scan' \in [Scans -> ScanRecords]
  BY <1>0, EndScanMoves DEF ReconcileFails, ScanBecomes
<1>2. spent' \in [crashes : 0..MaxCrashes, rebuilds : 0..MaxRebuilds, outages : 0..MaxOutages]
  BY <1>0, OutageTyped DEF ReconcileFails
<1>3. TypeOK'
  BY <1>0, <1>1, <1>2 DEF TypeOK, ReconcileFails, stored, locks
<1>4. Typed'
  BY <1>0 DEF Typed, ReconcileFails
<1> QED BY <1>3, <1>4 DEF TypeInv

\* A crash fails the requests that have begun and not ended.
LEMMA CrashMoves ==
  ASSUME TypeOK, Crash
  PROVE  /\ req' \in [Requests -> RequestRecords]
         /\ \A q \in Requests :
              /\ req'[q].kind = req[q].kind /\ req'[q].on = req[q].on
              /\ req'[q].doc = req[q].doc /\ req'[q].orig = req[q].orig
              /\ IF req[q].stage \in {"idle", "done"} THEN req'[q].stage = req[q].stage
                                                      ELSE req'[q].stage = "failed"
<1>1. \A q \in Requests :
        /\ req[q] \in RequestRecords
        /\ [req[q] EXCEPT !.stage = "failed"] \in RequestRecords
        /\ [req[q] EXCEPT !.stage = "failed"].stage = "failed"
        /\ [req[q] EXCEPT !.stage = "failed"].kind = req[q].kind
        /\ [req[q] EXCEPT !.stage = "failed"].on = req[q].on
        /\ [req[q] EXCEPT !.stage = "failed"].doc = req[q].doc
        /\ [req[q] EXCEPT !.stage = "failed"].orig = req[q].orig
  BY DEF TypeOK, RequestRecords, Stages
<1>2. req' = [r \in Requests |-> IF req[r].stage \in {"idle", "done"} THEN req[r]
                                 ELSE [req[r] EXCEPT !.stage = "failed"]]
  BY DEF Crash
<1> QED BY <1>1, <1>2

\* Crash keeps the types.
LEMMA CrashTyped ==
  ASSUME TypeInv, Crash
  PROVE  TypeInv'
<1>0. TypeOK /\ Typed
  BY DEF TypeInv
<1>1. scan' \in [Scans -> ScanRecords]
  BY NoScanIsTyped DEF Crash
<1>2. spent' \in [crashes : 0..MaxCrashes, rebuilds : 0..MaxRebuilds, outages : 0..MaxOutages]
  <2>1. spent \in [crashes : 0..MaxCrashes, rebuilds : 0..MaxRebuilds, outages : 0..MaxOutages]
    BY <1>0 DEF TypeOK
  <2> QED BY <2>1, StoreAssumption DEF Crash
<1>3. docLock' \in [Tickets -> Requests \cup {None}] /\ writeLock' \in [Tickets -> Requests \cup {None}]
  BY DEF Crash
<1>4. TypeOK'
  BY <1>0, <1>1, <1>2, <1>3, CrashMoves DEF TypeOK, Crash, stored
<1>5. Typed'
  BY <1>0, CrashMoves DEF Typed, Undoing, HasOriginal
<1> QED BY <1>4, <1>5 DEF TypeInv

\* The first states are typed.
LEMMA InitTyped ==
  ASSUME Init
  PROVE  TypeInv
<1>1. Blank \in Docs /\ Fields(Blank) \in Rows
  BY DEF Blank, Docs, Rows, Fields
<1>2. PICK ts \in SUBSET Tickets, n \in 1..(MaxTicket + 1) :
        /\ file = [t \in Tickets |-> IF t \in ts THEN Blank ELSE None]
        /\ born = ts
        /\ nextNumber = n
  BY DEF Init
<1>3. req \in [Requests -> RequestRecords] /\ \A r \in Requests : req[r].stage = "idle"
  <2>1. req \in [Requests -> [kind : Kinds, on : Tickets, stage : {"idle"}, doc : {None}, orig : {None}]]
    BY DEF Init
  <2> QED BY <2>1 DEF RequestRecords, Stages
<1>4. scan \in [Scans -> ScanRecords]
  BY NoScanIsTyped DEF Init
<1>5. row \in [Tickets -> Rows \cup {None}]
  BY <1>1 DEF Init
<1>6. spent \in [crashes : 0..MaxCrashes, rebuilds : 0..MaxRebuilds, outages : 0..MaxOutages]
  BY StoreAssumption DEF Init
<1>7. file \in [Tickets -> Docs \cup {None}]
  BY <1>1, <1>2
<1>8. TypeOK
  BY <1>2, <1>3, <1>4, <1>5, <1>6, <1>7 DEF Init, TypeOK
<1>9. Typed
  BY <1>3 DEF Typed, Undoing, HasOriginal
<1> QED BY <1>8, <1>9 DEF TypeInv

\* Every step keeps the types.
LEMMA TypeInvStep ==
  ASSUME TypeInv, [Next]_vars
  PROVE  TypeInv'
<1>1. CASE \E r \in Requests : Request(r)
  <2>1. PICK r \in Requests : Request(r)
    BY <1>1
  <2>2. CASE Begin(r)
    BY <2>2, BeginTyped
  <2>3. CASE ReserveTicketNumber(r)
    BY <2>3, ReserveTicketNumberTyped
  <2>4. CASE CreateTicketFile(r)
    BY <2>4, CreateTicketFileTyped
  <2>5. CASE LockDocument(r)
    BY <2>5, LockDocumentTyped
  <2>6. CASE ListComment(r)
    BY <2>6, ListCommentTyped
  <2>7. CASE NotFound(r)
    BY <2>7, NotFoundTyped
  <2>8. CASE Read(r)
    BY <2>8, ReadTyped
  <2>9. CASE ReadBulk(r)
    BY <2>9, ReadBulkTyped
  <2>10. CASE WriteTicketFile(r)
    BY <2>10, WriteTicketFileTyped
  <2>11. CASE GivesUp(r)
    BY <2>11, GivesUpTyped
  <2>12. CASE UpsertTicket(r)
    BY <2>12, UpsertTicketTyped
  <2>13. CASE Unlock(r)
    BY <2>13, UnlockTyped
  <2>14. CASE MoveToSprint(r)
    BY <2>14, MoveToSprintTyped
  <2>15. CASE MoveToSprintFails(r)
    BY <2>15, MoveToSprintFailsTyped
  <2>16. CASE BatchFails(r)
    BY <2>16, BatchFailsTyped
  <2>17. CASE ReadUndo(r)
    BY <2>17, ReadUndoTyped
  <2>18. CASE InterruptedWrite(r)
    BY <2>18, InterruptedWriteTyped
  <2>19. CASE RemoveTicketFile(r)
    BY <2>19, RemoveTicketFileTyped
  <2>20. CASE DeleteTicket(r)
    BY <2>20, DeleteTicketTyped
  <2>21. CASE DeleteTicketFails(r)
    BY <2>21, DeleteTicketFailsTyped
  <2> QED BY <2>1, <2>2, <2>3, <2>4, <2>5, <2>6, <2>7, <2>8, <2>9, <2>10, <2>11, <2>12, <2>13, <2>14, <2>15, <2>16, <2>17, <2>18, <2>19, <2>20, <2>21
     DEF Request, Goes, Fails
<1>2. CASE \E s \in Scans : \/ ReconcileOnBoot(s) \/ RepairUnpublished(s) \/ RebuildTicketIndex(s)
                                \/ ScanOn(s) \/ ReconcileFails(s)
  <2>1. PICK s \in Scans : \/ ReconcileOnBoot(s) \/ RepairUnpublished(s) \/ RebuildTicketIndex(s)
                           \/ ScanOn(s) \/ ReconcileFails(s)
    BY <1>2
  <2>2. CASE ReconcileOnBoot(s)
    BY <2>2, ReconcileOnBootTyped
  <2>3. CASE RepairUnpublished(s)
    BY <2>3, RepairUnpublishedTyped
  <2>4. CASE RebuildTicketIndex(s)
    BY <2>4, RebuildTicketIndexTyped
  <2>5. CASE ListIds(s)
    BY <2>5, ListIdsTyped
  <2>6. CASE DetectDrift(s)
    BY <2>6, DetectDriftTyped
  <2>7. CASE WriteProjectIndex(s)
    BY <2>7, WriteProjectIndexTyped
  <2>8. CASE ReconcileFails(s)
    BY <2>8, ReconcileFailsTyped
  <2>9. ASSUME NEW t \in Tickets, ReadDocument(s, t)
        PROVE  TypeInv'
    BY <2>9, ReadDocumentTyped
  <2> QED BY <2>1, <2>2, <2>3, <2>4, <2>5, <2>6, <2>7, <2>8, <2>9 DEF ScanOn
<1>3. CASE Crash
  BY <1>3, CrashTyped
<1>4. CASE UNCHANGED vars
  BY <1>4 DEF vars, TypeInv, TypeOK, Typed
<1> QED BY <1>1, <1>2, <1>3, <1>4 DEF Next

\* Every variable keeps its type, whatever the kinds of request and the bounds.
THEOREM StoreTypeCorrect == Spec => []TypeOK
<1>1. Init => TypeInv
  BY InitTyped
<1>2. TypeInv /\ [Next]_vars => TypeInv'
  BY TypeInvStep
<1>3. TypeInv => TypeOK
  BY DEF TypeInv
<1> QED BY <1>1, <1>2, <1>3, PTL DEF Spec

\* A request that has no ticket yet, or only a number it may not get.
Waiting == {"idle", "numbering", "reserved"}

\* A bulk update, and a writer that does not wait for it, have begun on t.  Raced says so of
\* a request that creates a ticket as soon as it has a number, which it may not get: Crossed
\* when it has the ticket, so that what is crossed once stays so.
Crossed(t) ==
  /\ \E r \in Requests : req[r].kind = "bulk" /\ req[r].on = t /\ req[r].stage # "idle"
  /\ \E r \in Requests : /\ req[r].kind \notin LocksDocument /\ req[r].on = t
                         /\ req[r].stage \notin Waiting

\* The tickets whose row is to mirror their file.
Clean(t) == ~Crossed(t) /\ ~TakenBack(t)

\* The stages of a request that has found, or made, the file of its ticket.
Changing == {"read", "written", "published", "moving", "undoing", "undo", "undone", "removed",
             "done"}

\* A ticket that has a file, a row, a place in a scan or a request that read it has had its
\* number handed out, and a number that is reserved has not been used.
Numbers ==
  /\ \A t \in Tickets : /\ t \in born => t < nextNumber
                        /\ file[t] # None => t \in born
                        /\ row[t] # None => t \in born
  /\ \A s \in Scans : \A t \in Tickets :
       scan[s].docs[t] # None \/ scan[s].before[t] # None => t \in born
  /\ \A r \in Requests : req[r].stage \in Changing => req[r].on \in born
  /\ \A r \in Requests : req[r].stage = "reserved" =>
       /\ req[r].on < nextNumber
       /\ req[r].on \notin born
       /\ \A q \in Requests \ {r} : req[q].stage = "reserved" => req[q].on # req[r].on

\* Where a request may be, by its kind.
Places ==
  \A r \in Requests :
    /\ req[r].stage \in {"numbering", "reserved"} =>
         /\ req[r].kind = "create"
         /\ req[r].doc.has = {r}
    /\ req[r].stage = "locked" => req[r].kind \in LocksDocument
    /\ req[r].stage = "listed" => req[r].kind = "comment"
    /\ req[r].kind = "create" => req[r].stage # "read"
    /\ req[r].kind = "comment" => req[r].stage # "written"
    /\ req[r].stage = "removed" => req[r].kind = "remove"
    /\ req[r].kind = "remove" => req[r].stage \notin {"read", "written"}

\* A request that is about to write, or has written and not yet published, has its lock: the
\* ticketDocument lock if its kind takes that, the ticketWrite lock unless it is a bulk update.
Writers ==
  \A r \in Requests :
    /\ req[r].kind # "bulk" /\ req[r].stage \in {"read", "written", "removed"}
         => writeLock[req[r].on] = r
    /\ req[r].kind \in LocksDocument
         => \/ req[r].stage \in {"idle", "moving", "done", "failed"}
            \/ docLock[req[r].on] = r

\* A request that is about to write has a file to write to: who removes one waits for it.
Found ==
  \A r \in Requests :
    /\ req[r].stage \in {"read", "undo"} => file[req[r].on] # None
    /\ req[r].stage = "removed" => file[req[r].on] = None

\* What a request is about to write is its change of the file as it is now, or the file as it
\* is now without its change.
Draft(r) ==
  /\ req[r].stage = "read" =>
       IF req[r].kind = "comment"
       THEN /\ req[r].doc.at = file[req[r].on].at
            /\ req[r].doc.has = file[req[r].on].has
            /\ req[r].doc.comments = file[req[r].on].comments \cup {r}
       ELSE /\ req[r].doc.at > file[req[r].on].at
            /\ req[r].doc.has = file[req[r].on].has \cup {r}
            /\ req[r].doc.comments = file[req[r].on].comments
  /\ req[r].stage = "written" => file[req[r].on] = req[r].doc /\ r \in req[r].doc.has
  /\ req[r].stage = "undo" => /\ req[r].doc.has = file[req[r].on].has \ {r}
                              /\ req[r].doc.comments = file[req[r].on].comments

Drafts ==
  \A t \in Tickets : \A r \in Requests : ~Crossed(t) /\ req[r].on = t => Draft(r)

Times ==
  /\ \A t \in Tickets : file[t] # None => file[t].at <= now
  /\ \A r \in Requests : /\ req[r].doc # None => req[r].doc.at <= now
                         /\ req[r].orig # None => req[r].orig.at <= now

\* A row is never ahead of its file, and is right when it is not behind.
RowsBehindFiles ==
  \A t \in Tickets : Clean(t) /\ row[t] # None /\ file[t] # None =>
    /\ row[t].at <= file[t].at
    /\ row[t].at = file[t].at => row[t] = Fields(file[t])

\* Nor is what a scan has read, which is no older than the row it saw before.
ScanBehindFile(s, t) ==
  /\ scan[s].docs[t] # None /\ file[t] # None =>
       /\ scan[s].docs[t].at <= file[t].at
       /\ scan[s].docs[t].at = file[t].at => Fields(scan[s].docs[t]) = Fields(file[t])
  /\ scan[s].before[t] # None /\ file[t] # None => scan[s].before[t] <= file[t].at
  /\ scan[s].before[t] # None /\ scan[s].docs[t] # None =>
       scan[s].before[t] <= scan[s].docs[t].at
  /\ /\ scan[s].stage \in {"read", "write"}
     /\ t \notin scan[s].left
     /\ scan[s].docs[t] = None
     /\ scan[s].before[t] # None
     => file[t] = None

ScansBehindFiles == \A s \in Scans : \A t \in Tickets : Clean(t) => ScanBehindFile(s, t)

ScanStages ==
  \A s \in Scans :
    /\ scan[s].stage # "idle" /\ scan[s].by = "boot" => boot = "running"
    /\ scan[s].stage # "idle" /\ scan[s].by = "boot" =>
         \A o \in Scans \ {s} : ~(scan[o].stage # "idle" /\ scan[o].by = "boot")
    /\ scan[s].stage \in {"idle", "list", "write"} => scan[s].left = {}
    /\ scan[s].stage = "idle" => scan[s].docs = Nothing /\ scan[s].before = Nothing

\* A file whose row is not right, and that nobody is about to publish.
Stale(t) ==
  /\ file[t] # None
  /\ row[t] # Fields(file[t])
  /\ ~queued
  /\ \A r \in Requests : ~(req[r].on = t /\ req[r].stage = "written")

\* A scan that is going to find the row of t wrong.
Covers(s, t) ==
  /\ scan[s].stage # "idle"
  /\ scan[s].by \in {"boot", "repair"}
  /\ \/ scan[s].stage = "list"
     \/ t \in scan[s].left
     \/ scan[s].docs[t] # None /\ scan[s].docs[t].at = file[t].at

Covered ==
  \A t \in Tickets :
    Clean(t) /\ Stale(t) => boot \in {"pending", "failed"} \/ \E s \in Scans : Covers(s, t)

\* NoLostUpdate, for the proofs: a bulk update has made its change before it is done, too.
Acknowledged ==
  \A t \in Tickets : \A r \in Requests :
    /\ ~Crossed(t)
    /\ file[t] # None
    /\ req[r].on = t
    /\ req[r].stage \in {"published", "moving", "done"}
    /\ req[r].kind # "remove"
    => r \in file[t].has \cup file[t].comments

StoreInv ==
  /\ Numbers
  /\ Places
  /\ Writers
  /\ Drafts
  /\ Times
  /\ RowsBehindFiles
  /\ ScansBehindFiles
  /\ ScanStages
  /\ Covered
  /\ Acknowledged
  /\ Found

\* The stages in which a bulk update takes its change back, or has ended without it.
Taking == {"undoing", "undo", "undone", "failed"}

\* A step of a request does not undo that writers of a ticket crossed, or that a change of it
\* was taken back.
LEMMA CrossedStays ==
  ASSUME TypeInv, Places, NEW r \in Requests, NEW g \in Stages \ {"idle"}, NEW o, NEW d, NEW e,
         Becomes(r, g, o, d, e),
         o = req[r].on \/ req[r].stage = "numbering",
         g \in Waiting => req[r].stage \in Waiting,
         req[r].stage \in Taking => g \in Taking
  PROVE  \A t \in Tickets : (Crossed(t) => Crossed(t)') /\ (Clean(t)' => Clean(t))
<1>1. \A q \in Requests :
        /\ req'[q].kind = req[q].kind
        /\ req[q].stage # "idle" => req'[q].stage # "idle"
        /\ req[q].stage \notin Waiting => req'[q].stage \notin Waiting
        /\ req[q].stage \in Taking => req'[q].stage \in Taking
        /\ req[q].stage # "numbering" => req'[q].on = req[q].on
  BY DEF Becomes
<1>2. \A q \in Requests : req[q].stage = "numbering" => req[q].kind = "create"
  BY DEF Places
<1>3. \A t \in Tickets : Crossed(t) => Crossed(t)'
  BY <1>1, <1>2 DEF Crossed, Waiting
<1>4. \A t \in Tickets : TakenBack(t) => TakenBack(t)'
  BY <1>1 DEF TakenBack, Kind, On, Taking
<1> QED BY <1>3, <1>4 DEF Clean

\* Nor does a step that leaves the requests alone.
LEMMA CrossedWithoutRequests ==
  ASSUME UNCHANGED req
  PROVE  \A t \in Tickets : (Crossed(t) => Crossed(t)') /\ (Clean(t)' => Clean(t))
BY DEF Crossed, Clean, TakenBack, Kind, On


\* What the types say of the state, by its parts.
LEMMA StoreTypes ==
  ASSUME TypeInv
  PROVE  /\ now \in Nat
         /\ nextNumber \in Nat
         /\ \A t \in Tickets : t \in Nat
         /\ \A t \in Tickets : file[t] # None =>
              file[t] \in Docs /\ file[t].at \in Nat /\ Fields(file[t]) = [at |-> file[t].at, has |-> file[t].has]
         /\ \A t \in Tickets : row[t] # None => row[t] \in Rows /\ row[t].at \in Nat
         /\ \A r \in Requests : /\ req[r].on \in Tickets
                                /\ req[r].kind \in Kinds
                                /\ req[r].doc # None => req[r].doc \in Docs /\ req[r].doc.at \in Nat
                                /\ req[r].orig # None => req[r].orig \in Docs /\ req[r].orig.at \in Nat
                                /\ req[r].stage \in {"numbering", "reserved", "read", "written"} \cup Undoing =>
                                     req[r].doc # None
         /\ \A s \in Scans : \A t \in Tickets :
              /\ scan[s].docs[t] # None => scan[s].docs[t] \in Docs /\ scan[s].docs[t].at \in Nat
              /\ scan[s].before[t] # None => scan[s].before[t] \in Nat
         /\ None \notin Requests /\ None \notin Docs /\ None \notin Nat
<1>0. TypeOK /\ Typed
  BY DEF TypeInv
<1>1. \A d \in Docs : d.at \in Nat
  BY DEF Docs
<1>2. None \notin Requests /\ None \notin Docs /\ None \notin Rows /\ None \notin Nat
  BY StoreAssumption
<1>3. \A r \in Requests : /\ req[r].on \in Tickets
                          /\ req[r].kind \in Kinds
                          /\ req[r].doc \in Docs \cup {None}
                          /\ req[r].orig \in Docs \cup {None}
                          /\ req[r].stage \in {"numbering", "reserved", "read", "written"} \cup Undoing =>
                               req[r].doc \in Docs
  <2>1. \A r \in Requests : req[r] \in RequestRecords
    BY <1>0 DEF TypeOK
  <2> QED BY <1>0, <2>1 DEF RequestRecords, Typed
<1>4. \A s \in Scans : \A t \in Tickets : scan[s].docs[t] \in Docs \cup {None} /\ scan[s].before[t] \in Nat \cup {None}
  BY <1>0, ScanTyped
<1>5. \A t \in Tickets : file[t] \in Docs \cup {None}
  BY <1>0 DEF TypeOK
<1>6. \A t \in Tickets : row[t] \in Rows \cup {None}
  BY <1>0 DEF TypeOK
<1>7. \A t \in Tickets : row[t] # None => row[t].at \in Nat
  BY <1>6 DEF Rows
<1>8. now \in Nat /\ nextNumber \in Nat /\ \A t \in Tickets : t \in Nat
  BY <1>0, StoreAssumption DEF TypeOK, Tickets
<1>9. \A t \in Tickets : Fields(file[t]) = [at |-> file[t].at, has |-> file[t].has]
  BY DEF Fields
<1> QED BY <1>1, <1>2, <1>3, <1>4, <1>5, <1>6, <1>7, <1>8, <1>9

\* A request moves on to stage g, where it may, and writes no file and no row.
MovesOn(r, g) ==
  /\ Keeps(r, g)
  /\ LocksStay(r)
  /\ UNCHANGED <<file, row, nextNumber, born, queued, scan, boot, now>>
  /\ \/ g = "failed" /\ req[r].stage # "written"
     \/ /\ g = "locked" /\ req[r].stage = "idle" /\ req[r].kind \in LocksDocument
        /\ docLock'[req[r].on] = r
     \/ g = "listed" /\ req[r].stage = "idle" /\ req[r].kind = "comment"
     \/ g = "moving" /\ req[r].stage = "published"
     \/ g = "done" /\ req[r].stage = "moving"
     \/ /\ g = "undoing" /\ req[r].stage \in {"written", "published", "moving"}
        /\ req[r].kind = "bulk" /\ docLock'[req[r].on] = r

\* A request that moves on keeps the invariant.
LEMMA MovesOnKept ==
  ASSUME TypeInv, StoreInv, NEW r \in Requests, NEW g, MovesOn(r, g)
  PROVE  StoreInv'
<1>0. /\ TypeOK /\ Typed
      /\ Numbers /\ Places /\ Writers /\ Drafts /\ Times
      /\ RowsBehindFiles /\ ScansBehindFiles /\ ScanStages /\ Covered /\ Acknowledged /\ Found
  BY DEF TypeInv, StoreInv
<1>m. /\ Keeps(r, g) /\ LocksStay(r) /\ g \in Stages \ {"idle"}
      /\ UNCHANGED <<file, row, nextNumber, born, queued, scan, boot, now>>
  BY DEF MovesOn, Stages
<1>f0. /\ \/ g = "failed" /\ req[r].stage # "written"
          \/ /\ g = "locked" /\ req[r].stage = "idle" /\ req[r].kind \in LocksDocument
             /\ docLock'[req[r].on] = r
          \/ g = "listed" /\ req[r].stage = "idle" /\ req[r].kind = "comment"
          \/ g = "moving" /\ req[r].stage = "published"
          \/ g = "done" /\ req[r].stage = "moving"
          \/ /\ g = "undoing" /\ req[r].stage \in {"written", "published", "moving"}
             /\ req[r].kind = "bulk" /\ docLock'[req[r].on] = r
       /\ req[r].stage \in Undoing => req[r].kind = "bulk"
  BY <1>0 DEF MovesOn, Typed
<1>c. \A t \in Tickets : (Crossed(t) => Crossed(t)') /\ (Clean(t)' => Clean(t))
  BY <1>0, <1>m, <1>f0, CrossedStays DEF Keeps, Stages, Waiting, Taking
<1>f1. req[r].stage = "written" => TakenBack(req[r].on)'
  BY <1>m, <1>f0 DEF TakenBack, Kind, On, Keeps, Becomes
<1>1. Numbers'
  BY <1>0, <1>m, <1>f0, <1>f1, StoreTypes DEF Numbers, Changing, Undoing, Keeps, Becomes
<1>2. Places'
  BY <1>0, <1>m, <1>f0, <1>f1, StoreTypes DEF Places, Undoing, Keeps, Becomes
<1>3. Writers'
  BY <1>0, <1>m, <1>f0, <1>f1, StoreTypes DEF Writers, LocksStay, LocksDocument, Undoing, Keeps, Becomes
<1>4. Drafts'
  <2>1. Draft(r)'
    BY <1>m, <1>f0 DEF Draft, Keeps, Becomes
  <2>2. \A t \in Tickets : \A q \in Requests : ~Crossed(t) /\ q # r /\ req'[q].on = t => Draft(q)'
    BY <1>0, <1>m DEF Drafts, Draft, Keeps, Becomes
  <2> QED BY <1>c, <2>1, <2>2 DEF Drafts
<1>5. Times'
  BY <1>0, <1>m, <1>f0, <1>f1, StoreTypes DEF Times, Keeps, Becomes
<1>6. RowsBehindFiles'
  BY <1>0, <1>c, <1>m, <1>f0, <1>f1, StoreTypes DEF RowsBehindFiles, Keeps, Becomes
<1>7. ScansBehindFiles'
  BY <1>0, <1>c, <1>m, <1>f0, <1>f1, StoreTypes DEF ScansBehindFiles, ScanBehindFile, Keeps, Becomes
<1>8. ScanStages'
  BY <1>0, <1>m, <1>f0, <1>f1, StoreTypes DEF ScanStages, Keeps, Becomes
<1>9. Covered'
  <2>1. ASSUME NEW t \in Tickets, Clean(t)', Stale(t)'
        PROVE  Clean(t) /\ Stale(t)
    <3>1. Clean(t) /\ ~TakenBack(t)'
      BY <1>c, <2>1 DEF Clean
    <3>2. \A q \in Requests : ~(req[q].on = t /\ req[q].stage = "written")
      BY <1>m, <1>f1, <2>1, <3>1 DEF Stale, Keeps, Becomes
    <3> QED BY <1>m, <2>1, <3>1, <3>2 DEF Stale
  <2>2. \A t \in Tickets : \A o \in Scans : Covers(o, t) => Covers(o, t)'
    BY <1>m DEF Covers
  <2> QED BY <1>0, <1>m, <2>1, <2>2 DEF Covered
<1>10. Acknowledged'
  BY <1>0, <1>c, <1>m, <1>f0, <1>f1, StoreTypes DEF Acknowledged, Undoing, Keeps, Becomes
<1>11. Found'
  BY <1>0, <1>m, <1>f0, <1>f1, StoreTypes DEF Found, Keeps, Becomes
<1> QED BY <1>1, <1>2, <1>3, <1>4, <1>5, <1>6, <1>7, <1>8, <1>9, <1>10, <1>11 DEF StoreInv

\* LockDocument keeps the invariant.
LEMMA LockDocumentKept ==
  ASSUME TypeInv, StoreInv, NEW r \in Requests, LockDocument(r)
  PROVE  StoreInv'
<1>1. Keeps(r, "locked") /\ docLock \in [Tickets -> Requests \cup {None}] /\ req[r].on \in Tickets
  BY GotoKeeps, RequestTyped DEF TypeInv, LockDocument, Stages, On
<1>2. LocksStay(r) /\ docLock'[req[r].on] = r
  BY <1>1, StoreTypes DEF LockDocument, LocksStay, On
<1>3. MovesOn(r, "locked")
  BY <1>1, <1>2 DEF MovesOn, LockDocument, Kind, stored
<1> QED BY <1>3, MovesOnKept

\* ListComment keeps the invariant.
LEMMA ListCommentKept ==
  ASSUME TypeInv, StoreInv, NEW r \in Requests, ListComment(r)
  PROVE  StoreInv'
<1>1. Keeps(r, "listed")
  BY GotoKeeps DEF TypeInv, ListComment, Stages
<1>2. MovesOn(r, "listed")
  BY <1>1 DEF MovesOn, ListComment, Kind, LocksStay, locks
<1> QED BY <1>2, MovesOnKept

\* GivesUp keeps the invariant.
LEMMA GivesUpKept ==
  ASSUME TypeInv, StoreInv, NEW r \in Requests, GivesUp(r)
  PROVE  StoreInv'
<1>1. Keeps(r, "failed") /\ LocksStay(r)
  BY EndKeeps DEF TypeInv, GivesUp, Stages
<1>2. MovesOn(r, "failed")
  BY <1>1 DEF MovesOn, GivesUp
<1> QED BY <1>2, MovesOnKept

\* NotFound keeps the invariant.
LEMMA NotFoundKept ==
  ASSUME TypeInv, StoreInv, NEW r \in Requests, NotFound(r)
  PROVE  StoreInv'
<1>1. Keeps(r, "failed") /\ LocksStay(r)
  BY EndKeeps DEF TypeInv, NotFound, Stages
<1>2. MovesOn(r, "failed")
  BY <1>1 DEF MovesOn, NotFound, CanLock, Entries
<1> QED BY <1>2, MovesOnKept

\* DeleteTicketFails keeps the invariant.
LEMMA DeleteTicketFailsKept ==
  ASSUME TypeInv, StoreInv, NEW r \in Requests, DeleteTicketFails(r)
  PROVE  StoreInv'
<1>1. Keeps(r, "failed") /\ LocksStay(r)
  BY EndKeeps DEF TypeInv, DeleteTicketFails, Stages
<1>2. MovesOn(r, "failed")
  BY <1>1 DEF MovesOn, DeleteTicketFails, stored
<1> QED BY <1>2, MovesOnKept

\* Unlock keeps the invariant.
LEMMA UnlockKept ==
  ASSUME TypeInv, StoreInv, NEW r \in Requests, Unlock(r)
  PROVE  StoreInv'
<1>1. Keeps(r, "moving") /\ LocksStay(r)
  BY EndKeeps DEF TypeInv, Unlock, Stages
<1>2. MovesOn(r, "moving")
  BY <1>1 DEF MovesOn, Unlock, stored
<1> QED BY <1>2, MovesOnKept

\* MoveToSprint keeps the invariant.
LEMMA MoveToSprintKept ==
  ASSUME TypeInv, StoreInv, NEW r \in Requests, MoveToSprint(r)
  PROVE  StoreInv'
<1>1. Keeps(r, "done")
  BY GotoKeeps DEF TypeInv, MoveToSprint, Stages
<1>2. MovesOn(r, "done")
  BY <1>1 DEF MovesOn, MoveToSprint, LocksStay, stored, locks
<1> QED BY <1>2, MovesOnKept

\* MoveToSprintFails keeps the invariant.
LEMMA MoveToSprintFailsKept ==
  ASSUME TypeInv, StoreInv, NEW r \in Requests, MoveToSprintFails(r)
  PROVE  StoreInv'
<1>1. Keeps(r, "undoing") /\ docLock \in [Tickets -> Requests \cup {None}] /\ req[r].on \in Tickets
  BY GotoKeeps, RequestTyped DEF TypeInv, MoveToSprintFails, Stages, On
<1>2. LocksStay(r) /\ docLock'[req[r].on] = r
  BY <1>1, StoreTypes DEF MoveToSprintFails, LocksStay, On
<1>3. req[r].kind = "bulk"
  BY DEF TypeInv, Typed, Undoing, MoveToSprintFails
<1>4. MovesOn(r, "undoing")
  BY <1>1, <1>2, <1>3 DEF MovesOn, MoveToSprintFails, stored
<1> QED BY <1>4, MovesOnKept

\* BatchFails keeps the invariant.
LEMMA BatchFailsKept ==
  ASSUME TypeInv, StoreInv, NEW r \in Requests, BatchFails(r)
  PROVE  StoreInv'
<1>1. Keeps(r, "undoing")
  BY GotoKeeps DEF TypeInv, BatchFails, Stages
<1>2. req[r].kind = "bulk" /\ docLock[req[r].on] = r
  BY DEF StoreInv, Writers, LocksDocument, BatchFails, Kind
<1>3. MovesOn(r, "undoing")
  BY <1>1, <1>2 DEF MovesOn, BatchFails, LocksStay, stored, locks
<1> QED BY <1>3, MovesOnKept

\* DeleteTicket keeps the invariant.
LEMMA DeleteTicketKept ==
  ASSUME TypeInv, StoreInv, NEW r \in Requests, DeleteTicket(r)
  PROVE  StoreInv'
<1>0. /\ TypeOK /\ Typed
      /\ Numbers /\ Places /\ Writers /\ Drafts /\ Times
      /\ RowsBehindFiles /\ ScansBehindFiles /\ ScanStages /\ Covered /\ Acknowledged /\ Found
  BY DEF TypeInv, StoreInv
<1>m. Keeps(r, "done") /\ LocksStay(r)
  BY <1>0, EndKeeps DEF DeleteTicket, Stages
<1>f0. /\ req[r].stage = "removed" /\ req[r].kind = "remove" /\ req[r].on \in Tickets
       /\ file[req[r].on] = None
  BY <1>0, StoreTypes DEF DeleteTicket, Places, Found
<1>f1. \A t \in Tickets : row'[t] = IF t = req[r].on THEN None ELSE row[t]
  BY <1>0 DEF DeleteTicket, On, TypeOK
<1>f. UNCHANGED <<file, nextNumber, born, queued, scan, boot, now>>
  BY DEF DeleteTicket
<1>c. \A t \in Tickets : (Crossed(t) => Crossed(t)') /\ (Clean(t)' => Clean(t))
  BY <1>0, <1>m, <1>f0, CrossedStays DEF Keeps, Stages, Waiting, Taking
<1>1. Numbers'
  BY <1>0, <1>m, <1>f, <1>f0, <1>f1, StoreTypes DEF Numbers, Changing, Keeps, Becomes
<1>2. Places'
  BY <1>0, <1>m, <1>f, <1>f0, <1>f1, StoreTypes DEF Places, Keeps, Becomes
<1>3. Writers'
  BY <1>0, <1>m, <1>f, <1>f0, <1>f1, StoreTypes DEF Writers, LocksStay, LocksDocument, Keeps, Becomes
<1>4. Drafts'
  BY <1>0, <1>c, <1>m, <1>f, <1>f0, <1>f1, StoreTypes DEF Drafts, Draft, Keeps, Becomes
<1>5. Times'
  BY <1>0, <1>m, <1>f, <1>f0, <1>f1, StoreTypes DEF Times, Keeps, Becomes
<1>6. RowsBehindFiles'
  BY <1>0, <1>c, <1>m, <1>f, <1>f0, <1>f1, StoreTypes DEF RowsBehindFiles, Keeps, Becomes
<1>7. ScansBehindFiles'
  BY <1>0, <1>c, <1>m, <1>f, <1>f0, <1>f1, StoreTypes DEF ScansBehindFiles, ScanBehindFile, Keeps, Becomes
<1>8. ScanStages'
  BY <1>0, <1>m, <1>f, <1>f0, <1>f1, StoreTypes DEF ScanStages, Keeps, Becomes
<1>9. Covered'
  BY <1>0, <1>c, <1>m, <1>f, <1>f0, <1>f1, StoreTypes DEF Covered, Stale, Covers, Keeps, Becomes
<1>10. Acknowledged'
  BY <1>0, <1>c, <1>m, <1>f, <1>f0, <1>f1, StoreTypes DEF Acknowledged, Keeps, Becomes
<1>11. Found'
  BY <1>0, <1>m, <1>f, <1>f0, <1>f1, StoreTypes DEF Found, Keeps, Becomes
<1> QED BY <1>1, <1>2, <1>3, <1>4, <1>5, <1>6, <1>7, <1>8, <1>9, <1>10, <1>11 DEF StoreInv

\* Begin keeps the invariant.
LEMMA BeginKept ==
  ASSUME TypeInv, StoreInv, NEW r \in Requests, Begin(r)
  PROVE  StoreInv'
<1>0. /\ TypeOK /\ Typed
      /\ Numbers /\ Places /\ Writers /\ Drafts /\ Times
      /\ RowsBehindFiles /\ ScansBehindFiles /\ ScanStages /\ Covered /\ Acknowledged /\ Found
  BY DEF TypeInv, StoreInv
<1>m. PICK d \in Docs : /\ Becomes(r, "numbering", req[r].on, d, req[r].orig)
                       /\ d.at = now + 1 /\ d.has = {r}
  BY <1>0, BeginMoves
<1>f0. now' = now + 1 /\ req[r].stage = "idle" /\ req[r].kind = "create"
  BY DEF Begin, Stamp, Kind
<1>f. UNCHANGED <<file, row, listed, nextNumber, born, docLock, writeLock, queued, scan, boot>>
  BY DEF Begin, stored, locks
<1>c. \A t \in Tickets : (Crossed(t) => Crossed(t)') /\ (Clean(t)' => Clean(t))
  BY <1>0, <1>m, <1>f0, CrossedStays DEF Keeps, Stages, Waiting, Taking
<1>1. Numbers'
  BY <1>0, <1>m, <1>f, <1>f0, StoreTypes DEF Numbers, Changing, Keeps, Becomes
<1>2. Places'
  BY <1>0, <1>m, <1>f, <1>f0, StoreTypes DEF Places, Keeps, Becomes
<1>3. Writers'
  BY <1>0, <1>m, <1>f, <1>f0, StoreTypes DEF Writers, LocksStay, LocksDocument, Keeps, Becomes
<1>4. Drafts'
  BY <1>0, <1>c, <1>m, <1>f, <1>f0, StoreTypes DEF Drafts, Draft, Keeps, Becomes
<1>5. Times'
  <2>1. ASSUME NEW t \in Tickets, file[t] # None
        PROVE  file[t].at <= now'
    <3>1. file[t].at \in Nat /\ now \in Nat
      BY <2>1, StoreTypes
    <3>2. file[t].at <= now
      BY <1>0, <2>1 DEF Times
    <3> QED BY <1>f, <1>f0, <3>1, <3>2
  <2>2. ASSUME NEW q \in Requests
        PROVE  /\ req'[q].doc # None => req'[q].doc.at <= now'
               /\ req'[q].orig # None => req'[q].orig.at <= now'
    <3>1. /\ now \in Nat /\ now <= now'
          /\ req[q].doc # None => req[q].doc.at \in Nat /\ req[q].doc.at <= now
          /\ req[q].orig # None => req[q].orig.at \in Nat /\ req[q].orig.at <= now
      BY <1>0, <1>f, <1>f0, StoreTypes DEF Times
    <3> QED BY <1>0, <1>m, <1>f, <1>f0, <2>1, <3>1, StoreTypes DEF Times, Becomes
  <2> QED BY <1>f, <1>f0, <2>1, <2>2 DEF Times
<1>6. RowsBehindFiles'
  BY <1>0, <1>c, <1>m, <1>f, <1>f0, StoreTypes DEF RowsBehindFiles, Keeps, Becomes
<1>7. ScansBehindFiles'
  BY <1>0, <1>c, <1>m, <1>f, <1>f0, StoreTypes DEF ScansBehindFiles, ScanBehindFile, Keeps, Becomes
<1>8. ScanStages'
  BY <1>0, <1>m, <1>f, <1>f0, StoreTypes DEF ScanStages, Keeps, Becomes
<1>9. Covered'
  BY <1>0, <1>c, <1>m, <1>f, <1>f0, StoreTypes DEF Covered, Stale, Covers, Keeps, Becomes
<1>10. Acknowledged'
  BY <1>0, <1>c, <1>m, <1>f, <1>f0, StoreTypes DEF Acknowledged, Keeps, Becomes
<1>11. Found'
  BY <1>0, <1>m, <1>f, <1>f0, StoreTypes DEF Found, Keeps, Becomes
<1> QED BY <1>1, <1>2, <1>3, <1>4, <1>5, <1>6, <1>7, <1>8, <1>9, <1>10, <1>11 DEF StoreInv

\* ReserveTicketNumber keeps the invariant.
LEMMA ReserveTicketNumberKept ==
  ASSUME TypeInv, StoreInv, NEW r \in Requests, ReserveTicketNumber(r)
  PROVE  StoreInv'
<1>0. /\ TypeOK /\ Typed
      /\ Numbers /\ Places /\ Writers /\ Drafts /\ Times
      /\ RowsBehindFiles /\ ScansBehindFiles /\ ScanStages /\ Covered /\ Acknowledged /\ Found
  BY DEF TypeInv, StoreInv
<1>m. /\ Becomes(r, "reserved", nextNumber, req[r].doc, req[r].orig)
      /\ nextNumber \in Tickets
  BY <1>0, ReserveMoves
<1>f0. nextNumber' = nextNumber + 1 /\ req[r].stage = "numbering" /\ req[r].kind = "create"
  BY <1>0 DEF ReserveTicketNumber, Places
<1>f. UNCHANGED <<file, row, listed, born, docLock, writeLock, queued, scan, boot, now>>
  BY DEF ReserveTicketNumber, stored, locks
<1>c. \A t \in Tickets : (Crossed(t) => Crossed(t)') /\ (Clean(t)' => Clean(t))
  BY <1>0, <1>m, <1>f0, CrossedStays DEF Keeps, Stages, Waiting, Taking
<1>1. Numbers'
  BY <1>0, <1>m, <1>f, <1>f0, StoreTypes DEF Numbers, Changing, Keeps, Becomes
<1>2. Places'
  BY <1>0, <1>m, <1>f, <1>f0, StoreTypes DEF Places, Keeps, Becomes
<1>3. Writers'
  BY <1>0, <1>m, <1>f, <1>f0, StoreTypes DEF Writers, LocksStay, LocksDocument, Keeps, Becomes
<1>4. Drafts'
  BY <1>0, <1>c, <1>m, <1>f, <1>f0, StoreTypes DEF Drafts, Draft, Keeps, Becomes
<1>5. Times'
  BY <1>0, <1>m, <1>f, <1>f0, StoreTypes DEF Times, Keeps, Becomes
<1>6. RowsBehindFiles'
  BY <1>0, <1>c, <1>m, <1>f, <1>f0, StoreTypes DEF RowsBehindFiles, Keeps, Becomes
<1>7. ScansBehindFiles'
  BY <1>0, <1>c, <1>m, <1>f, <1>f0, StoreTypes DEF ScansBehindFiles, ScanBehindFile, Keeps, Becomes
<1>8. ScanStages'
  BY <1>0, <1>m, <1>f, <1>f0, StoreTypes DEF ScanStages, Keeps, Becomes
<1>9. Covered'
  BY <1>0, <1>c, <1>m, <1>f, <1>f0, StoreTypes DEF Covered, Stale, Covers, Keeps, Becomes
<1>10. Acknowledged'
  BY <1>0, <1>c, <1>m, <1>f, <1>f0, StoreTypes DEF Acknowledged, Keeps, Becomes
<1>11. Found'
  BY <1>0, <1>m, <1>f, <1>f0, StoreTypes DEF Found, Keeps, Becomes
<1> QED BY <1>1, <1>2, <1>3, <1>4, <1>5, <1>6, <1>7, <1>8, <1>9, <1>10, <1>11 DEF StoreInv

\* Read keeps the invariant.
LEMMA ReadKept ==
  ASSUME TypeInv, StoreInv, NEW r \in Requests, Read(r)
  PROVE  StoreInv'
<1>0. /\ TypeOK /\ Typed
      /\ Numbers /\ Places /\ Writers /\ Drafts /\ Times
      /\ RowsBehindFiles /\ ScansBehindFiles /\ ScanStages /\ Covered /\ Acknowledged /\ Found
  BY DEF TypeInv, StoreInv
<1>m. /\ Becomes(r, "read", req[r].on, Patched(r), req[r].orig)
      /\ Patched(r) \in Docs
  BY <1>0, ReadMoves
<1>f0. /\ file[req[r].on] # None /\ req[r].on \in Tickets
       /\ IF req[r].kind = "comment"
          THEN /\ Patched(r).at = file[req[r].on].at
               /\ Patched(r).has = file[req[r].on].has
               /\ Patched(r).comments = file[req[r].on].comments \cup {r}
               /\ now' = now
          ELSE /\ Patched(r).at = now + 1
               /\ Patched(r).has = file[req[r].on].has \cup {r}
               /\ Patched(r).comments = file[req[r].on].comments
               /\ now' = now + 1
  BY <1>0, PatchedIsTyped DEF Read, On, Kind, Held, Touch, Stamp
<1>f1. /\ req[r].kind \in {"edit", "unassign", "comment"}
       /\ req[r].stage \in {"idle", "locked", "listed"}
       /\ req[r].kind = "edit" => req[r].stage = "locked"
       /\ writeLock[req[r].on] = None
       /\ \A t \in Tickets : writeLock'[t] = IF t = req[r].on THEN r ELSE writeLock[t]
  BY <1>0 DEF Read, CanLock, Entries, Kind, On, TypeOK
<1>f. UNCHANGED <<file, row, listed, nextNumber, born, docLock, queued, scan, boot>>
  BY DEF Read, stored
<1>c. \A t \in Tickets : (Crossed(t) => Crossed(t)') /\ (Clean(t)' => Clean(t))
  BY <1>0, <1>m, <1>f1, CrossedStays DEF Keeps, Stages, Waiting, Taking
<1>1. Numbers'
  BY <1>0, <1>m, <1>f, <1>f0, <1>f1, StoreTypes DEF Numbers, Changing, Keeps, Becomes
<1>2. Places'
  BY <1>0, <1>m, <1>f, <1>f0, <1>f1, StoreTypes DEF Places, Keeps, Becomes
<1>3. Writers'
  BY <1>0, <1>m, <1>f, <1>f0, <1>f1, StoreTypes DEF Writers, LocksStay, LocksDocument, Keeps, Becomes
<1>4. Drafts'
  <2>1. Draft(r)'
    <3>1. /\ req'[r].stage = "read" /\ req'[r].on = req[r].on /\ req'[r].doc = Patched(r)
          /\ req'[r].kind = req[r].kind /\ file' = file
      BY <1>m, <1>f DEF Becomes
    <3>2. file[req[r].on].at <= now /\ file[req[r].on].at \in Nat /\ now \in Nat
      BY <1>0, <1>f0, StoreTypes DEF Times
    <3> QED BY <1>f0, <3>1, <3>2 DEF Draft
  <2>2. \A t \in Tickets : \A q \in Requests : ~Crossed(t) /\ q # r /\ req'[q].on = t => Draft(q)'
    BY <1>0, <1>m, <1>f DEF Drafts, Draft, Becomes
  <2> QED BY <1>c, <2>1, <2>2 DEF Drafts
<1>5. Times'
  <2>1. ASSUME NEW t \in Tickets, file[t] # None
        PROVE  file[t].at <= now'
    <3>1. file[t].at \in Nat /\ now \in Nat
      BY <2>1, StoreTypes
    <3>2. file[t].at <= now
      BY <1>0, <2>1 DEF Times
    <3> QED BY <1>f, <1>f0, <3>1, <3>2
  <2>2. ASSUME NEW q \in Requests
        PROVE  /\ req'[q].doc # None => req'[q].doc.at <= now'
               /\ req'[q].orig # None => req'[q].orig.at <= now'
    <3>1. /\ now \in Nat /\ now <= now'
          /\ req[q].doc # None => req[q].doc.at \in Nat /\ req[q].doc.at <= now
          /\ req[q].orig # None => req[q].orig.at \in Nat /\ req[q].orig.at <= now
      BY <1>0, <1>f, <1>f0, StoreTypes DEF Times
    <3> QED BY <1>0, <1>m, <1>f, <1>f0, <2>1, <3>1, StoreTypes DEF Times, Becomes
  <2> QED BY <1>f, <1>f0, <2>1, <2>2 DEF Times
<1>6. RowsBehindFiles'
  BY <1>0, <1>c, <1>m, <1>f, <1>f0, <1>f1, StoreTypes DEF RowsBehindFiles, Keeps, Becomes
<1>7. ScansBehindFiles'
  BY <1>0, <1>c, <1>m, <1>f, <1>f0, <1>f1, StoreTypes DEF ScansBehindFiles, ScanBehindFile, Keeps, Becomes
<1>8. ScanStages'
  BY <1>0, <1>m, <1>f, <1>f0, <1>f1, StoreTypes DEF ScanStages, Keeps, Becomes
<1>9. Covered'
  BY <1>0, <1>c, <1>m, <1>f, <1>f0, <1>f1, StoreTypes DEF Covered, Stale, Covers, Keeps, Becomes
<1>10. Acknowledged'
  BY <1>0, <1>c, <1>m, <1>f, <1>f0, <1>f1, StoreTypes DEF Acknowledged, Keeps, Becomes
<1>11. Found'
  BY <1>0, <1>m, <1>f, <1>f0, <1>f1, StoreTypes DEF Found, Keeps, Becomes
<1> QED BY <1>1, <1>2, <1>3, <1>4, <1>5, <1>6, <1>7, <1>8, <1>9, <1>10, <1>11 DEF StoreInv

\* ReadBulk keeps the invariant.
LEMMA ReadBulkKept ==
  ASSUME TypeInv, StoreInv, NEW r \in Requests, ReadBulk(r)
  PROVE  StoreInv'
<1>0. /\ TypeOK /\ Typed
      /\ Numbers /\ Places /\ Writers /\ Drafts /\ Times
      /\ RowsBehindFiles /\ ScansBehindFiles /\ ScanStages /\ Covered /\ Acknowledged /\ Found
  BY DEF TypeInv, StoreInv
<1>m. /\ Becomes(r, "read", req[r].on, Patched(r), file[req[r].on])
      /\ Patched(r) \in Docs
  BY <1>0, ReadBulkMoves DEF On
<1>f0. /\ file[req[r].on] # None /\ req[r].on \in Tickets
       /\ Patched(r).at = now + 1
       /\ Patched(r).has = file[req[r].on].has \cup {r}
       /\ Patched(r).comments = file[req[r].on].comments
       /\ now' = now + 1
       /\ req[r].kind = "bulk" /\ req[r].stage = "locked"
  BY <1>0, PatchedIsTyped DEF ReadBulk, On, Kind, Held, Touch, Stamp
<1>f. UNCHANGED <<file, row, listed, nextNumber, born, docLock, writeLock, queued, scan, boot>>
  BY DEF ReadBulk, stored, locks
<1>c. \A t \in Tickets : (Crossed(t) => Crossed(t)') /\ (Clean(t)' => Clean(t))
  BY <1>0, <1>m, <1>f0, CrossedStays DEF Keeps, Stages, Waiting, Taking
<1>1. Numbers'
  BY <1>0, <1>m, <1>f, <1>f0, StoreTypes DEF Numbers, Changing, Keeps, Becomes
<1>2. Places'
  BY <1>0, <1>m, <1>f, <1>f0, StoreTypes DEF Places, Keeps, Becomes
<1>3. Writers'
  BY <1>0, <1>m, <1>f, <1>f0, StoreTypes DEF Writers, LocksStay, LocksDocument, Keeps, Becomes
<1>4. Drafts'
  <2>1. Draft(r)'
    <3>1. /\ req'[r].stage = "read" /\ req'[r].on = req[r].on /\ req'[r].doc = Patched(r)
          /\ req'[r].kind = req[r].kind /\ file' = file
      BY <1>m, <1>f DEF Becomes
    <3>2. file[req[r].on].at <= now /\ file[req[r].on].at \in Nat /\ now \in Nat
      BY <1>0, <1>f0, StoreTypes DEF Times
    <3> QED BY <1>f0, <3>1, <3>2 DEF Draft
  <2>2. \A t \in Tickets : \A q \in Requests : ~Crossed(t) /\ q # r /\ req'[q].on = t => Draft(q)'
    BY <1>0, <1>m, <1>f DEF Drafts, Draft, Becomes
  <2> QED BY <1>c, <2>1, <2>2 DEF Drafts
<1>5. Times'
  <2>1. ASSUME NEW t \in Tickets, file[t] # None
        PROVE  file[t].at <= now'
    <3>1. file[t].at \in Nat /\ now \in Nat
      BY <2>1, StoreTypes
    <3>2. file[t].at <= now
      BY <1>0, <2>1 DEF Times
    <3> QED BY <1>f, <1>f0, <3>1, <3>2
  <2>2. ASSUME NEW q \in Requests
        PROVE  /\ req'[q].doc # None => req'[q].doc.at <= now'
               /\ req'[q].orig # None => req'[q].orig.at <= now'
    <3>1. /\ now \in Nat /\ now <= now'
          /\ req[q].doc # None => req[q].doc.at \in Nat /\ req[q].doc.at <= now
          /\ req[q].orig # None => req[q].orig.at \in Nat /\ req[q].orig.at <= now
      BY <1>0, <1>f, <1>f0, StoreTypes DEF Times
    <3> QED BY <1>0, <1>m, <1>f, <1>f0, <2>1, <3>1, StoreTypes DEF Times, Becomes
  <2> QED BY <1>f, <1>f0, <2>1, <2>2 DEF Times
<1>6. RowsBehindFiles'
  BY <1>0, <1>c, <1>m, <1>f, <1>f0, StoreTypes DEF RowsBehindFiles, Keeps, Becomes
<1>7. ScansBehindFiles'
  BY <1>0, <1>c, <1>m, <1>f, <1>f0, StoreTypes DEF ScansBehindFiles, ScanBehindFile, Keeps, Becomes
<1>8. ScanStages'
  BY <1>0, <1>m, <1>f, <1>f0, StoreTypes DEF ScanStages, Keeps, Becomes
<1>9. Covered'
  BY <1>0, <1>c, <1>m, <1>f, <1>f0, StoreTypes DEF Covered, Stale, Covers, Keeps, Becomes
<1>10. Acknowledged'
  BY <1>0, <1>c, <1>m, <1>f, <1>f0, StoreTypes DEF Acknowledged, Keeps, Becomes
<1>11. Found'
  BY <1>0, <1>m, <1>f, <1>f0, StoreTypes DEF Found, Keeps, Becomes
<1> QED BY <1>1, <1>2, <1>3, <1>4, <1>5, <1>6, <1>7, <1>8, <1>9, <1>10, <1>11 DEF StoreInv

\* RemoveTicketFile keeps the invariant.
LEMMA RemoveTicketFileKept ==
  ASSUME TypeInv, StoreInv, NEW r \in Requests, RemoveTicketFile(r)
  PROVE  StoreInv'
<1>0. /\ TypeOK /\ Typed
      /\ Numbers /\ Places /\ Writers /\ Drafts /\ Times
      /\ RowsBehindFiles /\ ScansBehindFiles /\ ScanStages /\ Covered /\ Acknowledged /\ Found
  BY DEF TypeInv, StoreInv
<1>m. Keeps(r, "removed")
  BY <1>0, GotoKeeps DEF RemoveTicketFile, Stages
<1>f0. /\ req[r].kind = "remove" /\ req[r].stage = "locked" /\ req[r].on \in Tickets
       /\ writeLock[req[r].on] = None /\ docLock[req[r].on] = r /\ req[r].on \in born
  BY <1>0, StoreTypes DEF RemoveTicketFile, Kind, On, Held, CanLock, Entries, Writers, LocksDocument, Numbers
<1>f1. /\ \A t \in Tickets : writeLock'[t] = IF t = req[r].on THEN r ELSE writeLock[t]
       /\ \A t \in Tickets : file'[t] = IF t = req[r].on THEN None ELSE file[t]
  BY <1>0 DEF RemoveTicketFile, On, TypeOK
<1>f2. \A q \in Requests : q # r /\ req[q].on = req[r].on =>
         req[q].stage \notin {"read", "written", "undo", "removed"}
  BY <1>0, <1>f0, StoreTypes DEF Writers, Typed, Undoing, LocksDocument
<1>f. UNCHANGED <<row, listed, nextNumber, born, docLock, queued, scan, boot, now>>
  BY DEF RemoveTicketFile
<1>c. \A t \in Tickets : (Crossed(t) => Crossed(t)') /\ (Clean(t)' => Clean(t))
  BY <1>0, <1>m, <1>f0, CrossedStays DEF Keeps, Stages, Waiting, Taking
<1>1. Numbers'
  BY <1>0, <1>m, <1>f, <1>f0, <1>f1, <1>f2, StoreTypes DEF Numbers, Changing, Keeps, Becomes
<1>2. Places'
  BY <1>0, <1>m, <1>f, <1>f0, <1>f1, <1>f2, StoreTypes DEF Places, Keeps, Becomes
<1>3. Writers'
  BY <1>0, <1>m, <1>f, <1>f0, <1>f1, <1>f2, StoreTypes DEF Writers, LocksStay, LocksDocument, Keeps, Becomes
<1>4. Drafts'
  <2>1. Draft(r)'
    BY <1>m DEF Draft, Keeps, Becomes
  <2>2. \A t \in Tickets : \A q \in Requests : ~Crossed(t) /\ q # r /\ req'[q].on = t => Draft(q)'
    BY <1>0, <1>m, <1>f1, <1>f2 DEF Drafts, Draft, Keeps, Becomes
  <2> QED BY <1>c, <2>1, <2>2 DEF Drafts
<1>5. Times'
  BY <1>0, <1>m, <1>f, <1>f0, <1>f1, <1>f2, StoreTypes DEF Times, Keeps, Becomes
<1>6. RowsBehindFiles'
  BY <1>0, <1>c, <1>m, <1>f, <1>f0, <1>f1, <1>f2, StoreTypes DEF RowsBehindFiles, Keeps, Becomes
<1>7. ScansBehindFiles'
  BY <1>0, <1>c, <1>m, <1>f, <1>f0, <1>f1, <1>f2, StoreTypes DEF ScansBehindFiles, ScanBehindFile, Keeps, Becomes
<1>8. ScanStages'
  BY <1>0, <1>m, <1>f, <1>f0, <1>f1, <1>f2, StoreTypes DEF ScanStages, Keeps, Becomes
<1>9. Covered'
  BY <1>0, <1>c, <1>m, <1>f, <1>f0, <1>f1, <1>f2, StoreTypes DEF Covered, Stale, Covers, Keeps, Becomes
<1>10. Acknowledged'
  BY <1>0, <1>c, <1>m, <1>f, <1>f0, <1>f1, <1>f2, StoreTypes DEF Acknowledged, Keeps, Becomes
<1>11. Found'
  BY <1>0, <1>m, <1>f, <1>f0, <1>f1, <1>f2, StoreTypes DEF Found, Keeps, Becomes
<1> QED BY <1>1, <1>2, <1>3, <1>4, <1>5, <1>6, <1>7, <1>8, <1>9, <1>10, <1>11 DEF StoreInv

\* Where the writers do not cross, they wait for each other: at one of the two locks.
LEMMA OneWriter ==
  ASSUME StoreInv, TypeInv, NEW r \in Requests, ~Crossed(req[r].on),
         req[r].stage \in {"read", "written", "undo", "removed"}
  PROVE  \A q \in Requests : q # r /\ req[q].stage \in {"read", "written", "undo", "removed"}
           => req[q].on # req[r].on
<1>1. SUFFICES ASSUME NEW q \in Requests, q # r, req[q].on = req[r].on,
                      req[q].stage \in {"read", "written", "undo", "removed"}
               PROVE  FALSE
  OBVIOUS
<1>2. /\ req[r].kind = "bulk" => req[q].kind \in LocksDocument
      /\ req[q].kind = "bulk" => req[r].kind \in LocksDocument
  BY <1>1 DEF Crossed, Waiting
<1>3. /\ req[r].kind # "bulk" => writeLock[req[r].on] = r
      /\ req[q].kind # "bulk" => writeLock[req[r].on] = q
      /\ req[r].kind \in LocksDocument => docLock[req[r].on] = r
      /\ req[q].kind \in LocksDocument => docLock[req[r].on] = q
  BY <1>1 DEF StoreInv, Writers, TypeInv, Typed, Undoing
<1> QED BY <1>1, <1>2, <1>3 DEF LocksDocument

\* The write of a comment keeps the invariant.
LEMMA WriteCommentKept ==
  ASSUME TypeInv, StoreInv, NEW r \in Requests, WriteTicketFile(r), Kind(r) = "comment"
  PROVE  StoreInv'
<1>0. /\ TypeOK /\ Typed
      /\ Numbers /\ Places /\ Writers /\ Drafts /\ Times
      /\ RowsBehindFiles /\ ScansBehindFiles /\ ScanStages /\ Covered /\ Acknowledged /\ Found
  BY DEF TypeInv, StoreInv
<1>s. req[r].stage = "read"
  BY <1>0 DEF Typed, Undoing, WriteTicketFile, Kind
<1>m. Keeps(r, "done") /\ LocksStay(r)
  BY <1>0, EndKeeps DEF WriteTicketFile, Stages
<1>f0. /\ file[req[r].on] # None /\ req[r].on \in Tickets /\ req[r].on \in born
       /\ req[r].doc \in Docs /\ req[r].doc # None
       /\ Fields(req[r].doc) = [at |-> req[r].doc.at, has |-> req[r].doc.has]
       /\ req[r].doc.at <= now /\ req[r].doc.at \in Nat /\ file[req[r].on].at \in Nat
       /\ \A t \in Tickets : file'[t] = IF t = req[r].on THEN req[r].doc ELSE file[t]
  <2>1. req[r].on \in Tickets /\ req[r].doc \in Docs /\ req[r].doc # None /\ req[r].doc.at \in Nat
    BY <1>s, StoreTypes DEF Undoing
  <2>2. file[req[r].on] # None /\ file[req[r].on].at \in Nat /\ req[r].on \in born
    BY <1>0, <1>s, <2>1, StoreTypes DEF Found, Numbers
  <2>3. \A t \in Tickets : file'[t] = IF t = req[r].on THEN req[r].doc ELSE file[t]
    BY <1>0 DEF WriteTicketFile, On, TypeOK
  <2>4. req[r].doc.at <= now
    BY <1>0, <2>1 DEF Times
  <2> QED BY <2>1, <2>2, <2>3, <2>4 DEF Fields
<1>o. \A q \in Requests :
        ~Crossed(req[r].on) /\ q # r /\ req[q].stage \in {"read", "written", "undo", "removed"}
        => req[q].on # req[r].on
  BY <1>s, OneWriter
<1>f1. ~Crossed(req[r].on) =>
         /\ req[r].doc.at = file[req[r].on].at /\ req[r].doc.has = file[req[r].on].has
         /\ req[r].doc.comments = file[req[r].on].comments \cup {r}
         /\ Fields(req[r].doc) = Fields(file[req[r].on])
  BY <1>0, <1>s, <1>f0 DEF Drafts, Draft, Kind, Fields
<1>f2. req[r].kind = "comment"
  BY DEF Kind
<1>f. UNCHANGED <<row, listed, nextNumber, born, queued, scan, boot, now>>
  BY DEF WriteTicketFile
<1>c. \A t \in Tickets : (Crossed(t) => Crossed(t)') /\ (Clean(t)' => Clean(t))
  BY <1>0, <1>m, <1>s, CrossedStays DEF Keeps, Stages, Waiting, Taking
<1>n. \A t \in Tickets : Clean(t)' => ~Crossed(t)
  BY <1>c DEF Clean
<1>1. Numbers'
  BY <1>0, <1>s, <1>m, <1>n, <1>f, <1>f0, <1>f1, <1>f2, StoreTypes DEF Numbers, Changing, Keeps, Becomes
<1>2. Places'
  BY <1>0, <1>s, <1>m, <1>n, <1>f, <1>f0, <1>f1, <1>f2, StoreTypes DEF Places, Keeps, Becomes
<1>3. Writers'
  BY <1>0, <1>s, <1>m, <1>n, <1>f, <1>f0, <1>f1, <1>f2, StoreTypes DEF Writers, LocksStay, LocksDocument, Keeps, Becomes
<1>4. Drafts'
  <2>1. ~Crossed(req[r].on) => Draft(r)'
    BY <1>s, <1>m, <1>f0, <1>f1 DEF Draft, Keeps, Becomes
  <2>2. \A t \in Tickets : \A q \in Requests : ~Crossed(t) /\ q # r /\ req'[q].on = t => Draft(q)'
    <3>1. SUFFICES ASSUME NEW t \in Tickets, ~Crossed(t), NEW q \in Requests, q # r, req'[q].on = t
                   PROVE  Draft(q)'
      OBVIOUS
    <3>2. Draft(q) /\ req'[q] = req[q] /\ req[q].on = t
      BY <1>0, <1>m, <3>1 DEF Drafts, Keeps, Becomes
    <3>3. CASE t # req[r].on
      BY <1>f0, <3>1, <3>2, <3>3 DEF Draft
    <3>4. CASE t = req[r].on
      BY <1>o, <3>1, <3>2, <3>4 DEF Draft
    <3> QED BY <3>3, <3>4
  <2>3. req'[r].on = req[r].on
    BY <1>m DEF Keeps, Becomes
  <2> QED BY <1>c, <1>f0, <2>1, <2>2, <2>3 DEF Drafts
<1>5. Times'
  BY <1>0, <1>s, <1>m, <1>n, <1>f, <1>f0, <1>f1, <1>f2, StoreTypes DEF Times, Keeps, Becomes
<1>6. RowsBehindFiles'
  BY <1>0, <1>c, <1>s, <1>m, <1>n, <1>f, <1>f0, <1>f1, <1>f2, StoreTypes DEF RowsBehindFiles, Keeps, Becomes
<1>7. ScansBehindFiles'
  BY <1>0, <1>c, <1>s, <1>m, <1>n, <1>f, <1>f0, <1>f1, <1>f2, StoreTypes DEF ScansBehindFiles, ScanBehindFile, Keeps, Becomes
<1>8. ScanStages'
  BY <1>0, <1>s, <1>m, <1>n, <1>f, <1>f0, <1>f1, <1>f2, StoreTypes DEF ScanStages, Keeps, Becomes
<1>9. Covered'
  BY <1>0, <1>c, <1>s, <1>m, <1>n, <1>f, <1>f0, <1>f1, <1>f2, StoreTypes DEF Covered, Stale, Covers, Keeps, Becomes
<1>10. Acknowledged'
  BY <1>0, <1>c, <1>s, <1>m, <1>n, <1>f, <1>f0, <1>f1, <1>f2, StoreTypes DEF Acknowledged, Keeps, Becomes
<1>11. Found'
  <2>1. \A q \in Requests : req[q].stage = "removed" => req[q].on # req[r].on
    BY <1>0, <1>f0 DEF Found
  <2> QED BY <1>0, <1>m, <1>f0, <2>1, StoreTypes DEF Found, Keeps, Becomes
<1> QED BY <1>1, <1>2, <1>3, <1>4, <1>5, <1>6, <1>7, <1>8, <1>9, <1>10, <1>11 DEF StoreInv

\* The write of a change of a field keeps the invariant.
LEMMA WriteFieldsKept ==
  ASSUME TypeInv, StoreInv, NEW r \in Requests, WriteTicketFile(r), Kind(r) # "comment",
         req[r].stage = "read"
  PROVE  StoreInv'
<1>0. /\ TypeOK /\ Typed
      /\ Numbers /\ Places /\ Writers /\ Drafts /\ Times
      /\ RowsBehindFiles /\ ScansBehindFiles /\ ScanStages /\ Covered /\ Acknowledged /\ Found
  BY DEF TypeInv, StoreInv
<1>s. req[r].stage = "read"
  OBVIOUS
<1>m. Keeps(r, "written") /\ UNCHANGED <<docLock, writeLock>>
  BY <1>0, <1>s, GotoKeeps DEF WriteTicketFile, Stages, locks
<1>f0. /\ file[req[r].on] # None /\ req[r].on \in Tickets /\ req[r].on \in born
       /\ req[r].doc \in Docs /\ req[r].doc # None
       /\ Fields(req[r].doc) = [at |-> req[r].doc.at, has |-> req[r].doc.has]
       /\ req[r].doc.at <= now /\ req[r].doc.at \in Nat /\ file[req[r].on].at \in Nat
       /\ \A t \in Tickets : file'[t] = IF t = req[r].on THEN req[r].doc ELSE file[t]
  <2>1. req[r].on \in Tickets /\ req[r].doc \in Docs /\ req[r].doc # None /\ req[r].doc.at \in Nat
    BY <1>s, StoreTypes DEF Undoing
  <2>2. file[req[r].on] # None /\ file[req[r].on].at \in Nat /\ req[r].on \in born
    BY <1>0, <1>s, <2>1, StoreTypes DEF Found, Numbers
  <2>3. \A t \in Tickets : file'[t] = IF t = req[r].on THEN req[r].doc ELSE file[t]
    BY <1>0 DEF WriteTicketFile, On, TypeOK
  <2>4. req[r].doc.at <= now
    BY <1>0, <2>1 DEF Times
  <2> QED BY <2>1, <2>2, <2>3, <2>4 DEF Fields
<1>o. \A q \in Requests :
        ~Crossed(req[r].on) /\ q # r /\ req[q].stage \in {"read", "written", "undo", "removed"}
        => req[q].on # req[r].on
  BY <1>s, OneWriter
<1>f1. ~Crossed(req[r].on) =>
         /\ req[r].doc.at > file[req[r].on].at
         /\ req[r].doc.has = file[req[r].on].has \cup {r}
         /\ req[r].doc.comments = file[req[r].on].comments
  BY <1>0, <1>s, <1>f0 DEF Drafts, Draft, Kind
<1>f2. req[r].kind # "comment" /\ req[r].kind # "create"
  BY <1>0, <1>s DEF Kind, Places
<1>f. UNCHANGED <<row, listed, nextNumber, born, queued, scan, boot, now>>
  BY DEF WriteTicketFile
<1>c. \A t \in Tickets : (Crossed(t) => Crossed(t)') /\ (Clean(t)' => Clean(t))
  BY <1>0, <1>m, <1>s, CrossedStays DEF Keeps, Stages, Waiting, Taking
<1>n. \A t \in Tickets : Clean(t)' => ~Crossed(t)
  BY <1>c DEF Clean
<1>1. Numbers'
  BY <1>0, <1>s, <1>m, <1>n, <1>f, <1>f0, <1>f1, <1>f2, StoreTypes DEF Numbers, Changing, Keeps, Becomes
<1>2. Places'
  BY <1>0, <1>s, <1>m, <1>n, <1>f, <1>f0, <1>f1, <1>f2, StoreTypes DEF Places, Keeps, Becomes
<1>3. Writers'
  BY <1>0, <1>s, <1>m, <1>n, <1>f, <1>f0, <1>f1, <1>f2, StoreTypes DEF Writers, LocksStay, LocksDocument, Keeps, Becomes
<1>4. Drafts'
  <2>1. ~Crossed(req[r].on) => Draft(r)'
    BY <1>s, <1>m, <1>f0, <1>f1 DEF Draft, Keeps, Becomes
  <2>2. \A t \in Tickets : \A q \in Requests : ~Crossed(t) /\ q # r /\ req'[q].on = t => Draft(q)'
    <3>1. SUFFICES ASSUME NEW t \in Tickets, ~Crossed(t), NEW q \in Requests, q # r, req'[q].on = t
                   PROVE  Draft(q)'
      OBVIOUS
    <3>2. Draft(q) /\ req'[q] = req[q] /\ req[q].on = t
      BY <1>0, <1>m, <3>1 DEF Drafts, Keeps, Becomes
    <3>3. CASE t # req[r].on
      BY <1>f0, <3>1, <3>2, <3>3 DEF Draft
    <3>4. CASE t = req[r].on
      BY <1>o, <3>1, <3>2, <3>4 DEF Draft
    <3> QED BY <3>3, <3>4
  <2>3. req'[r].on = req[r].on
    BY <1>m DEF Keeps, Becomes
  <2> QED BY <1>c, <1>f0, <2>1, <2>2, <2>3 DEF Drafts
<1>5. Times'
  BY <1>0, <1>s, <1>m, <1>n, <1>f, <1>f0, <1>f1, <1>f2, StoreTypes DEF Times, Keeps, Becomes
<1>6. RowsBehindFiles'
  BY <1>0, <1>c, <1>s, <1>m, <1>n, <1>f, <1>f0, <1>f1, <1>f2, StoreTypes DEF RowsBehindFiles, Keeps, Becomes
<1>7. ScansBehindFiles'
  BY <1>0, <1>c, <1>s, <1>m, <1>n, <1>f, <1>f0, <1>f1, <1>f2, StoreTypes DEF ScansBehindFiles, ScanBehindFile, Keeps, Becomes
<1>8. ScanStages'
  BY <1>0, <1>s, <1>m, <1>n, <1>f, <1>f0, <1>f1, <1>f2, StoreTypes DEF ScanStages, Keeps, Becomes
<1>9. Covered'
  BY <1>0, <1>c, <1>s, <1>m, <1>n, <1>f, <1>f0, <1>f1, <1>f2, StoreTypes DEF Covered, Stale, Covers, Keeps, Becomes
<1>10. Acknowledged'
  BY <1>0, <1>c, <1>s, <1>m, <1>n, <1>f, <1>f0, <1>f1, <1>f2, StoreTypes DEF Acknowledged, Keeps, Becomes
<1>11. Found'
  <2>1. \A q \in Requests : req[q].stage = "removed" => req[q].on # req[r].on
    BY <1>0, <1>f0 DEF Found
  <2> QED BY <1>0, <1>m, <1>f0, <2>1, StoreTypes DEF Found, Keeps, Becomes
<1> QED BY <1>1, <1>2, <1>3, <1>4, <1>5, <1>6, <1>7, <1>8, <1>9, <1>10, <1>11 DEF StoreInv

\* The write of a document that a bulk update takes back keeps the invariant.
LEMMA WriteBackKept ==
  ASSUME TypeInv, StoreInv, NEW r \in Requests, WriteTicketFile(r),
         req[r].stage = "undo"
  PROVE  StoreInv'
<1>0. /\ TypeOK /\ Typed
      /\ Numbers /\ Places /\ Writers /\ Drafts /\ Times
      /\ RowsBehindFiles /\ ScansBehindFiles /\ ScanStages /\ Covered /\ Acknowledged /\ Found
  BY DEF TypeInv, StoreInv
<1>s. req[r].stage = "undo"
  OBVIOUS
<1>f2. req[r].kind = "bulk"
  BY <1>0, <1>s DEF Typed, Undoing
<1>m. Keeps(r, "undone") /\ UNCHANGED <<docLock, writeLock>>
  BY <1>0, <1>s, <1>f2, GotoKeeps DEF WriteTicketFile, Stages, locks, Kind
<1>f0. /\ file[req[r].on] # None /\ req[r].on \in Tickets /\ req[r].on \in born
       /\ req[r].doc \in Docs /\ req[r].doc # None
       /\ Fields(req[r].doc) = [at |-> req[r].doc.at, has |-> req[r].doc.has]
       /\ req[r].doc.at <= now /\ req[r].doc.at \in Nat /\ file[req[r].on].at \in Nat
       /\ \A t \in Tickets : file'[t] = IF t = req[r].on THEN req[r].doc ELSE file[t]
  <2>1. req[r].on \in Tickets /\ req[r].doc \in Docs /\ req[r].doc # None /\ req[r].doc.at \in Nat
    BY <1>s, StoreTypes DEF Undoing
  <2>2. file[req[r].on] # None /\ file[req[r].on].at \in Nat /\ req[r].on \in born
    BY <1>0, <1>s, <2>1, StoreTypes DEF Found, Numbers
  <2>3. \A t \in Tickets : file'[t] = IF t = req[r].on THEN req[r].doc ELSE file[t]
    BY <1>0 DEF WriteTicketFile, On, TypeOK
  <2>4. req[r].doc.at <= now
    BY <1>0, <2>1 DEF Times
  <2> QED BY <2>1, <2>2, <2>3, <2>4 DEF Fields
<1>o. \A q \in Requests :
        ~Crossed(req[r].on) /\ q # r /\ req[q].stage \in {"read", "written", "undo", "removed"}
        => req[q].on # req[r].on
  BY <1>s, OneWriter
<1>f1. ~Crossed(req[r].on) =>
         /\ req[r].doc.has = file[req[r].on].has \ {r}
         /\ req[r].doc.comments = file[req[r].on].comments
  BY <1>0, <1>s, <1>f0 DEF Drafts, Draft
<1>f. UNCHANGED <<row, listed, nextNumber, born, queued, scan, boot, now>>
  BY DEF WriteTicketFile
<1>c. \A t \in Tickets : (Crossed(t) => Crossed(t)') /\ (Clean(t)' => Clean(t))
  BY <1>0, <1>m, <1>s, CrossedStays DEF Keeps, Stages, Waiting, Taking
<1>n. \A t \in Tickets : t = req[r].on => TakenBack(t)'
  BY <1>m, <1>f2 DEF TakenBack, Keeps, Becomes, Kind, On
<1>n1. \A t \in Tickets : t = req[r].on => ~Clean(t)'
  BY <1>n DEF Clean
<1>1. Numbers'
  BY <1>0, <1>s, <1>m, <1>n1, <1>f, <1>f0, <1>f1, <1>f2, StoreTypes DEF Numbers, Changing, Keeps, Becomes
<1>2. Places'
  BY <1>0, <1>s, <1>m, <1>n1, <1>f, <1>f0, <1>f1, <1>f2, StoreTypes DEF Places, Keeps, Becomes
<1>3. Writers'
  BY <1>0, <1>s, <1>m, <1>n1, <1>f, <1>f0, <1>f1, <1>f2, StoreTypes DEF Writers, LocksStay, LocksDocument, Keeps, Becomes
<1>4. Drafts'
  <2>1. ~Crossed(req[r].on) => Draft(r)'
    BY <1>m DEF Draft, Keeps, Becomes
  <2>2. \A t \in Tickets : \A q \in Requests : ~Crossed(t) /\ q # r /\ req'[q].on = t => Draft(q)'
    <3>1. SUFFICES ASSUME NEW t \in Tickets, ~Crossed(t), NEW q \in Requests, q # r, req'[q].on = t
                   PROVE  Draft(q)'
      OBVIOUS
    <3>2. Draft(q) /\ req'[q] = req[q] /\ req[q].on = t
      BY <1>0, <1>m, <3>1 DEF Drafts, Keeps, Becomes
    <3>3. CASE t # req[r].on
      BY <1>f0, <3>1, <3>2, <3>3 DEF Draft
    <3>4. CASE t = req[r].on
      BY <1>o, <3>1, <3>2, <3>4 DEF Draft
    <3> QED BY <3>3, <3>4
  <2>3. req'[r].on = req[r].on
    BY <1>m DEF Keeps, Becomes
  <2> QED BY <1>c, <1>f0, <2>1, <2>2, <2>3 DEF Drafts
<1>5. Times'
  BY <1>0, <1>s, <1>m, <1>n1, <1>f, <1>f0, <1>f1, <1>f2, StoreTypes DEF Times, Keeps, Becomes
<1>6. RowsBehindFiles'
  BY <1>0, <1>c, <1>s, <1>m, <1>n1, <1>f, <1>f0, <1>f1, <1>f2, StoreTypes DEF RowsBehindFiles, Keeps, Becomes
<1>7. ScansBehindFiles'
  BY <1>0, <1>c, <1>s, <1>m, <1>n1, <1>f, <1>f0, <1>f1, <1>f2, StoreTypes DEF ScansBehindFiles, ScanBehindFile, Keeps, Becomes
<1>8. ScanStages'
  BY <1>0, <1>s, <1>m, <1>n1, <1>f, <1>f0, <1>f1, <1>f2, StoreTypes DEF ScanStages, Keeps, Becomes
<1>9. Covered'
  BY <1>0, <1>c, <1>s, <1>m, <1>n1, <1>f, <1>f0, <1>f1, <1>f2, StoreTypes DEF Covered, Stale, Covers, Keeps, Becomes
<1>10. Acknowledged'
  BY <1>0, <1>c, <1>s, <1>m, <1>n1, <1>f, <1>f0, <1>f1, <1>f2, StoreTypes DEF Acknowledged, Keeps, Becomes
<1>11. Found'
  <2>1. \A q \in Requests : req[q].stage = "removed" => req[q].on # req[r].on
    BY <1>0, <1>f0 DEF Found
  <2> QED BY <1>0, <1>m, <1>f0, <2>1, StoreTypes DEF Found, Keeps, Becomes
<1> QED BY <1>1, <1>2, <1>3, <1>4, <1>5, <1>6, <1>7, <1>8, <1>9, <1>10, <1>11 DEF StoreInv

\* WriteTicketFile keeps the invariant.
LEMMA WriteTicketFileKept ==
  ASSUME TypeInv, StoreInv, NEW r \in Requests, WriteTicketFile(r)
  PROVE  StoreInv'
BY WriteCommentKept, WriteFieldsKept, WriteBackKept DEF WriteTicketFile

\* InterruptedWrite keeps the invariant.
LEMMA InterruptedWriteKept ==
  ASSUME TypeInv, StoreInv, NEW r \in Requests, InterruptedWrite(r)
  PROVE  StoreInv'
<1>0. /\ TypeOK /\ Typed
      /\ Numbers /\ Places /\ Writers /\ Drafts /\ Times
      /\ RowsBehindFiles /\ ScansBehindFiles /\ ScanStages /\ Covered /\ Acknowledged /\ Found
  BY DEF TypeInv, StoreInv
<1>s. req[r].stage = "read"
  BY DEF InterruptedWrite
<1>f2. req[r].kind = "bulk"
  BY DEF InterruptedWrite, Kind
<1>m. Keeps(r, "failed") /\ LocksStay(r)
  BY <1>0, EndKeeps DEF InterruptedWrite, Stages
<1>f0. /\ file[req[r].on] # None /\ req[r].on \in Tickets /\ req[r].on \in born
       /\ req[r].doc \in Docs /\ req[r].doc # None
       /\ Fields(req[r].doc) = [at |-> req[r].doc.at, has |-> req[r].doc.has]
       /\ req[r].doc.at <= now /\ req[r].doc.at \in Nat /\ file[req[r].on].at \in Nat
       /\ \A t \in Tickets : file'[t] = IF t = req[r].on THEN req[r].doc ELSE file[t]
  <2>1. req[r].on \in Tickets /\ req[r].doc \in Docs /\ req[r].doc # None /\ req[r].doc.at \in Nat
    BY <1>s, StoreTypes DEF Undoing
  <2>2. file[req[r].on] # None /\ file[req[r].on].at \in Nat /\ req[r].on \in born
    BY <1>0, <1>s, <2>1, StoreTypes DEF Found, Numbers
  <2>3. \A t \in Tickets : file'[t] = IF t = req[r].on THEN req[r].doc ELSE file[t]
    BY <1>0 DEF InterruptedWrite, On, TypeOK
  <2>4. req[r].doc.at <= now
    BY <1>0, <2>1 DEF Times
  <2> QED BY <2>1, <2>2, <2>3, <2>4 DEF Fields
<1>o. \A q \in Requests :
        ~Crossed(req[r].on) /\ q # r /\ req[q].stage \in {"read", "written", "undo", "removed"}
        => req[q].on # req[r].on
  BY <1>s, OneWriter
<1>f1. ~Crossed(req[r].on) =>
         /\ req[r].doc.has = file[req[r].on].has \cup {r}
         /\ req[r].doc.comments = file[req[r].on].comments
  BY <1>0, <1>s, <1>f0, <1>f2 DEF Drafts, Draft
<1>f. UNCHANGED <<row, listed, nextNumber, born, queued, scan, boot, now>>
  BY DEF InterruptedWrite
<1>c. \A t \in Tickets : (Crossed(t) => Crossed(t)') /\ (Clean(t)' => Clean(t))
  BY <1>0, <1>m, <1>s, CrossedStays DEF Keeps, Stages, Waiting, Taking
<1>n. \A t \in Tickets : t = req[r].on => TakenBack(t)'
  BY <1>m, <1>f2 DEF TakenBack, Keeps, Becomes, Kind, On
<1>n1. \A t \in Tickets : t = req[r].on => ~Clean(t)'
  BY <1>n DEF Clean
<1>1. Numbers'
  BY <1>0, <1>s, <1>m, <1>n1, <1>f, <1>f0, <1>f1, <1>f2, StoreTypes DEF Numbers, Changing, Keeps, Becomes
<1>2. Places'
  BY <1>0, <1>s, <1>m, <1>n1, <1>f, <1>f0, <1>f1, <1>f2, StoreTypes DEF Places, Keeps, Becomes
<1>3. Writers'
  BY <1>0, <1>s, <1>m, <1>n1, <1>f, <1>f0, <1>f1, <1>f2, StoreTypes DEF Writers, LocksStay, LocksDocument, Keeps, Becomes
<1>4. Drafts'
  <2>1. ~Crossed(req[r].on) => Draft(r)'
    BY <1>m DEF Draft, Keeps, Becomes
  <2>2. \A t \in Tickets : \A q \in Requests : ~Crossed(t) /\ q # r /\ req'[q].on = t => Draft(q)'
    <3>1. SUFFICES ASSUME NEW t \in Tickets, ~Crossed(t), NEW q \in Requests, q # r, req'[q].on = t
                   PROVE  Draft(q)'
      OBVIOUS
    <3>2. Draft(q) /\ req'[q] = req[q] /\ req[q].on = t
      BY <1>0, <1>m, <3>1 DEF Drafts, Keeps, Becomes
    <3>3. CASE t # req[r].on
      BY <1>f0, <3>1, <3>2, <3>3 DEF Draft
    <3>4. CASE t = req[r].on
      BY <1>o, <3>1, <3>2, <3>4 DEF Draft
    <3> QED BY <3>3, <3>4
  <2>3. req'[r].on = req[r].on
    BY <1>m DEF Keeps, Becomes
  <2> QED BY <1>c, <1>f0, <2>1, <2>2, <2>3 DEF Drafts
<1>5. Times'
  BY <1>0, <1>s, <1>m, <1>n1, <1>f, <1>f0, <1>f1, <1>f2, StoreTypes DEF Times, Keeps, Becomes
<1>6. RowsBehindFiles'
  BY <1>0, <1>c, <1>s, <1>m, <1>n1, <1>f, <1>f0, <1>f1, <1>f2, StoreTypes DEF RowsBehindFiles, Keeps, Becomes
<1>7. ScansBehindFiles'
  BY <1>0, <1>c, <1>s, <1>m, <1>n1, <1>f, <1>f0, <1>f1, <1>f2, StoreTypes DEF ScansBehindFiles, ScanBehindFile, Keeps, Becomes
<1>8. ScanStages'
  BY <1>0, <1>s, <1>m, <1>n1, <1>f, <1>f0, <1>f1, <1>f2, StoreTypes DEF ScanStages, Keeps, Becomes
<1>9. Covered'
  BY <1>0, <1>c, <1>s, <1>m, <1>n1, <1>f, <1>f0, <1>f1, <1>f2, StoreTypes DEF Covered, Stale, Covers, Keeps, Becomes
<1>10. Acknowledged'
  BY <1>0, <1>c, <1>s, <1>m, <1>n1, <1>f, <1>f0, <1>f1, <1>f2, StoreTypes DEF Acknowledged, Keeps, Becomes
<1>11. Found'
  <2>1. \A q \in Requests : req[q].stage = "removed" => req[q].on # req[r].on
    BY <1>0, <1>f0 DEF Found
  <2> QED BY <1>0, <1>m, <1>f0, <2>1, StoreTypes DEF Found, Keeps, Becomes
<1> QED BY <1>1, <1>2, <1>3, <1>4, <1>5, <1>6, <1>7, <1>8, <1>9, <1>10, <1>11 DEF StoreInv

\* CreateTicketFile keeps the invariant.
LEMMA CreateTicketFileKept ==
  ASSUME TypeInv, StoreInv, NEW r \in Requests, CreateTicketFile(r)
  PROVE  StoreInv'
<1>0. /\ TypeOK /\ Typed
      /\ Numbers /\ Places /\ Writers /\ Drafts /\ Times
      /\ RowsBehindFiles /\ ScansBehindFiles /\ ScanStages /\ Covered /\ Acknowledged /\ Found
  BY DEF TypeInv, StoreInv
<1>f0. /\ req[r].stage = "reserved" /\ req[r].kind = "create"
       /\ req[r].on \in Tickets /\ req[r].on \notin born /\ req[r].on < nextNumber
       /\ file[req[r].on] = None /\ row[req[r].on] = None
       /\ req[r].doc \in Docs /\ req[r].doc # None /\ req[r].doc.has = {r}
       /\ req[r].doc.at <= now
       /\ \A s \in Scans : scan[s].docs[req[r].on] = None /\ scan[s].before[req[r].on] = None
       /\ \A q \in Requests : req[q].stage \in Changing => req[q].on # req[r].on
  <2>1. req[r].stage = "reserved" /\ req[r].kind = "create"
    BY DEF CreateTicketFile, CanLock, Entries, Kind
  <2>2. req[r].on \in Tickets /\ req[r].doc \in Docs /\ req[r].doc # None
    BY <2>1, StoreTypes
  <2>3. req[r].on \notin born /\ req[r].on < nextNumber
    BY <1>0, <2>1 DEF Numbers
  <2>4. file[req[r].on] = None /\ row[req[r].on] = None
    BY <1>0, <2>2, <2>3 DEF Numbers
  <2>5. req[r].doc.has = {r}
    BY <1>0, <2>1 DEF Places
  <2>6. req[r].doc.at <= now
    BY <1>0, <2>2 DEF Times
  <2>7. /\ \A s \in Scans : scan[s].docs[req[r].on] = None /\ scan[s].before[req[r].on] = None
        /\ \A q \in Requests : req[q].stage \in Changing => req[q].on # req[r].on
    BY <1>0, <2>2, <2>3 DEF Numbers
  <2> QED BY <2>1, <2>2, <2>3, <2>4, <2>5, <2>6, <2>7
<1>f1. /\ Goto(r, "written")
       /\ \A t \in Tickets : file'[t] = IF t = req[r].on THEN req[r].doc ELSE file[t]
       /\ born' = born \cup {req[r].on}
       /\ writeLock[req[r].on] = None
       /\ \A t \in Tickets : writeLock'[t] = IF t = req[r].on THEN r ELSE writeLock[t]
  BY <1>0, <1>f0 DEF CreateTicketFile, CanLock, Held, On, TypeOK
<1>m. Keeps(r, "written")
  BY <1>0, <1>f1, GotoKeeps DEF Stages
<1>f. UNCHANGED <<row, listed, nextNumber, docLock, queued, scan, boot, now>>
  BY DEF CreateTicketFile
<1>c. \A t \in Tickets : (Crossed(t) => Crossed(t)') /\ (Clean(t)' => Clean(t))
  BY <1>0, <1>m, <1>f0, CrossedStays DEF Keeps, Stages, Waiting, Taking
<1>1. Numbers'
  BY <1>0, <1>m, <1>f, <1>f0, <1>f1, StoreTypes DEF Numbers, Changing, Keeps, Becomes
<1>2. Places'
  BY <1>0, <1>m, <1>f, <1>f0, <1>f1, StoreTypes DEF Places, Keeps, Becomes
<1>3. Writers'
  BY <1>0, <1>m, <1>f, <1>f0, <1>f1, StoreTypes DEF Writers, LocksStay, LocksDocument, Keeps, Becomes
<1>4. Drafts'
  <2>1. Draft(r)'
    BY <1>m, <1>f0, <1>f1 DEF Draft, Keeps, Becomes
  <2>2. \A t \in Tickets : \A q \in Requests : ~Crossed(t) /\ q # r /\ req'[q].on = t => Draft(q)'
    BY <1>0, <1>m, <1>f0, <1>f1 DEF Drafts, Draft, Keeps, Becomes, Changing
  <2> QED BY <1>c, <2>1, <2>2 DEF Drafts
<1>5. Times'
  BY <1>0, <1>m, <1>f, <1>f0, <1>f1, StoreTypes DEF Times, Keeps, Becomes
<1>6. RowsBehindFiles'
  BY <1>0, <1>c, <1>m, <1>f, <1>f0, <1>f1, StoreTypes DEF RowsBehindFiles, Keeps, Becomes
<1>7. ScansBehindFiles'
  BY <1>0, <1>c, <1>m, <1>f, <1>f0, <1>f1, StoreTypes DEF ScansBehindFiles, ScanBehindFile, Keeps, Becomes
<1>8. ScanStages'
  BY <1>0, <1>m, <1>f, <1>f0, <1>f1, StoreTypes DEF ScanStages, Keeps, Becomes
<1>9. Covered'
  BY <1>0, <1>c, <1>m, <1>f, <1>f0, <1>f1, StoreTypes DEF Covered, Stale, Covers, Keeps, Becomes
<1>10. Acknowledged'
  BY <1>0, <1>c, <1>m, <1>f, <1>f0, <1>f1, StoreTypes DEF Acknowledged, Changing, Keeps, Becomes
<1>11. Found'
  BY <1>0, <1>m, <1>f, <1>f0, <1>f1, StoreTypes DEF Found, Changing, Keeps, Becomes
<1> QED BY <1>1, <1>2, <1>3, <1>4, <1>5, <1>6, <1>7, <1>8, <1>9, <1>10, <1>11 DEF StoreInv

\* The publication of a change keeps the invariant.
LEMMA PublishKept ==
  ASSUME TypeInv, StoreInv, NEW r \in Requests, UpsertTicket(r), req[r].stage = "written",
         row' = [row EXCEPT ![On(r)] = Fields(req[r].doc)], UNCHANGED queued
  PROVE  StoreInv'
<1>0. /\ TypeOK /\ Typed
      /\ Numbers /\ Places /\ Writers /\ Drafts /\ Times
      /\ RowsBehindFiles /\ ScansBehindFiles /\ ScanStages /\ Covered /\ Acknowledged /\ Found
  BY DEF TypeInv, StoreInv
<1>s. req[r].stage = "written"
  OBVIOUS
<1>m. PICK g : /\ Keeps(r, g) /\ LocksStay(r)
               /\ \/ g = "published" /\ req[r].kind = "bulk" /\ UNCHANGED <<docLock, writeLock>>
                  \/ g = "done" /\ req[r].kind # "bulk"
  <2>1. CASE req[r].kind = "bulk"
    <3>1. Goto(r, "published") /\ UNCHANGED <<docLock, writeLock>>
      BY <1>s, <2>1 DEF UpsertTicket, Kind, locks
    <3>2. Keeps(r, "published") /\ LocksStay(r)
      BY <1>0, <3>1, GotoKeeps DEF Stages, LocksStay
    <3> QED BY <2>1, <3>1, <3>2
  <2>2. CASE req[r].kind # "bulk"
    <3>1. End(r, "done")
      BY <1>s, <2>2 DEF UpsertTicket, Kind
    <3>2. Keeps(r, "done") /\ LocksStay(r)
      BY <1>0, <3>1, EndKeeps DEF Stages
    <3> QED BY <2>2, <3>2
  <2> QED BY <2>1, <2>2
<1>f0. /\ req[r].on \in Tickets /\ req[r].doc # None /\ req[r].doc.at \in Nat
       /\ Fields(req[r].doc) = [at |-> req[r].doc.at, has |-> req[r].doc.has]
       /\ Fields(req[r].doc).at = req[r].doc.at
       /\ Fields(req[r].doc) # None
       /\ req[r].on \in born
  <2>1. /\ req[r].on \in Tickets /\ req[r].doc # None /\ req[r].doc.at \in Nat /\ req[r].doc \in Docs
    BY <1>s, StoreTypes DEF Undoing
  <2>2. Fields(req[r].doc) \in Rows
    BY <2>1 DEF Fields, Docs, Rows
  <2>3. req[r].on \in born
    BY <1>0, <1>s DEF Numbers, Changing
  <2> QED BY <2>1, <2>2, <2>3, StoreAssumption DEF Fields
<1>f1. /\ ~Crossed(req[r].on) => file[req[r].on] = req[r].doc /\ r \in req[r].doc.has
       /\ req[r].kind # "remove"
  BY <1>0, <1>s, <1>f0 DEF Drafts, Draft, Places
<1>f2. \A t \in Tickets : row'[t] = IF t = req[r].on THEN Fields(req[r].doc) ELSE row[t]
  BY <1>0 DEF On, TypeOK
<1>f. UNCHANGED <<file, listed, nextNumber, born, scan, boot, now, queued>>
  BY DEF UpsertTicket
<1>c. \A t \in Tickets : (Crossed(t) => Crossed(t)') /\ (Clean(t)' => Clean(t))
  BY <1>0, <1>m, <1>s, CrossedStays DEF Keeps, Stages, Waiting, Taking
<1>n. \A t \in Tickets : Clean(t)' => ~Crossed(t)
  BY <1>c DEF Clean
<1>1. Numbers'
  BY <1>0, <1>s, <1>m, <1>n, <1>f, <1>f0, <1>f1, <1>f2, StoreTypes DEF Numbers, Changing, Keeps, Becomes
<1>2. Places'
  BY <1>0, <1>s, <1>m, <1>n, <1>f, <1>f0, <1>f1, <1>f2, StoreTypes DEF Places, Keeps, Becomes
<1>3. Writers'
  BY <1>0, <1>s, <1>m, <1>n, <1>f, <1>f0, <1>f1, <1>f2, StoreTypes DEF Writers, LocksStay, LocksDocument, Keeps, Becomes
<1>4. Drafts'
  BY <1>0, <1>c, <1>s, <1>m, <1>n, <1>f, <1>f0, <1>f1, <1>f2, StoreTypes DEF Drafts, Draft, Keeps, Becomes
<1>5. Times'
  BY <1>0, <1>s, <1>m, <1>n, <1>f, <1>f0, <1>f1, <1>f2, StoreTypes DEF Times, Keeps, Becomes
<1>6. RowsBehindFiles'
  BY <1>0, <1>c, <1>s, <1>m, <1>n, <1>f, <1>f0, <1>f1, <1>f2, StoreTypes DEF RowsBehindFiles, Keeps, Becomes
<1>7. ScansBehindFiles'
  BY <1>0, <1>c, <1>s, <1>m, <1>n, <1>f, <1>f0, <1>f1, <1>f2, StoreTypes DEF ScansBehindFiles, ScanBehindFile, Keeps, Becomes
<1>8. ScanStages'
  BY <1>0, <1>s, <1>m, <1>n, <1>f, <1>f0, <1>f1, <1>f2, StoreTypes DEF ScanStages, Keeps, Becomes
<1>9. Covered'
  BY <1>0, <1>c, <1>s, <1>m, <1>n, <1>f, <1>f0, <1>f1, <1>f2, StoreTypes DEF Covered, Stale, Covers, Keeps, Becomes
<1>10. Acknowledged'
  <2>1. \A q \in Requests : q # r => req'[q] = req[q]
    BY <1>m DEF Keeps, Becomes
  <2>2. req'[r].on = req[r].on
    BY <1>m DEF Keeps, Becomes
  <2> QED BY <1>0, <1>c, <1>f, <1>f0, <1>f1, <2>1, <2>2 DEF Acknowledged
<1>11. Found'
  BY <1>0, <1>s, <1>m, <1>n, <1>f, <1>f0, <1>f1, <1>f2, StoreTypes DEF Found, Keeps, Becomes
<1> QED BY <1>1, <1>2, <1>3, <1>4, <1>5, <1>6, <1>7, <1>8, <1>9, <1>10, <1>11 DEF StoreInv

\* A publication that is queued keeps the invariant.
LEMMA EnqueueKept ==
  ASSUME TypeInv, StoreInv, NEW r \in Requests, UpsertTicket(r), req[r].stage = "written",
         UNCHANGED row, queued' = TRUE
  PROVE  StoreInv'
<1>0. /\ TypeOK /\ Typed
      /\ Numbers /\ Places /\ Writers /\ Drafts /\ Times
      /\ RowsBehindFiles /\ ScansBehindFiles /\ ScanStages /\ Covered /\ Acknowledged /\ Found
  BY DEF TypeInv, StoreInv
<1>s. req[r].stage = "written"
  OBVIOUS
<1>m. PICK g : /\ Keeps(r, g) /\ LocksStay(r)
               /\ \/ g = "published" /\ req[r].kind = "bulk" /\ UNCHANGED <<docLock, writeLock>>
                  \/ g = "done" /\ req[r].kind # "bulk"
  <2>1. CASE req[r].kind = "bulk"
    <3>1. Goto(r, "published") /\ UNCHANGED <<docLock, writeLock>>
      BY <1>s, <2>1 DEF UpsertTicket, Kind, locks
    <3>2. Keeps(r, "published") /\ LocksStay(r)
      BY <1>0, <3>1, GotoKeeps DEF Stages, LocksStay
    <3> QED BY <2>1, <3>1, <3>2
  <2>2. CASE req[r].kind # "bulk"
    <3>1. End(r, "done")
      BY <1>s, <2>2 DEF UpsertTicket, Kind
    <3>2. Keeps(r, "done") /\ LocksStay(r)
      BY <1>0, <3>1, EndKeeps DEF Stages
    <3> QED BY <2>2, <3>2
  <2> QED BY <2>1, <2>2
<1>f0. /\ req[r].on \in Tickets /\ req[r].doc # None /\ req[r].doc.at \in Nat
       /\ Fields(req[r].doc) = [at |-> req[r].doc.at, has |-> req[r].doc.has]
       /\ Fields(req[r].doc).at = req[r].doc.at
       /\ Fields(req[r].doc) # None
       /\ req[r].on \in born
  <2>1. /\ req[r].on \in Tickets /\ req[r].doc # None /\ req[r].doc.at \in Nat /\ req[r].doc \in Docs
    BY <1>s, StoreTypes DEF Undoing
  <2>2. Fields(req[r].doc) \in Rows
    BY <2>1 DEF Fields, Docs, Rows
  <2>3. req[r].on \in born
    BY <1>0, <1>s DEF Numbers, Changing
  <2> QED BY <2>1, <2>2, <2>3, StoreAssumption DEF Fields
<1>f1. /\ ~Crossed(req[r].on) => file[req[r].on] = req[r].doc /\ r \in req[r].doc.has
       /\ req[r].kind # "remove"
  BY <1>0, <1>s, <1>f0 DEF Drafts, Draft, Places
<1>f. UNCHANGED <<file, row, listed, nextNumber, born, scan, boot, now>>
  BY DEF UpsertTicket
<1>c. \A t \in Tickets : (Crossed(t) => Crossed(t)') /\ (Clean(t)' => Clean(t))
  BY <1>0, <1>m, <1>s, CrossedStays DEF Keeps, Stages, Waiting, Taking
<1>n. \A t \in Tickets : Clean(t)' => ~Crossed(t)
  BY <1>c DEF Clean
<1>1. Numbers'
  BY <1>0, <1>s, <1>m, <1>n, <1>f, <1>f0, <1>f1, StoreTypes DEF Numbers, Changing, Keeps, Becomes
<1>2. Places'
  BY <1>0, <1>s, <1>m, <1>n, <1>f, <1>f0, <1>f1, StoreTypes DEF Places, Keeps, Becomes
<1>3. Writers'
  BY <1>0, <1>s, <1>m, <1>n, <1>f, <1>f0, <1>f1, StoreTypes DEF Writers, LocksStay, LocksDocument, Keeps, Becomes
<1>4. Drafts'
  BY <1>0, <1>c, <1>s, <1>m, <1>n, <1>f, <1>f0, <1>f1, StoreTypes DEF Drafts, Draft, Keeps, Becomes
<1>5. Times'
  BY <1>0, <1>s, <1>m, <1>n, <1>f, <1>f0, <1>f1, StoreTypes DEF Times, Keeps, Becomes
<1>6. RowsBehindFiles'
  BY <1>0, <1>c, <1>s, <1>m, <1>n, <1>f, <1>f0, <1>f1, StoreTypes DEF RowsBehindFiles, Keeps, Becomes
<1>7. ScansBehindFiles'
  BY <1>0, <1>c, <1>s, <1>m, <1>n, <1>f, <1>f0, <1>f1, StoreTypes DEF ScansBehindFiles, ScanBehindFile, Keeps, Becomes
<1>8. ScanStages'
  BY <1>0, <1>s, <1>m, <1>n, <1>f, <1>f0, <1>f1, StoreTypes DEF ScanStages, Keeps, Becomes
<1>9. Covered'
  BY DEF Covered, Stale
<1>10. Acknowledged'
  <2>1. \A q \in Requests : q # r => req'[q] = req[q]
    BY <1>m DEF Keeps, Becomes
  <2>2. req'[r].on = req[r].on
    BY <1>m DEF Keeps, Becomes
  <2> QED BY <1>0, <1>c, <1>f, <1>f0, <1>f1, <2>1, <2>2 DEF Acknowledged
<1>11. Found'
  BY <1>0, <1>s, <1>m, <1>n, <1>f, <1>f0, <1>f1, StoreTypes DEF Found, Keeps, Becomes
<1> QED BY <1>1, <1>2, <1>3, <1>4, <1>5, <1>6, <1>7, <1>8, <1>9, <1>10, <1>11 DEF StoreInv

\* The publication of what a bulk update takes back keeps the invariant.
LEMMA PublishBackKept ==
  ASSUME TypeInv, StoreInv, NEW r \in Requests, UpsertTicket(r),
         req[r].stage = "undone"
  PROVE  StoreInv'
<1>0. /\ TypeOK /\ Typed
      /\ Numbers /\ Places /\ Writers /\ Drafts /\ Times
      /\ RowsBehindFiles /\ ScansBehindFiles /\ ScanStages /\ Covered /\ Acknowledged /\ Found
  BY DEF TypeInv, StoreInv
<1>s. req[r].stage = "undone"
  OBVIOUS
<1>f2. req[r].kind = "bulk"
  BY <1>0, <1>s DEF Typed, Undoing
<1>m. Keeps(r, "failed") /\ LocksStay(r)
  <2>1. End(r, "failed")
    BY <1>s DEF UpsertTicket
  <2> QED BY <1>0, <2>1, EndKeeps DEF Stages
<1>f0. /\ req[r].on \in Tickets /\ req[r].doc # None /\ req[r].doc.at \in Nat
       /\ Fields(req[r].doc) = [at |-> req[r].doc.at, has |-> req[r].doc.has]
       /\ Fields(req[r].doc).at = req[r].doc.at
       /\ Fields(req[r].doc) # None
       /\ req[r].on \in born
  <2>1. /\ req[r].on \in Tickets /\ req[r].doc # None /\ req[r].doc.at \in Nat /\ req[r].doc \in Docs
    BY <1>s, StoreTypes DEF Undoing
  <2>2. Fields(req[r].doc) \in Rows
    BY <2>1 DEF Fields, Docs, Rows
  <2>3. req[r].on \in born
    BY <1>0, <1>s DEF Numbers, Changing
  <2> QED BY <2>1, <2>2, <2>3, StoreAssumption DEF Fields
<1>f1. /\ \A t \in Tickets : t # req[r].on => row'[t] = row[t]
       /\ queued' = queued \/ queued'
  BY <1>0 DEF UpsertTicket, On, TypeOK
<1>f. UNCHANGED <<file, listed, nextNumber, born, scan, boot, now>>
  BY DEF UpsertTicket
<1>c. \A t \in Tickets : (Crossed(t) => Crossed(t)') /\ (Clean(t)' => Clean(t))
  BY <1>0, <1>m, <1>s, CrossedStays DEF Keeps, Stages, Waiting, Taking
<1>n. \A t \in Tickets : t = req[r].on => TakenBack(t)'
  BY <1>m, <1>f2 DEF TakenBack, Keeps, Becomes, Kind, On
<1>n1. \A t \in Tickets : t = req[r].on => ~Clean(t)'
  BY <1>n DEF Clean
<1>1. Numbers'
  BY <1>0, <1>s, <1>m, <1>n1, <1>f, <1>f0, <1>f1, <1>f2, StoreTypes DEF Numbers, Changing, Keeps, Becomes
<1>2. Places'
  BY <1>0, <1>s, <1>m, <1>n1, <1>f, <1>f0, <1>f1, <1>f2, StoreTypes DEF Places, Keeps, Becomes
<1>3. Writers'
  BY <1>0, <1>s, <1>m, <1>n1, <1>f, <1>f0, <1>f1, <1>f2, StoreTypes DEF Writers, LocksStay, LocksDocument, Keeps, Becomes
<1>4. Drafts'
  BY <1>0, <1>c, <1>s, <1>m, <1>n1, <1>f, <1>f0, <1>f1, <1>f2, StoreTypes DEF Drafts, Draft, Keeps, Becomes
<1>5. Times'
  BY <1>0, <1>s, <1>m, <1>n1, <1>f, <1>f0, <1>f1, <1>f2, StoreTypes DEF Times, Keeps, Becomes
<1>6. RowsBehindFiles'
  BY <1>0, <1>c, <1>s, <1>m, <1>n1, <1>f, <1>f0, <1>f1, <1>f2, StoreTypes DEF RowsBehindFiles, Keeps, Becomes
<1>7. ScansBehindFiles'
  BY <1>0, <1>c, <1>s, <1>m, <1>n1, <1>f, <1>f0, <1>f1, <1>f2, StoreTypes DEF ScansBehindFiles, ScanBehindFile, Keeps, Becomes
<1>8. ScanStages'
  BY <1>0, <1>s, <1>m, <1>n1, <1>f, <1>f0, <1>f1, <1>f2, StoreTypes DEF ScanStages, Keeps, Becomes
<1>9. Covered'
  BY <1>0, <1>c, <1>s, <1>m, <1>n1, <1>f, <1>f0, <1>f1, <1>f2, StoreTypes DEF Covered, Stale, Covers, Keeps, Becomes
<1>10. Acknowledged'
  BY <1>0, <1>c, <1>s, <1>m, <1>n1, <1>f, <1>f0, <1>f1, <1>f2, StoreTypes DEF Acknowledged, Keeps, Becomes
<1>11. Found'
  BY <1>0, <1>s, <1>m, <1>n1, <1>f, <1>f0, <1>f1, <1>f2, StoreTypes DEF Found, Keeps, Becomes
<1> QED BY <1>1, <1>2, <1>3, <1>4, <1>5, <1>6, <1>7, <1>8, <1>9, <1>10, <1>11 DEF StoreInv

\* UpsertTicket keeps the invariant.
LEMMA UpsertTicketKept ==
  ASSUME TypeInv, StoreInv, NEW r \in Requests, UpsertTicket(r)
  PROVE  StoreInv'
BY PublishKept, EnqueueKept, PublishBackKept DEF UpsertTicket

\* A bulk update that takes its change back keeps the invariant.
LEMMA ReadBackKept ==
  ASSUME TypeInv, StoreInv, NEW r \in Requests, ReadUndo(r), Held(On(r)),
         r \in file[On(r)].has
  PROVE  StoreInv'
<1>0. /\ TypeOK /\ Typed
      /\ Numbers /\ Places /\ Writers /\ Drafts /\ Times
      /\ RowsBehindFiles /\ ScansBehindFiles /\ ScanStages /\ Covered /\ Acknowledged /\ Found
  BY DEF TypeInv, StoreInv
<1>m. Becomes(r, "undo", req[r].on, RevertTicketPatch(r), req[r].orig) /\ RevertTicketPatch(r) \in Docs
  BY ReadUndoMoves
<1>f0. /\ req[r].on \in Tickets /\ file[req[r].on] # None /\ req[r].stage = "undoing" /\ req[r].kind = "bulk"
       /\ req[r].orig # None
  BY <1>0, StoreTypes DEF ReadUndo, Held, On, Typed, Undoing, HasOriginal
<1>f1. /\ RevertTicketPatch(r).has = file[req[r].on].has \ {r}
       /\ RevertTicketPatch(r).comments = file[req[r].on].comments
       /\ RevertTicketPatch(r).at \in {file[req[r].on].at, req[r].orig.at}
  <2>1. file[req[r].on] \in Docs
    BY <1>f0, StoreTypes
  <2> QED BY <2>1 DEF RevertTicketPatch, Docs, On
<1>f. UNCHANGED <<file, row, listed, nextNumber, born, docLock, writeLock, queued, scan, boot, now>>
  BY DEF ReadUndo, stored, locks
<1>c. \A t \in Tickets : (Crossed(t) => Crossed(t)') /\ (Clean(t)' => Clean(t))
  BY <1>0, <1>m, <1>f0, CrossedStays DEF Keeps, Stages, Waiting, Taking
<1>1. Numbers'
  BY <1>0, <1>m, <1>f, <1>f0, <1>f1, StoreTypes DEF Numbers, Changing, Keeps, Becomes
<1>2. Places'
  BY <1>0, <1>m, <1>f, <1>f0, <1>f1, StoreTypes DEF Places, Keeps, Becomes
<1>3. Writers'
  BY <1>0, <1>m, <1>f, <1>f0, <1>f1, StoreTypes DEF Writers, LocksStay, LocksDocument, Keeps, Becomes
<1>4. Drafts'
  <2>1. Draft(r)'
    BY <1>m, <1>f, <1>f1 DEF Draft, Becomes
  <2>2. \A t \in Tickets : \A q \in Requests : ~Crossed(t) /\ q # r /\ req'[q].on = t => Draft(q)'
    BY <1>0, <1>m, <1>f DEF Drafts, Draft, Becomes
  <2> QED BY <1>c, <2>1, <2>2 DEF Drafts
<1>5. Times'
  <2>1. file[req[r].on].at <= now /\ req[r].orig.at <= now
    BY <1>0, <1>f0 DEF Times
  <2>2. RevertTicketPatch(r).at <= now
    BY <1>f1, <2>1
  <2> QED BY <1>0, <1>m, <1>f, <2>2 DEF Times, Becomes
<1>6. RowsBehindFiles'
  BY <1>0, <1>c, <1>m, <1>f, <1>f0, <1>f1, StoreTypes DEF RowsBehindFiles, Keeps, Becomes
<1>7. ScansBehindFiles'
  BY <1>0, <1>c, <1>m, <1>f, <1>f0, <1>f1, StoreTypes DEF ScansBehindFiles, ScanBehindFile, Keeps, Becomes
<1>8. ScanStages'
  BY <1>0, <1>m, <1>f, <1>f0, <1>f1, StoreTypes DEF ScanStages, Keeps, Becomes
<1>9. Covered'
  BY <1>0, <1>c, <1>m, <1>f, <1>f0, <1>f1, StoreTypes DEF Covered, Stale, Covers, Keeps, Becomes
<1>10. Acknowledged'
  BY <1>0, <1>c, <1>m, <1>f, <1>f0, <1>f1, StoreTypes DEF Acknowledged, Keeps, Becomes
<1>11. Found'
  BY <1>0, <1>m, <1>f, <1>f0, <1>f1, StoreTypes DEF Found, Keeps, Becomes
<1> QED BY <1>1, <1>2, <1>3, <1>4, <1>5, <1>6, <1>7, <1>8, <1>9, <1>10, <1>11 DEF StoreInv

\* ReadUndo keeps the invariant.
LEMMA ReadUndoKept ==
  ASSUME TypeInv, StoreInv, NEW r \in Requests, ReadUndo(r)
  PROVE  StoreInv'
<1>1. CASE Held(On(r)) /\ r \in file[On(r)].has
  BY <1>1, ReadBackKept
<1>2. CASE ~(Held(On(r)) /\ r \in file[On(r)].has)
  <2>1. End(r, "failed")
    BY <1>2 DEF ReadUndo
  <2>2. Keeps(r, "failed") /\ LocksStay(r)
    BY <2>1, EndKeeps DEF TypeInv, Stages
  <2>3. MovesOn(r, "failed")
    BY <2>2 DEF MovesOn, ReadUndo, stored
  <2> QED BY <2>3, MovesOnKept
<1> QED BY <1>1, <1>2

\* ReconcileOnBoot keeps the invariant.
LEMMA ReconcileOnBootKept ==
  ASSUME TypeInv, StoreInv, NEW s \in Scans, ReconcileOnBoot(s)
  PROVE  StoreInv'
<1>0. /\ TypeOK /\ Typed
      /\ Numbers /\ Places /\ Writers /\ Found /\ Drafts /\ Times
      /\ RowsBehindFiles /\ ScansBehindFiles /\ ScanStages /\ Covered /\ Acknowledged
  BY DEF TypeInv, StoreInv
<1>t. TypeInv'
  BY ReconcileOnBootTyped
<1>m. ScanBecomes(s, "boot", "list", {}, Refs, Nothing)
  BY <1>0, StartScanMoves DEF ReconcileOnBoot, Callers
<1>f0. /\ scan[s].stage = "idle"
       /\ \A t \in Tickets : Refs[t] = IF row[t] = None THEN None ELSE row[t].at
       /\ \A t \in Tickets : Refs[t] # None => row[t] # None /\ Refs[t] = row[t].at
       /\ \A t \in Tickets : Nothing[t] = None
  BY <1>0, RefsTyped DEF StartScan, ReconcileOnBoot, Nothing
<1>f1. boot = "pending" /\ boot' = "running"
  BY DEF ReconcileOnBoot
<1>f. UNCHANGED <<file, row, listed, nextNumber, born, docLock, writeLock, queued, req, now>>
  BY DEF ReconcileOnBoot, stored, locks
<1>c. \A t \in Tickets : (Crossed(t) => Crossed(t)') /\ (Clean(t)' => Clean(t))
  BY <1>f, CrossedWithoutRequests
<1>1. Numbers'
  BY <1>0, <1>m, <1>f, <1>f0, <1>f1, StoreTypes DEF Numbers, ScanBecomes, Nothing
<1>2. Places'
  BY <1>0, <1>m, <1>f, <1>f0, <1>f1, StoreTypes DEF Places, ScanBecomes, Nothing, Undoing
<1>3. Writers'
  BY <1>0, <1>m, <1>f, <1>f0, <1>f1, StoreTypes DEF Writers, ScanBecomes, Nothing
<1>4. Drafts'
  BY <1>0, <1>c, <1>m, <1>f, <1>f0, <1>f1, StoreTypes DEF Drafts, ScanBecomes, Nothing, Draft
<1>5. Times'
  BY <1>0, <1>m, <1>f, <1>f0, <1>f1, StoreTypes DEF Times, ScanBecomes, Nothing
<1>6. RowsBehindFiles'
  BY <1>0, <1>c, <1>m, <1>f, <1>f0, <1>f1, StoreTypes DEF RowsBehindFiles, ScanBecomes, Nothing
<1>7. ScansBehindFiles'
  <2>1. \A u \in Tickets : Clean(u) => ScanBehindFile(s, u)'
    BY <1>0, <1>c, <1>m, <1>f, <1>f0, <1>f1, StoreTypes
       DEF ScansBehindFiles, ScanBehindFile, ScanBecomes, Nothing, RowsBehindFiles
  <2>2. \A o \in Scans : \A u \in Tickets : o # s /\ Clean(u) => ScanBehindFile(o, u)'
    BY <1>0, <1>c, <1>m, <1>f, <1>f0, <1>f1 DEF ScansBehindFiles, ScanBehindFile, ScanBecomes
  <2> QED BY <1>c, <2>1, <2>2 DEF ScansBehindFiles
<1>8. ScanStages'
  BY <1>0, <1>m, <1>f, <1>f0, <1>f1 DEF ScanStages, ScanBecomes
<1>9. Covered'
  BY <1>0, <1>c, <1>m, <1>f, <1>f0, <1>f1, StoreTypes DEF Covered, ScanBecomes, Nothing, Stale, Covers
<1>10. Acknowledged'
  BY <1>0, <1>c, <1>m, <1>f, <1>f0, <1>f1, StoreTypes DEF Acknowledged, ScanBecomes, Nothing
<1>11. Found'
  BY <1>0, <1>c, <1>m, <1>f, <1>f0, <1>f1, StoreTypes DEF Found, ScanBecomes, Nothing
<1> QED BY <1>1, <1>2, <1>3, <1>4, <1>5, <1>6, <1>7, <1>8, <1>9, <1>10, <1>11 DEF StoreInv

\* RepairUnpublished keeps the invariant.
LEMMA RepairUnpublishedKept ==
  ASSUME TypeInv, StoreInv, NEW s \in Scans, RepairUnpublished(s)
  PROVE  StoreInv'
<1>0. /\ TypeOK /\ Typed
      /\ Numbers /\ Places /\ Writers /\ Found /\ Drafts /\ Times
      /\ RowsBehindFiles /\ ScansBehindFiles /\ ScanStages /\ Covered /\ Acknowledged
  BY DEF TypeInv, StoreInv
<1>t. TypeInv'
  BY RepairUnpublishedTyped
<1>m. ScanBecomes(s, "repair", "list", {}, Refs, Nothing)
  BY <1>0, StartScanMoves DEF RepairUnpublished, Callers
<1>f0. /\ scan[s].stage = "idle"
       /\ \A t \in Tickets : Refs[t] = IF row[t] = None THEN None ELSE row[t].at
       /\ \A t \in Tickets : Refs[t] # None => row[t] # None /\ Refs[t] = row[t].at
       /\ \A t \in Tickets : Nothing[t] = None
  BY <1>0, RefsTyped DEF StartScan, RepairUnpublished, Nothing
<1>f. UNCHANGED <<file, row, listed, nextNumber, born, docLock, writeLock, req, boot, now>>
  BY DEF RepairUnpublished, stored, locks
<1>c. \A t \in Tickets : (Crossed(t) => Crossed(t)') /\ (Clean(t)' => Clean(t))
  BY <1>f, CrossedWithoutRequests
<1>1. Numbers'
  BY <1>0, <1>m, <1>f, <1>f0, StoreTypes DEF Numbers, ScanBecomes, Nothing
<1>2. Places'
  BY <1>0, <1>m, <1>f, <1>f0, StoreTypes DEF Places, ScanBecomes, Nothing, Undoing
<1>3. Writers'
  BY <1>0, <1>m, <1>f, <1>f0, StoreTypes DEF Writers, ScanBecomes, Nothing
<1>4. Drafts'
  BY <1>0, <1>c, <1>m, <1>f, <1>f0, StoreTypes DEF Drafts, ScanBecomes, Nothing, Draft
<1>5. Times'
  BY <1>0, <1>m, <1>f, <1>f0, StoreTypes DEF Times, ScanBecomes, Nothing
<1>6. RowsBehindFiles'
  BY <1>0, <1>c, <1>m, <1>f, <1>f0, StoreTypes DEF RowsBehindFiles, ScanBecomes, Nothing
<1>7. ScansBehindFiles'
  <2>1. \A u \in Tickets : Clean(u) => ScanBehindFile(s, u)'
    BY <1>0, <1>c, <1>m, <1>f, <1>f0, StoreTypes
       DEF ScansBehindFiles, ScanBehindFile, ScanBecomes, Nothing, RowsBehindFiles
  <2>2. \A o \in Scans : \A u \in Tickets : o # s /\ Clean(u) => ScanBehindFile(o, u)'
    BY <1>0, <1>c, <1>m, <1>f, <1>f0 DEF ScansBehindFiles, ScanBehindFile, ScanBecomes
  <2> QED BY <1>c, <2>1, <2>2 DEF ScansBehindFiles
<1>8. ScanStages'
  BY <1>0, <1>m, <1>f, <1>f0 DEF ScanStages, ScanBecomes
<1>9. Covered'
  BY <1>0, <1>c, <1>m, <1>f, <1>f0, StoreTypes DEF Covered, ScanBecomes, Nothing, Stale, Covers
<1>10. Acknowledged'
  BY <1>0, <1>c, <1>m, <1>f, <1>f0, StoreTypes DEF Acknowledged, ScanBecomes, Nothing
<1>11. Found'
  BY <1>0, <1>c, <1>m, <1>f, <1>f0, StoreTypes DEF Found, ScanBecomes, Nothing
<1> QED BY <1>1, <1>2, <1>3, <1>4, <1>5, <1>6, <1>7, <1>8, <1>9, <1>10, <1>11 DEF StoreInv

\* RebuildTicketIndex keeps the invariant.
LEMMA RebuildTicketIndexKept ==
  ASSUME TypeInv, StoreInv, NEW s \in Scans, RebuildTicketIndex(s)
  PROVE  StoreInv'
<1>0. /\ TypeOK /\ Typed
      /\ Numbers /\ Places /\ Writers /\ Found /\ Drafts /\ Times
      /\ RowsBehindFiles /\ ScansBehindFiles /\ ScanStages /\ Covered /\ Acknowledged
  BY DEF TypeInv, StoreInv
<1>t. TypeInv'
  BY RebuildTicketIndexTyped
<1>m. ScanBecomes(s, "tool", "list", {}, Refs, Nothing)
  BY <1>0, StartScanMoves DEF RebuildTicketIndex, Callers
<1>f0. /\ scan[s].stage = "idle"
       /\ \A t \in Tickets : Refs[t] = IF row[t] = None THEN None ELSE row[t].at
       /\ \A t \in Tickets : Refs[t] # None => row[t] # None /\ Refs[t] = row[t].at
       /\ \A t \in Tickets : Nothing[t] = None
  BY <1>0, RefsTyped DEF StartScan, RebuildTicketIndex, Nothing
<1>f. UNCHANGED <<file, row, listed, nextNumber, born, docLock, writeLock, queued, req, boot, now>>
  BY DEF RebuildTicketIndex, stored, locks
<1>c. \A t \in Tickets : (Crossed(t) => Crossed(t)') /\ (Clean(t)' => Clean(t))
  BY <1>f, CrossedWithoutRequests
<1>1. Numbers'
  BY <1>0, <1>m, <1>f, <1>f0, StoreTypes DEF Numbers, ScanBecomes, Nothing
<1>2. Places'
  BY <1>0, <1>m, <1>f, <1>f0, StoreTypes DEF Places, ScanBecomes, Nothing, Undoing
<1>3. Writers'
  BY <1>0, <1>m, <1>f, <1>f0, StoreTypes DEF Writers, ScanBecomes, Nothing
<1>4. Drafts'
  BY <1>0, <1>c, <1>m, <1>f, <1>f0, StoreTypes DEF Drafts, ScanBecomes, Nothing, Draft
<1>5. Times'
  BY <1>0, <1>m, <1>f, <1>f0, StoreTypes DEF Times, ScanBecomes, Nothing
<1>6. RowsBehindFiles'
  BY <1>0, <1>c, <1>m, <1>f, <1>f0, StoreTypes DEF RowsBehindFiles, ScanBecomes, Nothing
<1>7. ScansBehindFiles'
  <2>1. \A u \in Tickets : Clean(u) => ScanBehindFile(s, u)'
    BY <1>0, <1>c, <1>m, <1>f, <1>f0, StoreTypes
       DEF ScansBehindFiles, ScanBehindFile, ScanBecomes, Nothing, RowsBehindFiles
  <2>2. \A o \in Scans : \A u \in Tickets : o # s /\ Clean(u) => ScanBehindFile(o, u)'
    BY <1>0, <1>c, <1>m, <1>f, <1>f0 DEF ScansBehindFiles, ScanBehindFile, ScanBecomes
  <2> QED BY <1>c, <2>1, <2>2 DEF ScansBehindFiles
<1>8. ScanStages'
  BY <1>0, <1>m, <1>f, <1>f0 DEF ScanStages, ScanBecomes
<1>9. Covered'
  BY <1>0, <1>c, <1>m, <1>f, <1>f0, StoreTypes DEF Covered, ScanBecomes, Nothing, Stale, Covers
<1>10. Acknowledged'
  BY <1>0, <1>c, <1>m, <1>f, <1>f0, StoreTypes DEF Acknowledged, ScanBecomes, Nothing
<1>11. Found'
  BY <1>0, <1>c, <1>m, <1>f, <1>f0, StoreTypes DEF Found, ScanBecomes, Nothing
<1> QED BY <1>1, <1>2, <1>3, <1>4, <1>5, <1>6, <1>7, <1>8, <1>9, <1>10, <1>11 DEF StoreInv

\* ListIds keeps the invariant.
LEMMA ListIdsKept ==
  ASSUME TypeInv, StoreInv, NEW s \in Scans, ListIds(s)
  PROVE  StoreInv'
<1>0. /\ TypeOK /\ Typed
      /\ Numbers /\ Places /\ Writers /\ Found /\ Drafts /\ Times
      /\ RowsBehindFiles /\ ScansBehindFiles /\ ScanStages /\ Covered /\ Acknowledged
  BY DEF TypeInv, StoreInv
<1>t. TypeInv'
  BY ListIdsTyped
<1>m. ScanBecomes(s, scan[s].by, "read", {t \in Tickets : Held(t)}, scan[s].before, scan[s].docs)
  BY <1>0, ListIdsMoves
<1>f0. /\ scan[s].stage = "list"
       /\ \A t \in Tickets : t \in {u \in Tickets : Held(u)} <=> file[t] # None
  BY DEF ListIds, Held
<1>f. UNCHANGED <<file, row, listed, nextNumber, born, docLock, writeLock, queued, req, now, boot>>
  BY DEF ListIds, stored, locks
<1>c. \A t \in Tickets : (Crossed(t) => Crossed(t)') /\ (Clean(t)' => Clean(t))
  BY <1>f, CrossedWithoutRequests
<1>1. Numbers'
  BY <1>0, <1>m, <1>f, <1>f0, StoreTypes DEF Numbers, ScanBecomes, Nothing
<1>2. Places'
  BY <1>0, <1>m, <1>f, <1>f0, StoreTypes DEF Places, ScanBecomes, Nothing, Undoing
<1>3. Writers'
  BY <1>0, <1>m, <1>f, <1>f0, StoreTypes DEF Writers, ScanBecomes, Nothing
<1>4. Drafts'
  BY <1>0, <1>c, <1>m, <1>f, <1>f0, StoreTypes DEF Drafts, ScanBecomes, Nothing, Draft
<1>5. Times'
  BY <1>0, <1>m, <1>f, <1>f0, StoreTypes DEF Times, ScanBecomes, Nothing
<1>6. RowsBehindFiles'
  BY <1>0, <1>c, <1>m, <1>f, <1>f0, StoreTypes DEF RowsBehindFiles, ScanBecomes, Nothing
<1>7. ScansBehindFiles'
  <2>1. \A u \in Tickets : Clean(u) => ScanBehindFile(s, u)'
    BY <1>0, <1>c, <1>m, <1>f, <1>f0, StoreTypes
       DEF ScansBehindFiles, ScanBehindFile, ScanBecomes, Nothing, RowsBehindFiles
  <2>2. \A o \in Scans : \A u \in Tickets : o # s /\ Clean(u) => ScanBehindFile(o, u)'
    BY <1>0, <1>c, <1>m, <1>f, <1>f0 DEF ScansBehindFiles, ScanBehindFile, ScanBecomes
  <2> QED BY <1>c, <2>1, <2>2 DEF ScansBehindFiles
<1>8. ScanStages'
  BY <1>0, <1>m, <1>f, <1>f0 DEF ScanStages, ScanBecomes
<1>9. Covered'
  BY <1>0, <1>c, <1>m, <1>f, <1>f0, StoreTypes DEF Covered, ScanBecomes, Nothing, Stale, Covers
<1>10. Acknowledged'
  BY <1>0, <1>c, <1>m, <1>f, <1>f0, StoreTypes DEF Acknowledged, ScanBecomes, Nothing
<1>11. Found'
  BY <1>0, <1>c, <1>m, <1>f, <1>f0, StoreTypes DEF Found, ScanBecomes, Nothing
<1> QED BY <1>1, <1>2, <1>3, <1>4, <1>5, <1>6, <1>7, <1>8, <1>9, <1>10, <1>11 DEF StoreInv

\* ReadDocument keeps the invariant.
LEMMA ReadDocumentKept ==
  ASSUME TypeInv, StoreInv, NEW s \in Scans, NEW t \in Tickets, ReadDocument(s, t)
  PROVE  StoreInv'
<1>0. /\ TypeOK /\ Typed
      /\ Numbers /\ Places /\ Writers /\ Found /\ Drafts /\ Times
      /\ RowsBehindFiles /\ ScansBehindFiles /\ ScanStages /\ Covered /\ Acknowledged
  BY DEF TypeInv, StoreInv
<1>t. TypeInv'
  BY ReadDocumentTyped
<1>m. PICK ds : /\ ScanBecomes(s, scan[s].by, scan[s].stage, scan[s].left \ {t}, scan[s].before, ds)
                 /\ \A u \in Tickets : ds[u] = IF u = t THEN file[t] ELSE scan[s].docs[u]
  <2>1. ScanBecomes(s, scan[s].by, scan[s].stage, scan[s].left \ {t}, scan[s].before,
                 [scan[s].docs EXCEPT ![t] = file[t]])
    BY <1>0, ReadDocumentMoves
  <2>2. \A u \in Tickets : [scan[s].docs EXCEPT ![t] = file[t]][u] = IF u = t THEN file[t] ELSE scan[s].docs[u]
    BY <1>0, ScanTyped
  <2> QED BY <2>1, <2>2
<1>f0. /\ t \in scan[s].left
       /\ scan[s].stage = "read"
  BY <1>0, ScanTyped DEF ReadDocument, ScanStages
<1>f. UNCHANGED <<file, row, listed, nextNumber, born, docLock, writeLock, queued, req, now, boot>>
  BY DEF ReadDocument, stored, locks
<1>c. \A u \in Tickets : (Crossed(u) => Crossed(u)') /\ (Clean(u)' => Clean(u))
  BY <1>f, CrossedWithoutRequests
<1>1. Numbers'
  BY <1>0, <1>m, <1>f, <1>f0, StoreTypes DEF Numbers, ScanBecomes, Nothing
<1>2. Places'
  BY <1>0, <1>m, <1>f, <1>f0, StoreTypes DEF Places, ScanBecomes, Nothing, Undoing
<1>3. Writers'
  BY <1>0, <1>m, <1>f, <1>f0, StoreTypes DEF Writers, ScanBecomes, Nothing
<1>4. Drafts'
  BY <1>0, <1>c, <1>m, <1>f, <1>f0, StoreTypes DEF Drafts, ScanBecomes, Nothing, Draft
<1>5. Times'
  BY <1>0, <1>m, <1>f, <1>f0, StoreTypes DEF Times, ScanBecomes, Nothing
<1>6. RowsBehindFiles'
  BY <1>0, <1>c, <1>m, <1>f, <1>f0, StoreTypes DEF RowsBehindFiles, ScanBecomes, Nothing
<1>7. ScansBehindFiles'
  <2>1. Clean(t) => ScanBehindFile(s, t)'
    <3>1. /\ scan'[s].docs[t] = file[t] /\ scan'[s].before = scan[s].before /\ file' = file
          /\ scan'[s].stage = scan[s].stage
      BY <1>m, <1>f, <1>f0 DEF ScanBecomes
    <3>2. Clean(t) /\ scan[s].before[t] # None /\ file[t] # None => scan[s].before[t] <= file[t].at
      BY <1>0 DEF ScansBehindFiles, ScanBehindFile
    <3>3. file[t] # None => file[t].at \in Nat
      BY StoreTypes
    <3> QED BY <3>1, <3>2, <3>3 DEF ScanBehindFile
  <2>2. \A u \in Tickets : u # t /\ Clean(u) => ScanBehindFile(s, u)'
    BY <1>0, <1>m, <1>f, <1>f0 DEF ScansBehindFiles, ScanBehindFile, ScanBecomes
  <2>3. \A o \in Scans : \A u \in Tickets : o # s /\ Clean(u) => ScanBehindFile(o, u)'
    BY <1>0, <1>c, <1>m, <1>f, <1>f0 DEF ScansBehindFiles, ScanBehindFile, ScanBecomes
  <2> QED BY <1>c, <2>1, <2>2, <2>3 DEF ScansBehindFiles
<1>8. ScanStages'
  BY <1>0, <1>m, <1>f, <1>f0 DEF ScanStages, ScanBecomes
<1>9. Covered'
  BY <1>0, <1>c, <1>m, <1>f, <1>f0, StoreTypes DEF Covered, ScanBecomes, Nothing, Stale, Covers
<1>10. Acknowledged'
  BY <1>0, <1>c, <1>m, <1>f, <1>f0, StoreTypes DEF Acknowledged, ScanBecomes, Nothing
<1>11. Found'
  BY <1>0, <1>c, <1>m, <1>f, <1>f0, StoreTypes DEF Found, ScanBecomes, Nothing
<1> QED BY <1>1, <1>2, <1>3, <1>4, <1>5, <1>6, <1>7, <1>8, <1>9, <1>10, <1>11 DEF StoreInv

\* A scan that found drift keeps the invariant.
LEMMA DriftedKept ==
  ASSUME TypeInv, StoreInv, NEW s \in Scans, DetectDrift(s), scan[s].by = "tool" \/ Drift(s)
  PROVE  StoreInv'
<1>0. /\ TypeOK /\ Typed
      /\ Numbers /\ Places /\ Writers /\ Found /\ Drafts /\ Times
      /\ RowsBehindFiles /\ ScansBehindFiles /\ ScanStages /\ Covered /\ Acknowledged
  BY DEF TypeInv, StoreInv
<1>t. TypeInv'
  BY DetectDriftTyped
<1>m. ScanBecomes(s, scan[s].by, "write", scan[s].left, scan[s].before, scan[s].docs)
  BY <1>0, ToWriteMoves DEF DetectDrift
<1>f0. scan[s].stage = "read" /\ scan[s].left = {}
  BY DEF DetectDrift
<1>f. UNCHANGED <<file, row, listed, nextNumber, born, docLock, writeLock, queued, req, now, boot>>
  BY DEF DetectDrift, stored, locks
<1>c. \A t \in Tickets : (Crossed(t) => Crossed(t)') /\ (Clean(t)' => Clean(t))
  BY <1>f, CrossedWithoutRequests
<1>1. Numbers'
  BY <1>0, <1>m, <1>f, <1>f0, StoreTypes DEF Numbers, ScanBecomes, Nothing
<1>2. Places'
  BY <1>0, <1>m, <1>f, <1>f0, StoreTypes DEF Places, ScanBecomes, Nothing, Undoing
<1>3. Writers'
  BY <1>0, <1>m, <1>f, <1>f0, StoreTypes DEF Writers, ScanBecomes, Nothing
<1>4. Drafts'
  BY <1>0, <1>c, <1>m, <1>f, <1>f0, StoreTypes DEF Drafts, ScanBecomes, Nothing, Draft
<1>5. Times'
  BY <1>0, <1>m, <1>f, <1>f0, StoreTypes DEF Times, ScanBecomes, Nothing
<1>6. RowsBehindFiles'
  BY <1>0, <1>c, <1>m, <1>f, <1>f0, StoreTypes DEF RowsBehindFiles, ScanBecomes, Nothing
<1>7. ScansBehindFiles'
  <2>1. \A u \in Tickets : Clean(u) => ScanBehindFile(s, u)'
    BY <1>0, <1>c, <1>m, <1>f, <1>f0, StoreTypes
       DEF ScansBehindFiles, ScanBehindFile, ScanBecomes, Nothing, RowsBehindFiles
  <2>2. \A o \in Scans : \A u \in Tickets : o # s /\ Clean(u) => ScanBehindFile(o, u)'
    BY <1>0, <1>c, <1>m, <1>f, <1>f0 DEF ScansBehindFiles, ScanBehindFile, ScanBecomes
  <2> QED BY <1>c, <2>1, <2>2 DEF ScansBehindFiles
<1>8. ScanStages'
  BY <1>0, <1>m, <1>f, <1>f0 DEF ScanStages, ScanBecomes
<1>9. Covered'
  BY <1>0, <1>c, <1>m, <1>f, <1>f0, StoreTypes DEF Covered, ScanBecomes, Nothing, Stale, Covers
<1>10. Acknowledged'
  BY <1>0, <1>c, <1>m, <1>f, <1>f0, StoreTypes DEF Acknowledged, ScanBecomes, Nothing
<1>11. Found'
  BY <1>0, <1>c, <1>m, <1>f, <1>f0, StoreTypes DEF Found, ScanBecomes, Nothing
<1> QED BY <1>1, <1>2, <1>3, <1>4, <1>5, <1>6, <1>7, <1>8, <1>9, <1>10, <1>11 DEF StoreInv

\* A scan that found no drift keeps the invariant.
LEMMA NotDriftedKept ==
  ASSUME TypeInv, StoreInv, NEW s \in Scans, DetectDrift(s), ~(scan[s].by = "tool" \/ Drift(s))
  PROVE  StoreInv'
<1>0. /\ TypeOK /\ Typed
      /\ Numbers /\ Places /\ Writers /\ Found /\ Drafts /\ Times
      /\ RowsBehindFiles /\ ScansBehindFiles /\ ScanStages /\ Covered /\ Acknowledged
  BY DEF TypeInv, StoreInv
<1>t. TypeInv'
  BY DetectDriftTyped
<1>m. ScanBecomes(s, "tool", "idle", {}, Nothing, Nothing)
  BY <1>0, EndScanMoves DEF DetectDrift
<1>f0. /\ scan[s].stage # "idle"
       /\ \A t \in Tickets : Nothing[t] = None
       /\ scan[s].by # "tool"
       /\ boot' = IF scan[s].by = "boot" THEN "done" ELSE boot
       /\ \A t \in Tickets : scan[s].docs[t] # None => row[t] # None /\ row[t].at = scan[s].docs[t].at
       /\ \A t \in Tickets : t \notin scan[s].left /\ scan[s].stage # "list"
  <2>1. \A t \in Tickets : Refs[t] = IF scan[s].docs[t] = None THEN None ELSE scan[s].docs[t].at
    BY DEF Drift
  <2>2. \A t \in Tickets : scan[s].docs[t] # None => Refs[t] # None /\ Refs[t] = scan[s].docs[t].at
    BY <2>1, StoreTypes
  <2>3. \A t \in Tickets : scan[s].docs[t] # None => row[t] # None /\ row[t].at = scan[s].docs[t].at
    BY <1>0, <2>2, RefsTyped
  <2> QED BY <2>3 DEF DetectDrift, Finished, Nothing
<1>f. UNCHANGED <<file, row, listed, nextNumber, born, docLock, writeLock, queued, req, now>>
  BY DEF DetectDrift, stored, locks
<1>c. \A t \in Tickets : (Crossed(t) => Crossed(t)') /\ (Clean(t)' => Clean(t))
  BY <1>f, CrossedWithoutRequests
<1>1. Numbers'
  BY <1>0, <1>m, <1>f, <1>f0, StoreTypes DEF Numbers, ScanBecomes, Nothing
<1>2. Places'
  BY <1>0, <1>m, <1>f, <1>f0, StoreTypes DEF Places, ScanBecomes, Nothing, Undoing
<1>3. Writers'
  BY <1>0, <1>m, <1>f, <1>f0, StoreTypes DEF Writers, ScanBecomes, Nothing
<1>4. Drafts'
  BY <1>0, <1>c, <1>m, <1>f, <1>f0, StoreTypes DEF Drafts, ScanBecomes, Nothing, Draft
<1>5. Times'
  BY <1>0, <1>m, <1>f, <1>f0, StoreTypes DEF Times, ScanBecomes, Nothing
<1>6. RowsBehindFiles'
  BY <1>0, <1>c, <1>m, <1>f, <1>f0, StoreTypes DEF RowsBehindFiles, ScanBecomes, Nothing
<1>7. ScansBehindFiles'
  <2>1. \A u \in Tickets : Clean(u) => ScanBehindFile(s, u)'
    BY <1>0, <1>c, <1>m, <1>f, <1>f0, StoreTypes
       DEF ScansBehindFiles, ScanBehindFile, ScanBecomes, Nothing, RowsBehindFiles
  <2>2. \A o \in Scans : \A u \in Tickets : o # s /\ Clean(u) => ScanBehindFile(o, u)'
    BY <1>0, <1>c, <1>m, <1>f, <1>f0 DEF ScansBehindFiles, ScanBehindFile, ScanBecomes
  <2> QED BY <1>c, <2>1, <2>2 DEF ScansBehindFiles
<1>8. ScanStages'
  BY <1>0, <1>m, <1>f, <1>f0 DEF ScanStages, ScanBecomes
<1>9. Covered'
  BY <1>0, <1>c, <1>m, <1>f, <1>f0, StoreTypes
     DEF Covered, Stale, Covers, ScanBecomes, Nothing, ScanStages, RowsBehindFiles
<1>10. Acknowledged'
  BY <1>0, <1>c, <1>m, <1>f, <1>f0, StoreTypes DEF Acknowledged, ScanBecomes, Nothing
<1>11. Found'
  BY <1>0, <1>c, <1>m, <1>f, <1>f0, StoreTypes DEF Found, ScanBecomes, Nothing
<1> QED BY <1>1, <1>2, <1>3, <1>4, <1>5, <1>6, <1>7, <1>8, <1>9, <1>10, <1>11 DEF StoreInv

\* DetectDrift keeps the invariant.
LEMMA DetectDriftKept ==
  ASSUME TypeInv, StoreInv, NEW s \in Scans, DetectDrift(s)
  PROVE  StoreInv'
BY DriftedKept, NotDriftedKept

\* ReconcileFails keeps the invariant.
LEMMA ReconcileFailsKept ==
  ASSUME TypeInv, StoreInv, NEW s \in Scans, ReconcileFails(s)
  PROVE  StoreInv'
<1>0. /\ TypeOK /\ Typed
      /\ Numbers /\ Places /\ Writers /\ Found /\ Drafts /\ Times
      /\ RowsBehindFiles /\ ScansBehindFiles /\ ScanStages /\ Covered /\ Acknowledged
  BY DEF TypeInv, StoreInv
<1>t. TypeInv'
  BY ReconcileFailsTyped
<1>m. ScanBecomes(s, "tool", "idle", {}, Nothing, Nothing)
  BY <1>0, EndScanMoves DEF ReconcileFails
<1>f0. /\ scan[s].stage # "idle"
       /\ \A t \in Tickets : Nothing[t] = None
       /\ scan[s].by = "repair" => queued' = TRUE
       /\ scan[s].by # "repair" => queued' = queued
       /\ boot' = IF scan[s].by = "boot" THEN "failed" ELSE boot
  BY <1>0 DEF ReconcileFails, Nothing, TypeOK
<1>f. UNCHANGED <<file, row, listed, nextNumber, born, docLock, writeLock, req, now>>
  BY DEF ReconcileFails, stored, locks
<1>c. \A t \in Tickets : (Crossed(t) => Crossed(t)') /\ (Clean(t)' => Clean(t))
  BY <1>f, CrossedWithoutRequests
<1>1. Numbers'
  BY <1>0, <1>m, <1>f, <1>f0, StoreTypes DEF Numbers, ScanBecomes, Nothing
<1>2. Places'
  BY <1>0, <1>m, <1>f, <1>f0, StoreTypes DEF Places, ScanBecomes, Nothing, Undoing
<1>3. Writers'
  BY <1>0, <1>m, <1>f, <1>f0, StoreTypes DEF Writers, ScanBecomes, Nothing
<1>4. Drafts'
  BY <1>0, <1>c, <1>m, <1>f, <1>f0, StoreTypes DEF Drafts, ScanBecomes, Nothing, Draft
<1>5. Times'
  BY <1>0, <1>m, <1>f, <1>f0, StoreTypes DEF Times, ScanBecomes, Nothing
<1>6. RowsBehindFiles'
  BY <1>0, <1>c, <1>m, <1>f, <1>f0, StoreTypes DEF RowsBehindFiles, ScanBecomes, Nothing
<1>7. ScansBehindFiles'
  <2>1. \A u \in Tickets : Clean(u) => ScanBehindFile(s, u)'
    BY <1>0, <1>c, <1>m, <1>f, <1>f0, StoreTypes
       DEF ScansBehindFiles, ScanBehindFile, ScanBecomes, Nothing, RowsBehindFiles
  <2>2. \A o \in Scans : \A u \in Tickets : o # s /\ Clean(u) => ScanBehindFile(o, u)'
    BY <1>0, <1>c, <1>m, <1>f, <1>f0 DEF ScansBehindFiles, ScanBehindFile, ScanBecomes
  <2> QED BY <1>c, <2>1, <2>2 DEF ScansBehindFiles
<1>8. ScanStages'
  BY <1>0, <1>m, <1>f, <1>f0 DEF ScanStages, ScanBecomes
<1>9. Covered'
  BY <1>0, <1>c, <1>m, <1>f, <1>f0, StoreTypes DEF Covered, ScanBecomes, Nothing, Stale, Covers
<1>10. Acknowledged'
  BY <1>0, <1>c, <1>m, <1>f, <1>f0, StoreTypes DEF Acknowledged, ScanBecomes, Nothing
<1>11. Found'
  BY <1>0, <1>c, <1>m, <1>f, <1>f0, StoreTypes DEF Found, ScanBecomes, Nothing
<1> QED BY <1>1, <1>2, <1>3, <1>4, <1>5, <1>6, <1>7, <1>8, <1>9, <1>10, <1>11 DEF StoreInv

\* The row a scan writes is that of the document it read.
LEMMA RowIsOfDocument ==
  ASSUME TypeInv, NEW s \in Scans, NEW t \in Tickets, scan[s].docs[t] # None
  PROVE  /\ Fields(scan[s].docs[t]) # None
         /\ Fields(scan[s].docs[t]).at = scan[s].docs[t].at
BY DocumentTyped, StoreAssumption DEF TypeInv

\* What a scan writes of a ticket, given what it read of it.
LEMMA WhatIsWritten ==
  ASSUME TypeInv, StoreInv, NEW s \in Scans, scan[s].stage = "write", NEW t \in Tickets, Clean(t)
  PROVE  /\ Dropped(s, t) => file[t] = None
         /\ Rewritten(s, t) => /\ scan[s].docs[t] # None
                               /\ row[t] # None => row[t].at <= scan[s].docs[t].at
                               /\ Fields(scan[s].docs[t]) # None
                               /\ Fields(scan[s].docs[t]).at = scan[s].docs[t].at
         /\ scan[s].docs[t] # None /\ ~Rewritten(s, t) =>
              row[t] # None /\ ~(row[t].at <= scan[s].docs[t].at)
<1>0. TypeOK /\ ScanBehindFile(s, t) /\ t \notin scan[s].left
  BY DEF TypeInv, StoreInv, ScansBehindFiles, ScanStages
<1>1. Dropped(s, t) => file[t] = None
  BY <1>0 DEF Dropped, ScanBehindFile
<1>2. ~(scan[s].docs[t] # None /\ AheadOfDisk(s, t))
  <2>1. ASSUME scan[s].docs[t] # None, AheadOfDisk(s, t)
        PROVE  FALSE
    <3>1. scan[s].docs[t].at \in Nat /\ scan[s].before[t] # None /\ scan[s].before[t] \in Nat
      BY <2>1, StoreTypes DEF AheadOfDisk
    <3>2. scan[s].before[t] <= scan[s].docs[t].at
      BY <1>0, <2>1, <3>1 DEF ScanBehindFile
    <3> QED BY <2>1, <3>1, <3>2 DEF AheadOfDisk
  <2> QED BY <2>1
<1> QED BY <1>1, <1>2, RowIsOfDocument DEF Rewritten

\* WriteProjectIndex keeps the invariant.
LEMMA WriteProjectIndexKept ==
  ASSUME TypeInv, StoreInv, NEW s \in Scans, WriteProjectIndex(s)
  PROVE  StoreInv'
<1>0. /\ TypeOK /\ Typed
      /\ Numbers /\ Places /\ Writers /\ Found /\ Drafts /\ Times
      /\ RowsBehindFiles /\ ScansBehindFiles /\ ScanStages /\ Covered /\ Acknowledged
  BY DEF TypeInv, StoreInv
<1>t. TypeInv'
  BY WriteProjectIndexTyped
<1>m. ScanBecomes(s, "tool", "idle", {}, Nothing, Nothing)
  BY <1>0, EndScanMoves DEF WriteProjectIndex
<1>f0. /\ scan[s].stage # "idle"
       /\ \A t \in Tickets : Nothing[t] = None
       /\ boot' = IF scan[s].by = "boot" THEN "done" ELSE boot
       /\ scan[s].stage = "write" /\ scan[s].left = {}
  BY <1>0 DEF WriteProjectIndex, Finished, Nothing, ScanStages
<1>f1. /\ \A t \in Tickets : row'[t] = IF Dropped(s, t) THEN None
                                       ELSE IF Rewritten(s, t) THEN Fields(scan[s].docs[t])
                                       ELSE row[t]
       /\ nextNumber' \in Nat /\ nextNumber' >= nextNumber
  <2>1. nextNumber' \in Nat
    BY <1>t, StoreAssumption DEF TypeInv, TypeOK
  <2>2. nextNumber' >= nextNumber
    BY <1>0, StoreTypes DEF WriteProjectIndex, Greatest
  <2> QED BY <2>1, <2>2 DEF WriteProjectIndex
<1>f. UNCHANGED <<file, born, docLock, writeLock, queued, req, now>>
  BY DEF WriteProjectIndex, stored, locks
<1>c. \A t \in Tickets : (Crossed(t) => Crossed(t)') /\ (Clean(t)' => Clean(t))
  BY <1>f, CrossedWithoutRequests
<1>1. Numbers'
  <2>1. \A t \in Tickets : row'[t] # None => t \in born
    BY <1>0, <1>f, <1>f0, <1>f1 DEF Numbers, Rewritten
  <2> QED BY <1>0, <1>m, <1>f, <1>f0, <1>f1, <2>1, StoreTypes DEF Numbers, ScanBecomes
<1>2. Places'
  BY <1>0, <1>m, <1>f, <1>f0, <1>f1, StoreTypes DEF Places, ScanBecomes, Nothing, Undoing
<1>3. Writers'
  BY <1>0, <1>m, <1>f, <1>f0, <1>f1, StoreTypes DEF Writers, ScanBecomes, Nothing
<1>4. Drafts'
  BY <1>0, <1>c, <1>m, <1>f, <1>f0, <1>f1, StoreTypes DEF Drafts, ScanBecomes, Nothing, Draft
<1>5. Times'
  BY <1>0, <1>m, <1>f, <1>f0, <1>f1, StoreTypes DEF Times, ScanBecomes, Nothing
<1>6. RowsBehindFiles'
  <2>1. ASSUME NEW t \in Tickets, Clean(t), row'[t] # None, file[t] # None
        PROVE  row'[t].at <= file[t].at /\ (row'[t].at = file[t].at => row'[t] = Fields(file[t]))
    <3>1. ~Dropped(s, t)
      BY <1>f, <1>f0, <1>f1, <2>1, WhatIsWritten
    <3>2. CASE Rewritten(s, t)
      <4>1. /\ row'[t] = Fields(scan[s].docs[t]) /\ scan[s].docs[t] # None
            /\ row'[t].at = scan[s].docs[t].at
        BY <1>f, <1>f0, <1>f1, <2>1, <3>1, <3>2, WhatIsWritten
      <4>2. ScanBehindFile(s, t)
        BY <1>0, <2>1 DEF ScansBehindFiles
      <4> QED BY <2>1, <4>1, <4>2 DEF ScanBehindFile
    <3>3. CASE ~Rewritten(s, t)
      BY <1>0, <1>f, <1>f0, <1>f1, <2>1, <3>1, <3>3 DEF RowsBehindFiles
    <3> QED BY <3>2, <3>3
  <2> QED BY <1>c, <1>f, <1>f0, <1>f1, <2>1 DEF RowsBehindFiles
<1>7. ScansBehindFiles'
  <2>1. \A u \in Tickets : Clean(u) => ScanBehindFile(s, u)'
    BY <1>0, <1>c, <1>m, <1>f, <1>f0, <1>f1, StoreTypes
       DEF ScansBehindFiles, ScanBehindFile, ScanBecomes, Nothing, RowsBehindFiles
  <2>2. \A o \in Scans : \A u \in Tickets : o # s /\ Clean(u) => ScanBehindFile(o, u)'
    BY <1>0, <1>c, <1>m, <1>f, <1>f0, <1>f1 DEF ScansBehindFiles, ScanBehindFile, ScanBecomes
  <2> QED BY <1>c, <2>1, <2>2 DEF ScansBehindFiles
<1>8. ScanStages'
  BY <1>0, <1>m, <1>f, <1>f0, <1>f1 DEF ScanStages, ScanBecomes
<1>9. Covered'
  <2>1. ASSUME NEW t \in Tickets, Clean(t), Stale(t)'
        PROVE  boot' \in {"pending", "failed"} \/ \E o \in Scans : Covers(o, t)'
    <3>1. file[t] # None /\ row'[t] # Fields(file[t]) /\ ~queued
      BY <1>f, <1>f0, <1>f1, <2>1 DEF Stale
    <3>2. ~Dropped(s, t)
      BY <1>f, <1>f0, <1>f1, <2>1, <3>1, WhatIsWritten
    <3>3. scan[s].docs[t] # None /\ scan[s].docs[t].at = file[t].at =>
            Fields(scan[s].docs[t]) = Fields(file[t])
      BY <1>0, <2>1, <3>1 DEF ScansBehindFiles, ScanBehindFile
    <3>4. ~Covers(s, t)
      <4>1. SUFFICES ASSUME scan[s].docs[t] # None, scan[s].docs[t].at = file[t].at PROVE FALSE
        BY <1>f, <1>f0, <1>f1 DEF Covers
      <4>2. ~Rewritten(s, t)
        BY <1>f, <1>f0, <1>f1, <3>1, <3>2, <3>3, <4>1
      <4>3. row[t] # None /\ ~(row[t].at <= file[t].at)
        BY <1>f, <1>f0, <1>f1, <4>1, <2>1, <4>2, WhatIsWritten
      <4> QED BY <1>0, <2>1, <3>1, <4>3 DEF RowsBehindFiles
    <3>5. row[t] # Fields(file[t])
      <4>1. CASE ~Rewritten(s, t)
        BY <1>f, <1>f0, <1>f1, <3>1, <3>2, <4>1
      <4>2. CASE Rewritten(s, t)
        <5>1. /\ scan[s].docs[t] # None /\ (row[t] # None => row[t].at <= scan[s].docs[t].at)
              /\ Fields(scan[s].docs[t]) # Fields(file[t])
          BY <1>f, <1>f0, <1>f1, <3>1, <3>2, <2>1, <4>2, WhatIsWritten
        <5>2. scan[s].docs[t].at < file[t].at /\ scan[s].docs[t].at \in Nat /\ file[t].at \in Nat
          <6>1. scan[s].docs[t].at \in Nat /\ file[t].at \in Nat
            BY <3>1, <5>1, StoreTypes
          <6>2. ScanBehindFile(s, t)
            BY <1>0, <2>1 DEF ScansBehindFiles
          <6>3. scan[s].docs[t].at <= file[t].at
            BY <3>1, <5>1, <6>2 DEF ScanBehindFile
          <6> QED BY <3>3, <5>1, <6>1, <6>3
        <5>3. Fields(file[t]) # None /\ Fields(file[t]).at = file[t].at
          <6>1. file[t] \in Docs
            BY <3>1, StoreTypes
          <6>2. Fields(file[t]) \in Rows
            BY <6>1 DEF Fields, Docs, Rows
          <6> QED BY <6>2, StoreAssumption DEF Fields
        <5>4. ASSUME row[t] = Fields(file[t]) PROVE FALSE
          BY <5>1, <5>2, <5>3, <5>4
        <5> QED BY <5>4
      <4> QED BY <4>1, <4>2
    <3>6. Stale(t)
      BY <1>f, <1>f0, <1>f1, <2>1, <3>1, <3>5 DEF Stale
    <3>7. CASE boot \in {"pending", "failed"}
      BY <1>0, <1>f, <1>f0, <1>f1, <3>7 DEF ScanStages
    <3>8. CASE \E o \in Scans : Covers(o, t)
      <4>1. PICK o \in Scans : Covers(o, t)
        BY <3>8
      <4>2. o # s
        BY <3>4, <4>1
      <4>3. Covers(o, t)'
        BY <1>m, <1>f, <1>f0, <1>f1, <4>1, <4>2 DEF Covers, ScanBecomes
      <4> QED BY <4>3
    <3> QED BY <1>0, <2>1, <3>6, <3>7, <3>8 DEF Covered
  <2> QED BY <1>c, <2>1 DEF Covered
<1>10. Acknowledged'
  BY <1>0, <1>c, <1>m, <1>f, <1>f0, <1>f1, StoreTypes DEF Acknowledged, ScanBecomes, Nothing
<1>11. Found'
  BY <1>0, <1>c, <1>m, <1>f, <1>f0, <1>f1, StoreTypes DEF Found, ScanBecomes, Nothing
<1> QED BY <1>1, <1>2, <1>3, <1>4, <1>5, <1>6, <1>7, <1>8, <1>9, <1>10, <1>11 DEF StoreInv

\* Crash keeps the invariant.
LEMMA CrashKept ==
  ASSUME TypeInv, StoreInv, Crash
  PROVE  StoreInv'
<1>0. /\ TypeOK /\ Typed
      /\ Numbers /\ Places /\ Writers /\ Found /\ Drafts /\ Times
      /\ RowsBehindFiles /\ ScansBehindFiles /\ ScanStages /\ Covered /\ Acknowledged
  BY DEF TypeInv, StoreInv
<1>t. TypeInv'
  BY CrashTyped
<1>m. /\ req' \in [Requests -> RequestRecords]
      /\ \A q \in Requests :
           /\ req'[q].kind = req[q].kind /\ req'[q].on = req[q].on
           /\ req'[q].doc = req[q].doc /\ req'[q].orig = req[q].orig
           /\ IF req[q].stage \in {"idle", "done"} THEN req'[q].stage = req[q].stage
                                                   ELSE req'[q].stage = "failed"
  BY <1>0, CrashMoves
<1>f0. /\ boot' = "pending"
       /\ \A s \in Scans : /\ scan'[s].stage = "idle" /\ scan'[s].left = {}
                           /\ scan'[s].docs = Nothing /\ scan'[s].before = Nothing
       /\ \A t \in Tickets : Nothing[t] = None
  BY NoScanIsTyped DEF Crash, Nothing
<1>f. UNCHANGED <<file, row, listed, nextNumber, born, now>>
  BY DEF Crash, stored, locks
<1>c. \A t \in Tickets : (Crossed(t) => Crossed(t)') /\ (Clean(t)' => Clean(t))
  <2>1. \A t \in Tickets : Crossed(t) => Crossed(t)'
    BY <1>m DEF Crossed, Waiting
  <2>2. \A t \in Tickets : TakenBack(t) => TakenBack(t)'
    BY <1>m DEF TakenBack, Kind, On
  <2> QED BY <2>1, <2>2 DEF Clean
<1>1. Numbers'
  BY <1>0, <1>m, <1>f, <1>f0, StoreTypes DEF Numbers, Changing, Keeps, Becomes
<1>2. Places'
  BY <1>0, <1>m, <1>f, <1>f0, StoreTypes DEF Places, Keeps, Becomes, Undoing
<1>3. Writers'
  BY <1>0, <1>m, <1>f, <1>f0, StoreTypes DEF Writers, Keeps, Becomes
<1>4. Drafts'
  BY <1>0, <1>c, <1>m, <1>f, <1>f0, StoreTypes DEF Drafts, Keeps, Becomes, Draft
<1>5. Times'
  BY <1>0, <1>m, <1>f, <1>f0, StoreTypes DEF Times, Keeps, Becomes
<1>6. RowsBehindFiles'
  BY <1>0, <1>c, <1>m, <1>f, <1>f0, StoreTypes DEF RowsBehindFiles, Keeps, Becomes
<1>7. ScansBehindFiles'
  BY <1>0, <1>c, <1>m, <1>f, <1>f0, StoreTypes DEF ScansBehindFiles, Keeps, Becomes, ScanBehindFile
<1>8. ScanStages'
  BY <1>0, <1>m, <1>f, <1>f0, StoreTypes DEF ScanStages, Keeps, Becomes
<1>9. Covered'
  BY <1>0, <1>c, <1>m, <1>f, <1>f0, StoreTypes DEF Covered, Keeps, Becomes, Stale, Covers
<1>10. Acknowledged'
  BY <1>0, <1>c, <1>m, <1>f, <1>f0, StoreTypes DEF Acknowledged, Keeps, Becomes
<1>11. Found'
  BY <1>0, <1>c, <1>m, <1>f, <1>f0, StoreTypes DEF Found, Keeps, Becomes
<1> QED BY <1>1, <1>2, <1>3, <1>4, <1>5, <1>6, <1>7, <1>8, <1>9, <1>10, <1>11 DEF StoreInv

\* The first states satisfy the invariant.
LEMMA InitKept ==
  ASSUME ~Behind, Init
  PROVE  StoreInv
<1>1. PICK ts \in SUBSET Tickets, n \in 1..(MaxTicket + 1) :
        /\ Behind \/ \A t \in ts : t < n
        /\ file = [t \in Tickets |-> IF t \in ts THEN Blank ELSE None]
        /\ born = ts
        /\ nextNumber = n
  BY DEF Init
<1>2. /\ Blank \in Docs /\ Blank # None /\ Blank.at = 0
      /\ Fields(Blank) \in Rows /\ Fields(Blank) # None /\ Fields(Blank).at = 0
  BY StoreAssumption DEF Blank, Docs, Rows, Fields
<1>3. /\ \A t \in Tickets : file[t] # None => file[t] = Blank /\ row[t] = Fields(Blank) /\ t \in born
      /\ \A t \in Tickets : file[t] = None => row[t] = None
      /\ \A t \in Tickets : t \in born => t < nextNumber
  BY <1>1, <1>2 DEF Init, Held
<1>4. \A r \in Requests : req[r].stage = "idle" /\ req[r].doc = None /\ req[r].orig = None
  BY DEF Init
<1>5. /\ \A s \in Scans : /\ scan[s].stage = "idle" /\ scan[s].left = {}
                          /\ scan[s].docs = Nothing /\ scan[s].before = Nothing
      /\ \A t \in Tickets : Nothing[t] = None
  BY NoScanIsTyped DEF Init, Nothing
<1>6. now = 0
  BY DEF Init
<1>7. Numbers
  BY <1>3, <1>4, <1>5 DEF Numbers, Changing
<1>8. Places /\ Writers /\ Drafts /\ Acknowledged /\ Found
  BY <1>4 DEF Places, Writers, Drafts, Draft, Acknowledged, Found
<1>9. Times
  BY <1>2, <1>3, <1>4, <1>6 DEF Times
<1>10. RowsBehindFiles
  BY <1>2, <1>3 DEF RowsBehindFiles
<1>11. ScansBehindFiles
  BY <1>5 DEF ScansBehindFiles, ScanBehindFile
<1>12. ScanStages
  BY <1>5 DEF ScanStages
<1>13. Covered
  BY <1>3 DEF Covered, Stale
<1> QED BY <1>7, <1>8, <1>9, <1>10, <1>11, <1>12, <1>13 DEF StoreInv

\* Every step keeps the invariant.
LEMMA StoreInvStep ==
  ASSUME TypeInv, StoreInv, [Next]_vars
  PROVE  StoreInv'
<1>1. CASE \E r \in Requests : Request(r)
  <2>1. PICK r \in Requests : Request(r)
    BY <1>1
  <2>2. CASE Begin(r)
    BY <2>2, BeginKept
  <2>3. CASE ReserveTicketNumber(r)
    BY <2>3, ReserveTicketNumberKept
  <2>4. CASE CreateTicketFile(r)
    BY <2>4, CreateTicketFileKept
  <2>5. CASE LockDocument(r)
    BY <2>5, LockDocumentKept
  <2>6. CASE ListComment(r)
    BY <2>6, ListCommentKept
  <2>7. CASE NotFound(r)
    BY <2>7, NotFoundKept
  <2>8. CASE Read(r)
    BY <2>8, ReadKept
  <2>9. CASE ReadBulk(r)
    BY <2>9, ReadBulkKept
  <2>10. CASE WriteTicketFile(r)
    BY <2>10, WriteTicketFileKept
  <2>11. CASE GivesUp(r)
    BY <2>11, GivesUpKept
  <2>12. CASE UpsertTicket(r)
    BY <2>12, UpsertTicketKept
  <2>13. CASE Unlock(r)
    BY <2>13, UnlockKept
  <2>14. CASE MoveToSprint(r)
    BY <2>14, MoveToSprintKept
  <2>15. CASE MoveToSprintFails(r)
    BY <2>15, MoveToSprintFailsKept
  <2>16. CASE BatchFails(r)
    BY <2>16, BatchFailsKept
  <2>17. CASE ReadUndo(r)
    BY <2>17, ReadUndoKept
  <2>18. CASE InterruptedWrite(r)
    BY <2>18, InterruptedWriteKept
  <2>19. CASE RemoveTicketFile(r)
    BY <2>19, RemoveTicketFileKept
  <2>20. CASE DeleteTicket(r)
    BY <2>20, DeleteTicketKept
  <2>21. CASE DeleteTicketFails(r)
    BY <2>21, DeleteTicketFailsKept
  <2> QED BY <2>1, <2>2, <2>3, <2>4, <2>5, <2>6, <2>7, <2>8, <2>9, <2>10, <2>11, <2>12, <2>13, <2>14, <2>15, <2>16, <2>17, <2>18, <2>19, <2>20, <2>21
     DEF Request, Goes, Fails
<1>2. CASE \E s \in Scans : \/ ReconcileOnBoot(s) \/ RepairUnpublished(s) \/ RebuildTicketIndex(s)
                                \/ ScanOn(s) \/ ReconcileFails(s)
  <2>1. PICK s \in Scans : \/ ReconcileOnBoot(s) \/ RepairUnpublished(s) \/ RebuildTicketIndex(s)
                           \/ ScanOn(s) \/ ReconcileFails(s)
    BY <1>2
  <2>2. CASE ReconcileOnBoot(s)
    BY <2>2, ReconcileOnBootKept
  <2>3. CASE RepairUnpublished(s)
    BY <2>3, RepairUnpublishedKept
  <2>4. CASE RebuildTicketIndex(s)
    BY <2>4, RebuildTicketIndexKept
  <2>5. CASE ListIds(s)
    BY <2>5, ListIdsKept
  <2>6. CASE DetectDrift(s)
    BY <2>6, DetectDriftKept
  <2>7. CASE WriteProjectIndex(s)
    BY <2>7, WriteProjectIndexKept
  <2>8. CASE ReconcileFails(s)
    BY <2>8, ReconcileFailsKept
  <2>9. ASSUME NEW t \in Tickets, ReadDocument(s, t)
        PROVE  StoreInv'
    BY <2>9, ReadDocumentKept
  <2> QED BY <2>1, <2>2, <2>3, <2>4, <2>5, <2>6, <2>7, <2>8, <2>9 DEF ScanOn
<1>3. CASE Crash
  BY <1>3, CrashKept
<1>4. CASE UNCHANGED vars
  <2>1. UNCHANGED <<file, row, nextNumber, queued, docLock, writeLock, req, scan, boot, now, born>>
    BY <1>4 DEF vars
  <2>2. \A t \in Tickets : (Crossed(t) => Crossed(t)') /\ (Clean(t)' => Clean(t))
    BY <2>1, CrossedWithoutRequests
  <2>3. Numbers' /\ Places' /\ Writers' /\ Found' /\ Times' /\ ScanStages'
    BY <2>1 DEF StoreInv, Numbers, Places, Writers, Found, Times, ScanStages
  <2>4. Drafts' /\ Acknowledged'
    BY <2>1, <2>2 DEF StoreInv, Drafts, Draft, Acknowledged
  <2>5. RowsBehindFiles' /\ ScansBehindFiles'
    BY <2>1, <2>2 DEF StoreInv, RowsBehindFiles, ScansBehindFiles, ScanBehindFile
  <2>6. Covered'
    BY <2>1, <2>2 DEF StoreInv, Covered, Stale, Covers
  <2> QED BY <2>3, <2>4, <2>5, <2>6 DEF StoreInv
<1> QED BY <1>1, <1>2, <1>3, <1>4 DEF Next

\* The invariant holds in every state.
LEMMA StoreInvariant ==
  ASSUME ~Behind
  PROVE  Spec => [](TypeInv /\ StoreInv)
<1>1. Init => TypeInv /\ StoreInv
  BY InitTyped, InitKept
<1>2. TypeInv /\ StoreInv /\ [Next]_vars => (TypeInv /\ StoreInv)'
  BY TypeInvStep, StoreInvStep
<1> QED BY <1>1, <1>2, PTL DEF Spec

\* Writers that have crossed have raced.
LEMMA CrossedHasRaced ==
  ASSUME NEW t \in Tickets
  PROVE  Crossed(t) => Raced(t)
BY DEF Crossed, Raced, Begun, Kind, On, Waiting

\* When nothing is under way, queued or failed, the row of a ticket says what its file says:
\* no order of writers, publications, repairs, rebuilds and crashes leaves it behind, and no
\* bulk update that neither meets another kind of writer there nor is taken back.  The
\* counter must not be behind the files: a number it hands out again goes to a ticket with a
\* time from before the last change of the one it replaces.
THEOREM IndexIsMirrored ==
  ASSUME ~Behind
  PROVE  Spec => []IndexMirrorsFiles
<1>1. TypeInv /\ StoreInv => IndexMirrorsFiles
  <2>1. SUFFICES ASSUME TypeInv, StoreInv, NEW t \in Tickets, Held(t), Settled(t),
                        ~Raced(t), ~TakenBack(t), row[t] # Fields(file[t])
                 PROVE  FALSE
    BY DEF IndexMirrorsFiles
  <2>2. /\ boot = "done" /\ ~queued /\ file[t] # None
        /\ \A s \in Scans : ~(scan[s].stage # "idle" /\ scan[s].by = "repair")
        /\ \A r \in Requests : ~(req[r].on = t /\ req[r].stage = "written")
    BY <2>1 DEF Settled, Scanning, Publishing, Held, On
  <2>3. Clean(t) /\ Stale(t)
    BY <2>1, <2>2, CrossedHasRaced DEF Stale, Clean
  <2>4. PICK s \in Scans : Covers(s, t)
    BY <2>1, <2>2, <2>3 DEF StoreInv, Covered
  <2>5. scan[s].stage # "idle" /\ scan[s].by = "boot"
    BY <2>2, <2>4 DEF Covers
  <2>6. boot = "running"
    BY <2>1, <2>5 DEF StoreInv, ScanStages
  <2> QED BY <2>2, <2>6
<1> QED BY <1>1, StoreInvariant, PTL

\* A change that was acknowledged stays in the file, whoever else writes it, and whatever bulk
\* updates take back there, unless the writer and a bulk update did not wait for each other.
THEOREM NoUpdateIsLost ==
  ASSUME ~Behind
  PROVE  Spec => []NoLostUpdate
<1>1. TypeInv /\ StoreInv => NoLostUpdate
  <2>1. SUFFICES ASSUME TypeInv, StoreInv, NEW r \in Requests, req[r].stage = "done",
                        Kind(r) # "remove", Held(On(r)), ~Raced(On(r))
                 PROVE  r \in file[On(r)].has \cup file[On(r)].comments
    BY DEF NoLostUpdate
  <2>2. On(r) \in Tickets /\ ~Crossed(On(r))
    BY <2>1, RequestTyped, CrossedHasRaced
  <2> QED BY <2>1, <2>2 DEF StoreInv, Acknowledged, Kind, On, Held
<1> QED BY <1>1, StoreInvariant, PTL

\* A row is never replaced by an older one, not even by a scan that read its file long ago,
\* until a bulk update takes its change of the ticket back or meets another kind of writer.
THEOREM RowsOnlyGoForward ==
  ASSUME ~Behind
  PROVE  Spec => RowsGoForward
<1> DEFINE A == \A t \in Tickets :
                  row[t] # None /\ row'[t] # None /\ ~Raced(t) /\ ~TakenBack(t)
                  => row[t].at <= row'[t].at
<1>1. TypeInv /\ StoreInv /\ [Next]_vars => [A]_vars
  <2>1. SUFFICES ASSUME TypeInv, StoreInv, Next, NEW t \in Tickets, row[t] # None, row'[t] # None,
                        ~Raced(t), ~TakenBack(t)
                 PROVE  row[t].at <= row'[t].at
    OBVIOUS
  <2>c. ~Crossed(t) /\ Clean(t)
    BY <2>1, CrossedHasRaced DEF Clean
  <2>2. row[t].at \in Nat
    BY <2>1, StoreTypes
  <2>3. CASE row'[t] = row[t]
    BY <2>2, <2>3
  <2>4. ASSUME NEW r \in Requests, UpsertTicket(r), row'[t] # row[t]
        PROVE  row[t].at <= row'[t].at
    <3>1. row' = [row EXCEPT ![req[r].on] = Fields(req[r].doc)]
      BY <2>4 DEF UpsertTicket, On
    <3>2. req[r].on = t /\ row'[t] = Fields(req[r].doc)
      BY <2>1, <2>4, <3>1 DEF TypeInv, TypeOK
    <3>3. req[r].stage = "written"
      <4>1. req[r].stage # "undone"
        BY <2>1, <3>2 DEF TakenBack, TypeInv, Typed, Undoing, On, Kind
      <4> QED BY <2>4, <4>1 DEF UpsertTicket
    <3>4. file[t] = req[r].doc /\ file[t] # None /\ req[r].doc.at = Fields(req[r].doc).at
      BY <2>1, <2>c, <3>2, <3>3, StoreTypes DEF StoreInv, Drafts, Draft, Fields
    <3> QED BY <2>1, <2>c, <3>2, <3>4 DEF StoreInv, RowsBehindFiles
  <2>5. ASSUME NEW r \in Requests, DeleteTicket(r), row'[t] # row[t]
        PROVE  FALSE
    BY <2>1, <2>5 DEF DeleteTicket, TypeInv, TypeOK
  <2>6. ASSUME NEW s \in Scans, WriteProjectIndex(s), row'[t] # row[t]
        PROVE  row[t].at <= row'[t].at
    <3>1. Rewritten(s, t) /\ row'[t] = Fields(scan[s].docs[t]) /\ scan[s].stage = "write"
      BY <2>1, <2>6 DEF WriteProjectIndex
    <3> QED BY <2>1, <2>c, <3>1, WhatIsWritten
  <2>7. \/ row' = row
        \/ \E r \in Requests : UpsertTicket(r) \/ DeleteTicket(r)
        \/ \E s \in Scans : WriteProjectIndex(s)
    <3>1. ASSUME NEW r \in Requests, Goes(r), ~UpsertTicket(r), ~DeleteTicket(r)
          PROVE  row' = row
      BY <3>1 DEF Goes, Begin, ReserveTicketNumber, CreateTicketFile, LockDocument, ListComment,
           NotFound, Read, ReadBulk, WriteTicketFile, Unlock, MoveToSprint, ReadUndo,
           RemoveTicketFile, stored
    <3>2. ASSUME NEW r \in Requests, Fails(r)
          PROVE  row' = row
      BY <3>2 DEF Fails, GivesUp, MoveToSprintFails, BatchFails, InterruptedWrite,
           DeleteTicketFails, stored
    <3>3. ASSUME NEW s \in Scans, \/ ReconcileOnBoot(s) \/ RepairUnpublished(s) \/ RebuildTicketIndex(s)
                                  \/ ScanOn(s) \/ ReconcileFails(s), ~WriteProjectIndex(s)
          PROVE  row' = row
      BY <3>3 DEF ScanOn, ReconcileOnBoot, RepairUnpublished, RebuildTicketIndex, ListIds,
           ReadDocument, DetectDrift, ReconcileFails, stored
    <3> QED BY <2>1, <3>1, <3>2, <3>3 DEF Next, Request, Crash, stored
  <2> QED BY <2>3, <2>4, <2>5, <2>6, <2>7
<1>2. Spec => [][A]_vars
  BY <1>1, StoreInvariant, PTL DEF Spec
<1> QED BY <1>2 DEF RowsGoForward

\* A number that had a ticket is never given to another, whatever is removed or rebuilt, and
\* no bulk update, not one whose way back comes late, brings a removed ticket back.
THEOREM NumbersStaySpent ==
  ASSUME ~Behind
  PROVE  Spec => NumbersAreNotReused
<1> DEFINE A == \A t \in born : file[t] = None => file'[t] = None
<1>1. TypeInv /\ StoreInv /\ [Next]_vars => [A]_vars
  <2>1. SUFFICES ASSUME TypeInv, StoreInv, Next, NEW t \in born, file[t] = None
                 PROVE  file'[t] = None
    OBVIOUS
  <2>2. t \in Tickets
    BY <2>1 DEF TypeInv, TypeOK
  <2>3. ASSUME NEW r \in Requests, WriteTicketFile(r)
        PROVE  file'[t] = None
    <3>1. req[r].stage \in {"read", "undo"}
      BY <2>3 DEF WriteTicketFile
    <3>2. req[r].on # t
      BY <2>1, <3>1 DEF StoreInv, Found
    <3> QED BY <2>1, <2>2, <2>3, <3>2 DEF WriteTicketFile, On, TypeInv, TypeOK
  <2>4. ASSUME NEW r \in Requests, CreateTicketFile(r)
        PROVE  file'[t] = None
    <3>1. req[r].stage = "reserved"
      BY <2>4 DEF CreateTicketFile, CanLock, Entries, Kind
    <3>2. req[r].on # t
      BY <2>1, <3>1 DEF StoreInv, Numbers
    <3> QED BY <2>1, <2>2, <2>4, <3>2 DEF CreateTicketFile, On, TypeInv, TypeOK
  <2>5. ASSUME NEW r \in Requests, InterruptedWrite(r)
        PROVE  file'[t] = None
    <3>1. req[r].on # t
      BY <2>1, <2>5 DEF InterruptedWrite, StoreInv, Found
    <3> QED BY <2>1, <2>2, <2>5, <3>1 DEF InterruptedWrite, On, TypeInv, TypeOK
  <2>6. ASSUME NEW r \in Requests, RemoveTicketFile(r)
        PROVE  file'[t] = None
    BY <2>1, <2>2, <2>6 DEF RemoveTicketFile, TypeInv, TypeOK
  <2>7. \/ file' = file
        \/ \E r \in Requests : \/ WriteTicketFile(r) \/ CreateTicketFile(r)
                               \/ InterruptedWrite(r) \/ RemoveTicketFile(r)
    <3>1. ASSUME NEW r \in Requests, Goes(r), ~WriteTicketFile(r), ~CreateTicketFile(r),
                 ~RemoveTicketFile(r)
          PROVE  file' = file
      BY <3>1 DEF Goes, Begin, ReserveTicketNumber, LockDocument, ListComment, NotFound, Read,
           ReadBulk, UpsertTicket, Unlock, MoveToSprint, ReadUndo, DeleteTicket, stored
    <3>2. ASSUME NEW r \in Requests, Fails(r), ~InterruptedWrite(r)
          PROVE  file' = file
      BY <3>2 DEF Fails, GivesUp, MoveToSprintFails, BatchFails, DeleteTicketFails, stored
    <3>3. ASSUME NEW s \in Scans, \/ ReconcileOnBoot(s) \/ RepairUnpublished(s) \/ RebuildTicketIndex(s)
                                  \/ ScanOn(s) \/ ReconcileFails(s)
          PROVE  file' = file
      BY <3>3 DEF ScanOn, ReconcileOnBoot, RepairUnpublished, RebuildTicketIndex, ListIds,
           ReadDocument, DetectDrift, WriteProjectIndex, ReconcileFails, stored
    <3> QED BY <2>1, <3>1, <3>2, <3>3 DEF Next, Request, Crash, stored
  <2> QED BY <2>1, <2>3, <2>4, <2>5, <2>6, <2>7
<1>2. Spec => [][A]_vars
  BY <1>1, StoreInvariant, PTL DEF Spec
<1> QED BY <1>2 DEF NumbersAreNotReused

===============================================================================
