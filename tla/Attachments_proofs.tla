-------------------------- MODULE Attachments_proofs --------------------------
(***************************************************************************)
(* Proofs about Attachments, for any attachments, tickets, requests and    *)
(* failures.                                                               *)
(*                                                                         *)
(* References: nothing that a ticket refers to is ever orphaned, so an     *)
(* orphan that is referred to was one when the reference was made, and the *)
(* writer that made it has still to look, or has it in hand (InHand).      *)
(*                                                                         *)
(* Objects: the object of an attachment that was never committed is its    *)
(* own (Alone), so that no end of a commit takes it from another; whoever  *)
(* is about to delete an object saw that no row points at it, and who      *)
(* points at it since is late (NoneLeft).                                  *)
(***************************************************************************)
EXTENDS Attachments, WellFoundedInduction, TLAPS

\* The types, variable by variable, with what each place tells of the rest.
RowOK == row \in [Files -> Rows]

OnFile == {"head", "reject", "twin", "hashed", "unhashed", "claim", "check", "drop"}
Calls == [at : Places, on : Files \cup {None}, key : Files \cup {None},
          to : Files \cup {None}]
CallShape(r) ==
  /\ r.at \in OnFile => r.on \in Files /\ r.key \in Files
  /\ r.at \in {"hashed", "unhashed"} => r.to \in Files
  /\ r.at = "new banner" => r.on \in Files
CallOK == call \in [Callers -> Calls] /\ \A c \in Callers : CallShape(call[c])

Writers == [at : Steps, add : SUBSET Files, remove : SUBSET Files,
            live : SUBSET Files, orphan : SUBSET Files]
WriterShape(w) == w.at \in {"orphan", "live"} => w.live \subseteq w.add \cup w.remove
WriterOK == writer \in [Tickets -> Writers] /\ \A t \in Tickets : WriterShape(writer[t])

LoopOK ==
  /\ loop \in [at : Hours, todo : SUBSET Todos, key : Files \cup {None}]
  /\ loop.at \in {"repoint", "dedupe check", "dedupe drop"} =>
       \A p \in loop.todo : p.to \in Files
  /\ loop.at \in {"dedupe check", "dedupe drop", "reap check", "reap drop"} =>
       loop.key \in Files

RestOK ==
  /\ object \subseteq Files /\ wrong \subseteq Files
  /\ refs \subseteq Tickets \X Files /\ cut \subseteq Tickets \X Files
  /\ banner \in Files \cup {None} /\ late \subseteq Files
  /\ project \in [there : BOOLEAN, orphaning : SUBSET Files]
  /\ body \in [Tickets -> SUBSET Files]
SpentOK ==
  spent \in [calls : 0..MaxCalls, writes : 0..MaxWrites, failures : 0..MaxFailures]

Typed == RowOK /\ CallOK /\ WriterOK /\ LoopOK /\ RestOK /\ SpentOK

InHand ==
  \A t \in Tickets, a \in Files \ Pictures :
    <<t, a>> \in refs \ cut /\ row[a].status = "orphaned" =>
      \/ writer[t].at = "statuses" /\ a \in Touched(t)
      \/ writer[t].at \in {"orphan", "live"} /\ a \in writer[t].live


-------------------------------------------------------------------------------
(* What the helpers of the actions do *)

LEMMA TypedIsTypeOK == Typed => TypeOK
BY DEF Typed, RowOK, CallOK, WriterOK, LoopOK, RestOK, SpentOK, TypeOK, Calls, Writers

LEMMA GotoKeeps ==
  ASSUME CallOK, NEW c \in Callers, NEW at \in Places, Goto(c, at),
         at \in OnFile => call[c].on \in Files /\ call[c].key \in Files,
         at \in {"hashed", "unhashed"} => call[c].to \in Files,
         at = "new banner" => call[c].on \in Files
  PROVE  CallOK'
<1>1. call[c] \in Calls
  BY DEF CallOK
<1>2. [call[c] EXCEPT !.at = at] \in Calls /\ CallShape([call[c] EXCEPT !.at = at])
  BY <1>1 DEF Calls, CallShape
<1>3. call' = [call EXCEPT ![c] = [call[c] EXCEPT !.at = at]]
  BY DEF Goto
<1>4. QED
  BY <1>2, <1>3 DEF CallOK

LEMMA ReturnKeeps ==
  ASSUME CallOK, NEW c \in Callers, Return(c)
  PROVE  CallOK'
<1>1. NoCall \in Calls /\ CallShape(NoCall)
  BY DEF NoCall, Calls, Places, CallShape, OnFile
<1>2. QED
  BY <1>1 DEF Return, CallOK

LEMMA RequestKeeps ==
  ASSUME CallOK, NEW c \in Callers, NEW r \in Calls, CallShape(r),
         call' = [call EXCEPT ![c] = r]
  PROVE  CallOK'
BY DEF CallOK

LEMMA StatusKeeps ==
  ASSUME RowOK, NEW as, NEW s \in Statuses, SetStatus(as, s)
  PROVE  /\ RowOK'
         /\ \A a \in Files :
              /\ row'[a].key = row[a].key
              /\ row'[a].status = IF a \in as THEN s ELSE row[a].status
<1>1. \A a \in Files : row'[a] = IF a \in as
                                THEN [row[a] EXCEPT !.status = s, !.due = FALSE]
                                ELSE row[a]
  BY DEF SetStatus
<1>2. ASSUME NEW a \in Files
      PROVE  /\ row'[a] \in Rows /\ row'[a].key = row[a].key
             /\ row'[a].status = IF a \in as THEN s ELSE row[a].status
  <2>1. row[a] \in Rows
    BY DEF RowOK
  <2>2. CASE a \in as
    <3>1. row'[a] = [row[a] EXCEPT !.status = s, !.due = FALSE]
      BY <1>1, <2>2
    <3> DEFINE r == row[a]
               q == row'[a]
    <3>2. r \in Rows /\ q = [r EXCEPT !.status = s, !.due = FALSE]
      BY <2>1, <3>1
    <3> HIDE DEF r, q
    <3>3. q \in Rows /\ q.status = s /\ q.key = r.key
      BY <3>2 DEF Rows
    <3>4. QED
      BY <2>2, <3>3 DEF q, r
  <2>3. CASE a \notin as
    BY <1>1, <2>1, <2>3
  <2>4. QED
    BY <2>2, <2>3
<1>3. RowOK'
  BY <1>2 DEF RowOK, SetStatus
<1>4. QED
  BY <1>2, <1>3

LEMMA DeleteKeeps ==
  ASSUME RowOK, NEW a \in Files, DeleteRow(a)
  PROVE  /\ RowOK' /\ refs' \subseteq refs
         /\ \A b \in Files :
              /\ row'[b].key = row[b].key
              /\ row'[b].status = IF b = a THEN "gone" ELSE row[b].status
<1>1. /\ row' = [row EXCEPT ![a] = [[row[a] EXCEPT !.status = "gone"] EXCEPT !.due = FALSE]]
      /\ row[a] \in Rows
  BY DEF DeleteRow, RowOK
<1>2. row'[a] \in Rows /\ row'[a].key = row[a].key /\ row'[a].status = "gone"
  BY <1>1 DEF RowOK, Rows, Statuses
<1>3. RowOK'
  BY <1>1, <1>2 DEF RowOK
<1>4. QED
  BY <1>1, <1>2, <1>3 DEF RowOK, DeleteRow

LEMMA ContinueKeeps ==
  ASSUME WriterOK, NEW t \in Tickets, NEW w \in Writers, WriterShape(w), Continue(t, w)
  PROVE  WriterOK'
BY DEF WriterOK, Continue

LEMMA NoWriterTyped == NoWriter \in Writers /\ WriterShape(NoWriter)
BY DEF NoWriter, Writers, Steps, WriterShape

LEMMA BeginKeeps ==
  ASSUME AttachmentsAssumption, SpentOK, Begin
  PROVE  SpentOK'
BY DEF AttachmentsAssumption, SpentOK, Begin

LEMMA FailureKeeps ==
  ASSUME AttachmentsAssumption, SpentOK, Failure
  PROVE  SpentOK'
BY DEF AttachmentsAssumption, SpentOK, Failure

LEMMA SmallestFile ==
  ASSUME NEW T \in SUBSET Nat, T # {}
  PROVE  \E x \in T : \A y \in T : x <= y
<1>1. PICK x \in T : \A y \in T : <<y, x>> \notin OpToRel(<, Nat)
  BY NatLessThanWellFounded, WFMin
<1>2. \A y \in T : ~(y < x)
  BY <1>1 DEF OpToRel
<1>3. QED
  BY <1>2

\* The first of the attachments alike is one of them.
LEMMA FirstIsAlike ==
  ASSUME AttachmentsAssumption, NEW a \in Files, Committed(a), row[a].hashed
  PROVE  First(Alike(a)) \in Alike(a)
<1>1. a \in Alike(a) /\ Alike(a) \in SUBSET Nat
  BY DEF Alike, AttachmentsAssumption
<1>2. QED
  BY <1>1, SmallestFile DEF First

-------------------------------------------------------------------------------
(* Every step keeps the types *)

LEMMA UploadTyped ==
  ASSUME AttachmentsAssumption, Typed, NEW a \in Files,
         \/ Prepare(a) \/ Ages(a) \/ Hash(a)
         \/ \E bad \in BOOLEAN : PutObject(a, bad)
  PROVE  Typed'
<1>1. CASE Prepare(a)
  <2>1. RowOK'
    BY <1>1, StatusKeeps DEF Prepare, Typed, Statuses
  <2>2. QED
    BY <1>1, <2>1 DEF Prepare, Typed, CallOK, WriterOK, LoopOK, RestOK, SpentOK, WriterShape
<1>2. CASE Ages(a) \/ Hash(a)
  <2>1. PICK r : /\ r \in {[row[a] EXCEPT !.due = TRUE], [row[a] EXCEPT !.hashed = TRUE]}
                 /\ row' = [row EXCEPT ![a] = r]
    BY <1>2 DEF Ages, Hash
  <2>2. row[a] \in Rows
    BY DEF Typed, RowOK
  <2>3. r \in Rows
    BY <2>1, <2>2 DEF Rows
  <2>4. RowOK'
    BY <2>1, <2>3 DEF Typed, RowOK
  <2>5. QED
    BY <1>2, <2>4 DEF Ages, Hash, Typed, CallOK, WriterOK, LoopOK, RestOK, SpentOK, WriterShape
<1>3. CASE \E bad \in BOOLEAN : PutObject(a, bad)
  BY <1>3 DEF PutObject, Typed, RowOK, CallOK, WriterOK, LoopOK, RestOK, SpentOK, WriterShape
<1>4. QED
  BY <1>1, <1>2, <1>3

\* What a step of a request changes besides its call.
LEMMA CallTyped ==
  ASSUME AttachmentsAssumption, Typed, NEW c \in Callers,
         \/ \E a \in Files : Commit(c, a) \/ Delete(c, a) \/ SetBanner(c, a)
         \/ SetBanner(c, None)
  PROVE  Typed'
<1>1. /\ call[c].at = "idle" /\ Begin
      /\ UNCHANGED <<row, object, wrong, refs, banner, project, body, writer, loop, late, cut>>
  BY DEF Commit, Delete, SetBanner
<1>2. \A a \in Files : row[a].key \in Files
  BY DEF Typed, RowOK, Rows
<1>3. CallOK'
  <2>1. PICK at \in {"head", "claim", "banner"}, on \in Files \cup {None},
             key \in Files \cup {None} :
          /\ call' = [call EXCEPT ![c] = [at |-> at, on |-> on, key |-> key, to |-> None]]
          /\ at # "banner" => on \in Files /\ key \in Files
    <3>1. banner \in Files \cup {None}
      BY DEF Typed, RestOK
    <3>2. CASE \E a \in Files : Commit(c, a)
      BY <1>2, <3>2 DEF Commit
    <3>3. CASE \E a \in Files : Delete(c, a)
      BY <1>2, <3>3 DEF Delete
    <3>4. CASE \E a \in Files \cup {None} : SetBanner(c, a)
      BY <3>1, <3>4 DEF SetBanner
    <3>5. QED
      BY <3>2, <3>3, <3>4
  <2> DEFINE r == [at |-> at, on |-> on, key |-> key, to |-> None]
  <2>2. r \in Calls /\ CallShape(r)
    BY <2>1 DEF Calls, Places, CallShape, OnFile
  <2>3. QED
    BY <2>1, <2>2, RequestKeeps DEF Typed
<1>4. SpentOK'
  BY <1>1, BeginKeeps DEF Typed
<1>5. QED
  BY <1>1, <1>3, <1>4 DEF Typed, RowOK, WriterOK, LoopOK, RestOK, WriterShape

LEMMA RequestTyped ==
  ASSUME AttachmentsAssumption, Typed, NEW c \in Callers, Request(c)
  PROVE  Typed'
<1>1. call[c] \in Calls /\ CallShape(call[c]) /\ \A a \in Files : row[a] \in Rows
  BY DEF Typed, CallOK, RowOK
<1>2. CASE \/ \E a \in Files : Commit(c, a) \/ Delete(c, a) \/ SetBanner(c, a)
           \/ SetBanner(c, None)
  BY <1>2, CallTyped
<1>3. CASE HeadObject(c)
  <2>1. CallOK'
    BY <1>1, <1>3, GotoKeeps, ReturnKeeps
    DEF HeadObject, Typed, CallShape, OnFile, Places
  <2>2. QED
    BY <1>3, <2>1 DEF HeadObject, Typed, RowOK, WriterOK, LoopOK, RestOK, SpentOK, WriterShape
<1>4. CASE Reject(c)
  <2>1. CallOK' /\ call[c].on \in Files
    BY <1>1, <1>4, ReturnKeeps DEF Reject, Typed, CallShape, OnFile
  <2>2. RowOK' /\ refs' \subseteq refs
    BY <1>4, <2>1, DeleteKeeps DEF Reject, Typed, RowOK
  <2>3. QED
    BY <1>4, <2>1, <2>2 DEF Reject, Typed, WriterOK, LoopOK, RestOK, SpentOK, WriterShape
<1>5. CASE \E told \in BOOLEAN : FindTwin(c, told)
  <2>1. PICK told \in BOOLEAN :
          FindTwin(c, told)
    BY <1>5
  <2>2. PICK k \in {call[c].key} \cup {row[b].key : b \in {b \in Twins(call[c].on) : told}} :
          call' = [call EXCEPT ![c].at = IF told THEN "hashed" ELSE "unhashed", ![c].to = k]
    BY <2>1 DEF FindTwin
  <2> DEFINE r == [[call[c] EXCEPT !.at = IF told THEN "hashed" ELSE "unhashed"]
                     EXCEPT !.to = k]
  <2>3. k \in Files
    BY <1>1, <2>1, <2>2 DEF FindTwin, CallShape, OnFile, Twins, Rows
  <2>4. r \in Calls /\ CallShape(r)
    BY <1>1, <2>1, <2>3 DEF FindTwin, Calls, Places, CallShape, OnFile
  <2>5. call' = [call EXCEPT ![c] = r]
    BY <2>2 DEF Typed, CallOK
  <2>6. CallOK'
    BY <2>4, <2>5, RequestKeeps DEF Typed
  <2>7. QED
    BY <2>1, <2>6 DEF FindTwin, Typed, RowOK, WriterOK, LoopOK, RestOK, SpentOK, WriterShape
<1>6. CASE CommitRow(c)
  <2>1. call[c].on \in Files /\ call[c].key \in Files /\ call[c].to \in Files
    BY <1>1, <1>6 DEF CommitRow, CallShape, OnFile
  <2>2. CallOK'
    BY <1>6, <2>1, GotoKeeps, ReturnKeeps DEF CommitRow, Typed, Places
  <2>3. RowOK'
    <3> DEFINE a == call[c].on
               r == [status |-> IF a \in Pictures THEN "orphaned" ELSE "live",
                     key |-> call[c].to, hashed |-> call[c].at = "hashed", due |-> FALSE]
    <3>1. row' = row \/ row' = [row EXCEPT ![a] = r]
      BY <1>6 DEF CommitRow
    <3>2. r \in Rows
      BY <2>1 DEF Rows, Statuses
    <3> HIDE DEF r
    <3>3. QED
      BY <2>1, <3>1, <3>2 DEF Typed, RowOK
  <2>4. late' \subseteq Files
    BY <1>6, <2>1 DEF CommitRow, Takes, Typed, RestOK
  <2>5. QED
    BY <1>6, <2>2, <2>3, <2>4
    DEF CommitRow, Typed, WriterOK, LoopOK, RestOK, SpentOK, WriterShape
<1>7. CASE Claim(c)
  <2>1. call[c].on \in Files /\ call[c].key \in Files
    BY <1>1, <1>7 DEF Claim, CallShape, OnFile
  <2>2. CallOK'
    BY <1>7, <2>1, GotoKeeps, ReturnKeeps DEF Claim, Typed, Places
  <2>3. RowOK' /\ refs' \subseteq refs
    BY <1>7, <2>1, DeleteKeeps DEF Claim, Typed, RowOK
  <2>4. QED
    BY <1>7, <2>2, <2>3 DEF Claim, Typed, WriterOK, LoopOK, RestOK, SpentOK, WriterShape
<1>8. CASE CheckSharers(c)
  <2>1. CallOK'
    BY <1>1, <1>8, GotoKeeps, ReturnKeeps
    DEF CheckSharers, Typed, CallShape, OnFile, Places
  <2>2. QED
    BY <1>8, <2>1
    DEF CheckSharers, Typed, RowOK, WriterOK, LoopOK, RestOK, SpentOK, WriterShape
<1>9. CASE DeleteObject(c)
  <2>1. CallOK'
    BY <1>9, ReturnKeeps DEF DeleteObject, Typed
  <2>2. QED
    BY <1>9, <2>1
    DEF DeleteObject, Typed, RowOK, WriterOK, LoopOK, RestOK, SpentOK, WriterShape
<1>10. CASE ReferToImage(c)
  <2>1. CallOK'
    BY <1>1, <1>10, GotoKeeps, ReturnKeeps
    DEF ReferToImage, Typed, Places, Calls, OnFile
  <2>2. banner' \in Files \cup {None}
    BY <1>1, <1>10 DEF ReferToImage, Calls, Typed, RestOK
  <2>3. QED
    BY <1>10, <2>1, <2>2
    DEF ReferToImage, Typed, RowOK, WriterOK, LoopOK, RestOK, SpentOK, WriterShape
<1>11. CASE ImageIsLive(c)
  <2>1. CallOK'
    BY <1>11, GotoKeeps DEF ImageIsLive, Typed, Places, OnFile
  <2>2. RowOK'
    BY <1>11, StatusKeeps DEF ImageIsLive, Typed, RowOK, Statuses
  <2>3. QED
    BY <1>11, <2>1, <2>2
    DEF ImageIsLive, Typed, WriterOK, LoopOK, RestOK, SpentOK, WriterShape
<1>12. CASE OrphanOldImage(c)
  <2>1. CallOK'
    BY <1>12, ReturnKeeps DEF OrphanOldImage, Typed
  <2>2. RowOK'
    BY <1>12, StatusKeeps DEF OrphanOldImage, Typed, RowOK, Statuses
  <2>3. QED
    BY <1>12, <2>1, <2>2
    DEF OrphanOldImage, Typed, WriterOK, LoopOK, RestOK, SpentOK, WriterShape
<1>13. CASE CallFails(c)
  <2>1. CallOK' /\ SpentOK'
    BY <1>13, ReturnKeeps, FailureKeeps DEF CallFails, Typed
  <2>2. QED
    BY <1>13, <2>1 DEF CallFails, Typed, RowOK, WriterOK, LoopOK, RestOK, WriterShape
<1>14. QED
  BY <1>2, <1>3, <1>4, <1>5, <1>6, <1>7, <1>8, <1>9, <1>10, <1>11, <1>12, <1>13
  DEF Request

LEMMA ReconcileTyped ==
  ASSUME AttachmentsAssumption, Typed, NEW t \in Tickets,
         \/ Reconcile(t) \/ ReconcileFails(t)
         \/ \E as \in SUBSET Files : WriteBody(t, as)
  PROVE  Typed'
<1>1. writer[t] \in Writers /\ WriterShape(writer[t])
  BY DEF Typed, WriterOK
<1>2. NoWriter \in Writers /\ WriterShape(NoWriter)
  BY NoWriterTyped
<1>3. CASE \E as \in SUBSET Files : WriteBody(t, as)
  <2>1. WriterOK'
    <3>1. [NoWriter EXCEPT !.at = "plan"] \in Writers
      BY <1>2 DEF Writers, Steps
    <3>2. WriterShape([NoWriter EXCEPT !.at = "plan"])
      BY DEF WriterShape, NoWriter
    <3>3. QED
      BY <1>3, <3>1, <3>2, ContinueKeeps DEF WriteBody, Typed
  <2>2. SpentOK'
    BY <1>3 DEF WriteBody, Typed, SpentOK, AttachmentsAssumption
  <2>3. RestOK'
    <3>1. /\ body \in [Tickets -> SUBSET Files]
          /\ \E as \in SUBSET Files : body' = [body EXCEPT ![t] = as]
      BY <1>3 DEF WriteBody, Typed, RestOK
    <3>2. body' \in [Tickets -> SUBSET Files]
      BY <3>1
    <3>3. UNCHANGED <<object, wrong, refs, banner, project, late, cut>>
      BY <1>3 DEF WriteBody
    <3>4. QED
      BY <3>2, <3>3 DEF Typed, RestOK
  <2>4. QED
    BY <1>3, <2>1, <2>2, <2>3 DEF WriteBody, Typed, RowOK, CallOK, LoopOK
<1>4. CASE PlanReferences(t)
  <2> DEFINE existing == {a \in Files : <<t, a>> \in refs}
             known == {a \in body[t] : Stored(a)}
             at == IF existing \subseteq known THEN "add" ELSE "remove"
             w == [NoWriter EXCEPT !.at = at, !.add = known \ existing,
                                   !.remove = existing \ known]
  <2>1. existing \in SUBSET Files /\ known \in SUBSET Files
    BY DEF Typed, RestOK
  <2>2. Continue(t, NoWriter) \/ Continue(t, w)
    BY <1>4 DEF PlanReferences
  <2>3. at \in {"add", "remove"}
    OBVIOUS
  <2> HIDE DEF existing, known, at
  <2>4. w \in Writers /\ WriterShape(w)
    BY <1>2, <2>1, <2>3 DEF Writers, Steps, WriterShape
  <2> HIDE DEF w
  <2>5. WriterOK'
    BY <1>2, <2>2, <2>4, ContinueKeeps DEF Typed
  <2>6. QED
    BY <1>4, <2>5 DEF PlanReferences, Typed, RowOK, CallOK, LoopOK, RestOK, SpentOK
<1>5. CASE RemoveReferences(t) \/ AddReferences(t)
  <2> DEFINE at == IF RemoveReferences(t) /\ writer[t].add # {} THEN "add" ELSE "statuses"
             w == [writer[t] EXCEPT !.at = at]
  <2>1. Continue(t, w) \/ Continue(t, [writer[t] EXCEPT !.at = "statuses"])
    BY <1>5 DEF RemoveReferences, AddReferences
  <2>2. at \in {"add", "statuses"}
    OBVIOUS
  <2> HIDE DEF at
  <2>3. /\ w \in Writers /\ WriterShape(w)
        /\ [writer[t] EXCEPT !.at = "statuses"] \in Writers
        /\ WriterShape([writer[t] EXCEPT !.at = "statuses"])
    BY <1>1, <2>2 DEF Writers, Steps, WriterShape
  <2> HIDE DEF w
  <2>4. WriterOK'
    BY <2>1, <2>3, ContinueKeeps DEF Typed
  <2>5. refs' \subseteq Tickets \X Files /\ cut' \subseteq Tickets \X Files
    BY <1>1, <1>5 DEF RemoveReferences, AddReferences, Typed, RestOK, Writers
  <2>6. RestOK'
    BY <1>5, <2>5 DEF RemoveReferences, AddReferences, Typed, RestOK
  <2>7. QED
    BY <1>5, <2>4, <2>6
    DEF RemoveReferences, AddReferences, Typed, RowOK, CallOK, LoopOK, SpentOK
<1>6. CASE PlanStatuses(t)
  <2> DEFINE mentioned == {a \in Files : \E u \in Tickets : <<u, a>> \in refs}
             live == {a \in Touched(t) \cap mentioned : row[a].status = "orphaned"}
             orphan == {a \in Touched(t) \ mentioned : row[a].status = "live"}
             at == IF orphan = {} THEN "live" ELSE "orphan"
             w == [writer[t] EXCEPT !.at = at, !.live = live, !.orphan = orphan]
  <2>1. Continue(t, NoWriter) \/ Continue(t, w)
    BY <1>6 DEF PlanStatuses
  <2>2. Touched(t) \subseteq Files /\ Touched(t) = writer[t].add \cup writer[t].remove
    BY <1>1 DEF Touched, Writers
  <2>3. /\ at \in {"live", "orphan"} /\ live \subseteq Touched(t)
        /\ orphan \subseteq Touched(t)
    OBVIOUS
  <2> HIDE DEF mentioned, live, orphan, at
  <2>4. w \in Writers /\ WriterShape(w)
    BY <1>1, <2>2, <2>3 DEF Writers, Steps, WriterShape
  <2> HIDE DEF w
  <2>5. WriterOK'
    BY <1>2, <2>1, <2>4, ContinueKeeps DEF Typed
  <2>6. QED
    BY <1>6, <2>5 DEF PlanStatuses, Typed, RowOK, CallOK, LoopOK, RestOK, SpentOK
<1>7. CASE OrphanTouched(t)
  <2> DEFINE w == [writer[t] EXCEPT !.at = "live"]
  <2>1. w \in Writers /\ WriterShape(w)
    BY <1>1, <1>7 DEF OrphanTouched, Writers, Steps, WriterShape
  <2>2. Continue(t, NoWriter) \/ Continue(t, w)
    BY <1>7 DEF OrphanTouched
  <2> HIDE DEF w
  <2>3. WriterOK'
    BY <1>2, <2>1, <2>2, ContinueKeeps DEF Typed
  <2>4. RowOK'
    BY <1>7, StatusKeeps DEF OrphanTouched, Typed, Statuses
  <2>5. QED
    BY <1>7, <2>3, <2>4 DEF OrphanTouched, Typed, CallOK, LoopOK, RestOK, SpentOK
<1>8. CASE ReviveTouched(t)
  <2>1. WriterOK' /\ RowOK'
    BY <1>2, <1>8, ContinueKeeps, StatusKeeps DEF ReviveTouched, Typed, Statuses
  <2>2. QED
    BY <1>8, <2>1 DEF ReviveTouched, Typed, CallOK, LoopOK, RestOK, SpentOK
<1>9. CASE ReconcileFails(t)
  <2>1. WriterOK'
    BY <1>2, <1>9, ContinueKeeps DEF ReconcileFails, Typed
  <2>2. SpentOK'
    BY <1>9, FailureKeeps DEF ReconcileFails, Typed, SpentOK
  <2>3. HalfDone(t) \subseteq Tickets \X Files
    BY <1>1 DEF HalfDone, Touched, Writers
  <2>4. RestOK'
    BY <1>9, <2>3 DEF ReconcileFails, Typed, RestOK
  <2>5. QED
    BY <1>9, <2>1, <2>2, <2>4 DEF ReconcileFails, Typed, RowOK, CallOK, LoopOK
<1>10. QED
  BY <1>3, <1>4, <1>5, <1>6, <1>7, <1>8, <1>9 DEF Reconcile

LEMMA LoopTo ==
  ASSUME NEW at \in Hours, NEW todo \in SUBSET Todos, NEW key \in Files \cup {None},
         Loop(at, todo, key),
         at \in {"repoint", "dedupe check", "dedupe drop"} =>
           \A p \in todo : p.to \in Files,
         at \in {"dedupe check", "dedupe drop", "reap check", "reap drop"} =>
           key \in Files
  PROVE  LoopOK'
BY DEF Loop, LoopOK

LEMMA RepointsTyped ==
  ASSUME AttachmentsAssumption, Typed
  PROVE  /\ Repoints \in SUBSET Todos
         /\ \A p \in Repoints :
              /\ p.on \in Files /\ Committed(p.on) /\ p.to \in Files
              /\ \E b \in Files : Committed(b) /\ p.to = row[b].key
<1>1. SUFFICES ASSUME NEW a \in Files, Committed(a), row[a].hashed
               PROVE  LET p == [on |-> a, status |-> "none", key |-> row[a].key,
                                to |-> row[First(Alike(a))].key]
                      IN  /\ p \in Todos /\ p.on \in Files /\ Committed(p.on)
                          /\ p.to \in Files
                          /\ \E b \in Files : Committed(b) /\ p.to = row[b].key
  BY DEF Repoints
<1>2. First(Alike(a)) \in Files /\ Committed(First(Alike(a)))
  BY <1>1, FirstIsAlike DEF Alike
<1>3. row[a].key \in Files /\ row[First(Alike(a))].key \in Files
  BY <1>2 DEF Typed, RowOK, Rows
<1>4. QED
  BY <1>1, <1>2, <1>3 DEF Todos, Statuses

LEMMA ReapableTyped ==
  ASSUME Typed
  PROVE  Reapable \in SUBSET Todos
BY DEF Reapable, Typed, RowOK, Rows, Todos, Statuses

LEMMA HourlyTyped ==
  ASSUME AttachmentsAssumption, Typed, Hourly \/ LoopFails
  PROVE  Typed'
<1>1. /\ loop.at \in Hours /\ loop.todo \in SUBSET Todos /\ loop.key \in Files \cup {None}
      /\ \A p \in loop.todo : p.on \in Files /\ p.key \in Files
  BY DEF Typed, LoopOK, Todos
<1>2. NoLoop \in [at : Hours, todo : SUBSET Todos, key : Files \cup {None}]
      /\ NoLoop.todo = {} /\ NoLoop.at = "dedupe"
  BY DEF NoLoop, Hours
<1>3. CASE \E a \in Files : Hash(a)
  BY <1>3, UploadTyped
<1>4. CASE PlanDedupe
  <2>1. LoopOK'
    BY <1>4, RepointsTyped, LoopTo DEF PlanDedupe, Hours
  <2>2. QED
    BY <1>4, <2>1 DEF PlanDedupe, Typed, RowOK, CallOK, WriterOK, RestOK, SpentOK
<1>5. CASE \E p \in loop.todo : Repoint(p)
  <2>1. PICK p \in loop.todo : Repoint(p)
    BY <1>5
  <2>2. p.on \in Files /\ p.key \in Files /\ p.to \in Files
    BY <1>1, <2>1 DEF Repoint, Typed, LoopOK
  <2>3. LoopOK'
    <3>1. Loop("dedupe check", loop.todo \ {p}, p.key)
      BY <2>1 DEF Repoint
    <3>2. \A q \in loop.todo \ {p} : q.to \in Files
      BY <2>1 DEF Repoint, Typed, LoopOK
    <3>3. loop.todo \ {p} \in SUBSET Todos /\ "dedupe check" \in Hours
      BY <1>1 DEF Hours
    <3>4. QED
      BY <2>2, <3>1, <3>2, <3>3, LoopTo
  <2>4. RowOK' /\ late' \subseteq Files
    <3>1. row[p.on] \in Rows
      BY <2>2 DEF Typed, RowOK
    <3>2. [row[p.on] EXCEPT !.key = p.to] \in Rows
      BY <2>2, <3>1 DEF Rows
    <3>3. row' = row \/ row' = [row EXCEPT ![p.on] = [row[p.on] EXCEPT !.key = p.to]]
      BY <2>1 DEF Repoint
    <3>4. late' \subseteq late \cup {p.on}
      BY <2>1 DEF Repoint, Takes
    <3>5. QED
      BY <2>2, <3>2, <3>3, <3>4 DEF Typed, RowOK, RestOK
  <2>5. QED
    BY <2>1, <2>3, <2>4 DEF Repoint, Typed, CallOK, WriterOK, RestOK, SpentOK
<1>6. CASE PlanReap \/ EndReap
  <2>1. LoopOK'
    BY <1>2, <1>6, ReapableTyped, LoopTo DEF PlanReap, EndReap, Hours, LoopOK
  <2>2. QED
    BY <1>6, <2>1 DEF PlanReap, EndReap, Typed, RowOK, CallOK, WriterOK, RestOK, SpentOK
<1>7. CASE \E p \in loop.todo : Reap(p)
  <2>1. PICK p \in loop.todo : Reap(p)
    BY <1>7
  <2>2. p.on \in Files /\ p.key \in Files /\ loop.todo \ {p} \in SUBSET Todos
    BY <1>1, <2>1
  <2>3. LoopOK'
    BY <2>1, <2>2, LoopTo DEF Reap, Hours
  <2>4. RowOK' /\ refs' \subseteq refs
    BY <2>1, <2>2, DeleteKeeps DEF Reap, Typed, RowOK
  <2>5. QED
    BY <2>1, <2>3, <2>4 DEF Reap, Typed, CallOK, WriterOK, RestOK, SpentOK
<1>8. CASE LoopChecksSharers
  <2>1. LoopOK'
    BY <1>1, <1>8, LoopTo DEF LoopChecksSharers, Hours, Typed, LoopOK
  <2>2. QED
    BY <1>8, <2>1
    DEF LoopChecksSharers, Typed, RowOK, CallOK, WriterOK, RestOK, SpentOK
<1>9. CASE LoopDeletesObject
  <2>1. LoopOK'
    BY <1>1, <1>9, LoopTo DEF LoopDeletesObject, Hours, Typed, LoopOK
  <2>2. SpentOK'
    BY <1>9, FailureKeeps DEF LoopDeletesObject, Typed, SpentOK
  <2>3. QED
    BY <1>9, <2>1, <2>2
    DEF LoopDeletesObject, Typed, RowOK, CallOK, WriterOK, RestOK
<1>10. CASE LoopFails
  <2>1. LoopOK'
    BY <1>2, <1>10, LoopTo DEF LoopFails, Hours, LoopOK
  <2>2. SpentOK'
    BY <1>10, FailureKeeps DEF LoopFails, Typed
  <2>3. QED
    BY <1>10, <2>1, <2>2 DEF LoopFails, Typed, RowOK, CallOK, WriterOK, RestOK
<1>11. QED
  BY <1>3, <1>4, <1>5, <1>6, <1>7, <1>8, <1>9, <1>10 DEF Hourly

LEMMA ProjectTyped ==
  ASSUME AttachmentsAssumption, Typed,
         RemoveProject \/ OrphanUnreferenced \/ OrphaningFails \/ Crash
  PROVE  Typed'
<1>1. CASE RemoveProject
  <2>1. SpentOK'
    BY <1>1, BeginKeeps DEF RemoveProject, Typed
  <2>2. RestOK'
    BY <1>1 DEF RemoveProject, Typed, RestOK
  <2>3. QED
    BY <1>1, <2>1, <2>2 DEF RemoveProject, Typed, RowOK, CallOK, WriterOK, LoopOK
<1>2. CASE OrphanUnreferenced
  <2>1. RowOK'
    BY <1>2, StatusKeeps DEF OrphanUnreferenced, Typed, Statuses
  <2>2. RestOK'
    BY <1>2 DEF OrphanUnreferenced, Typed, RestOK
  <2>3. QED
    BY <1>2, <2>1, <2>2 DEF OrphanUnreferenced, Typed, CallOK, WriterOK, LoopOK, SpentOK
<1>3. CASE OrphaningFails
  <2>1. SpentOK'
    BY <1>3, FailureKeeps DEF OrphaningFails, Typed
  <2>2. RestOK'
    BY <1>3 DEF OrphaningFails, Typed, RestOK
  <2>3. QED
    BY <1>3, <2>1, <2>2 DEF OrphaningFails, Typed, RowOK, CallOK, WriterOK, LoopOK
<1>4. CASE Crash
  <2>1. SpentOK'
    BY <1>4, FailureKeeps DEF Crash, Typed
  <2>2. WriterOK'
    BY <1>4, NoWriterTyped DEF Crash, WriterOK
  <2>3. CallOK' /\ LoopOK'
    BY <1>4 DEF Crash, CallOK, LoopOK, NoCall, NoLoop, Calls, CallShape, OnFile, Places, Hours
  <2>4. UNION {HalfDone(t) : t \in Tickets} \subseteq Tickets \X Files
    BY DEF HalfDone, Touched, Typed, WriterOK, Writers
  <2>5. RestOK'
    BY <1>4, <2>4 DEF Crash, Typed, RestOK
  <2>6. QED
    BY <1>4, <2>1, <2>2, <2>3, <2>5 DEF Crash, Typed, RowOK
<1>5. QED
  BY <1>1, <1>2, <1>3, <1>4

LEMMA NextTyped ==
  ASSUME AttachmentsAssumption, Typed, [Next]_vars
  PROVE  Typed'
<1>1. CASE UNCHANGED vars
  BY <1>1 DEF vars, Typed, RowOK, CallOK, WriterOK, LoopOK, RestOK, SpentOK
<1>2. CASE Next
  BY <1>2, UploadTyped, RequestTyped, ProjectTyped, ReconcileTyped, HourlyTyped
  DEF Next
<1>3. QED
  BY <1>1, <1>2

-------------------------------------------------------------------------------
(* An orphan that a ticket refers to is in the hands of its writer *)

\* An attachment becomes orphaned only while nothing refers to it.
Spares ==
  \A a \in Files \ Pictures : row'[a].status = "orphaned" =>
    row[a].status = "orphaned" \/ ~Referenced(a)

LEMMA OthersKeepHand ==
  ASSUME InHand, Spares, refs' \subseteq refs, cut' = cut, writer' = writer
  PROVE  InHand'
BY DEF InHand, Spares, Referenced, Touched

LEMMA OneKeepsHand ==
  ASSUME Typed, InHand, Spares, NEW t \in Tickets, NEW w, Continue(t, w),
         \A u \in Tickets \ {t}, a \in Files :
           <<u, a>> \in refs' \ cut' => <<u, a>> \in refs \ cut,
         \A a \in Files \ Pictures :
           <<t, a>> \in refs' \ cut' /\ row'[a].status = "orphaned" =>
             \/ w.at = "statuses" /\ a \in w.add \cup w.remove
             \/ w.at \in {"orphan", "live"} /\ a \in w.live
  PROVE  InHand'
<1>1. /\ writer'[t] = w
      /\ \A u \in Tickets \ {t} : writer'[u] = writer[u]
  BY DEF Continue, Typed, WriterOK
<1>2. SUFFICES ASSUME NEW u \in Tickets, NEW a \in Files \ Pictures,
                      <<u, a>> \in refs' \ cut', row'[a].status = "orphaned"
               PROVE  \/ writer'[u].at = "statuses" /\ a \in Touched(u)'
                      \/ writer'[u].at \in {"orphan", "live"} /\ a \in writer'[u].live
  BY DEF InHand
<1>3. CASE u = t
  BY <1>1, <1>2, <1>3 DEF Touched
<1>4. CASE u # t
  BY <1>1, <1>2, <1>4 DEF InHand, Spares, Referenced, Touched
<1>5. QED
  BY <1>3, <1>4

LEMMA RequestKeepsHand ==
  ASSUME Typed, InHand, NEW c \in Callers, Request(c)
  PROVE  InHand'
<1>1. call[c] \in Calls /\ CallShape(call[c])
  BY DEF Typed, CallOK
<1>2. writer' = writer /\ cut' = cut
  BY DEF Request, Commit, Delete, SetBanner, HeadObject, Reject, FindTwin, CommitRow,
         Claim, CheckSharers, DeleteObject, ReferToImage, ImageIsLive, OrphanOldImage,
         CallFails
<1>3. CASE Reject(c) \/ Claim(c)
  <2>1. call[c].on \in Files
    BY <1>1, <1>3 DEF Reject, Claim, CallShape, OnFile
  <2>2. refs' \subseteq refs
    BY <1>3, <2>1, DeleteKeeps DEF Reject, Claim, Typed
  <2>3. Spares
    BY <1>3, <2>1, DeleteKeeps DEF Reject, Claim, Typed, Spares
  <2>4. QED
    BY <1>2, <2>2, <2>3, OthersKeepHand
<1>4. CASE CommitRow(c)
  <2>1. call[c].on \in Files
    BY <1>1, <1>4 DEF CommitRow, CallShape, OnFile
  <2>2. Spares
    BY <1>4, <2>1 DEF CommitRow, Typed, RowOK, Spares
  <2>3. QED
    BY <1>2, <1>4, <2>2, OthersKeepHand DEF CommitRow
<1>5. CASE ImageIsLive(c) \/ OrphanOldImage(c)
  <2>1. Spares
    <3>1. RowOK /\ {"live", "orphaned"} \subseteq Statuses
      BY DEF Typed, Statuses
    <3>2. CASE row' = row
      BY <3>2 DEF Spares
    <3>3. CASE SetStatus({call[c].on}, "live")
      BY <3>1, <3>3, StatusKeeps DEF Spares
    <3>4. CASE ~Referenced(call[c].key) /\ SetStatus({call[c].key}, "orphaned")
      <4>1. \A a \in Files : row'[a].status =
              IF a \in {call[c].key} THEN "orphaned" ELSE row[a].status
        BY <3>1, <3>4, StatusKeeps
      <4>2. QED
        BY <3>4, <4>1 DEF Spares
    <3>5. QED
      BY <1>5, <3>2, <3>3, <3>4 DEF ImageIsLive, OrphanOldImage
  <2>2. QED
    BY <1>2, <1>5, <2>1, OthersKeepHand DEF ImageIsLive, OrphanOldImage
<1>6. CASE UNCHANGED <<row, refs>>
  BY <1>2, <1>6, OthersKeepHand DEF Spares
<1>7. QED
  BY <1>3, <1>4, <1>5, <1>6
  DEF Request, Commit, Delete, SetBanner, HeadObject, FindTwin, CheckSharers,
      DeleteObject, ReferToImage, CallFails

LEMMA HourlyKeepsHand ==
  ASSUME Typed, InHand, Hourly \/ LoopFails
  PROVE  InHand'
<1>1. \A p \in loop.todo : p.on \in Files
  BY DEF Typed, LoopOK, Todos
<1>2. writer' = writer /\ cut' = cut
  BY DEF Hourly, LoopFails, Hash, PlanDedupe, Repoint, PlanReap, Reap, EndReap,
         LoopChecksSharers, LoopDeletesObject
<1>3. CASE \E a \in Files : Hash(a)
  <2>1. Spares
    BY <1>3 DEF Hash, Typed, RowOK, Rows, Spares
  <2>2. QED
    BY <1>2, <1>3, <2>1, OthersKeepHand DEF Hash
<1>4. CASE \E p \in loop.todo : Repoint(p)
  <2>1. PICK p \in loop.todo : Repoint(p)
    BY <1>4
  <2>2. p.on \in Files /\ row[p.on] \in Rows
    BY <1>1, <2>1 DEF Typed, RowOK
  <2>3. row' = row \/ row' = [row EXCEPT ![p.on] = [row[p.on] EXCEPT !.key = p.to]]
    BY <2>1 DEF Repoint
  <2>4. \A a \in Files : row'[a].status = row[a].status
    BY <2>2, <2>3 DEF Typed, RowOK, Rows
  <2>5. Spares
    BY <2>4 DEF Spares
  <2>6. QED
    BY <1>2, <2>1, <2>5, OthersKeepHand DEF Repoint
<1>5. CASE \E p \in loop.todo : Reap(p)
  <2>1. PICK p \in loop.todo : Reap(p)
    BY <1>5
  <2>2. refs' \subseteq refs /\ Spares
    BY <1>1, <2>1, DeleteKeeps DEF Reap, Typed, Spares
  <2>3. QED
    BY <1>2, <2>2, OthersKeepHand
<1>6. CASE UNCHANGED <<row, refs>>
  BY <1>2, <1>6, OthersKeepHand DEF Spares
<1>7. QED
  BY <1>3, <1>4, <1>5, <1>6
  DEF Hourly, LoopFails, PlanDedupe, PlanReap, EndReap, LoopChecksSharers,
      LoopDeletesObject

LEMMA ProjectKeepsHand ==
  ASSUME Typed, InHand, RemoveProject \/ OrphanUnreferenced \/ OrphaningFails
  PROVE  InHand'
<1>1. Spares
  BY StatusKeeps
  DEF RemoveProject, OrphanUnreferenced, OrphaningFails, Typed, Statuses, Spares
<1>2. QED
  BY <1>1, OthersKeepHand DEF RemoveProject, OrphanUnreferenced, OrphaningFails

LEMMA UploadKeepsHand ==
  ASSUME Typed, InHand, NEW a \in Files,
         Prepare(a) \/ Ages(a) \/ \E bad \in BOOLEAN : PutObject(a, bad)
  PROVE  InHand'
<1>1. Spares
  <2>1. CASE Prepare(a)
    BY <2>1, StatusKeeps DEF Prepare, Typed, Statuses, Spares
  <2>2. CASE Ages(a)
    BY <2>2 DEF Ages, Typed, RowOK, Rows, Spares
  <2>3. CASE \E bad \in BOOLEAN : PutObject(a, bad)
    BY <2>3 DEF PutObject, Spares
  <2>4. QED
    BY <2>1, <2>2, <2>3
<1>2. QED
  BY <1>1, OthersKeepHand DEF Prepare, Ages, PutObject

LEMMA CrashKeepsHand ==
  ASSUME Typed, InHand, Crash
  PROVE  InHand'
<1>1. \A t \in Tickets, a \in Files \ Pictures :
        <<t, a>> \in refs \ cut /\ row[a].status = "orphaned" => <<t, a>> \in HalfDone(t)
  <2>1. \A t \in Tickets : WriterShape(writer[t])
    BY DEF Typed, WriterOK
  <2>2. QED
    BY <2>1 DEF InHand, HalfDone, Touched, WriterShape
<1>2. row' = row /\ refs' = refs /\ cut' = cut \cup UNION {HalfDone(t) : t \in Tickets}
  BY DEF Crash
<1>3. QED
  BY <1>1, <1>2 DEF InHand

LEMMA WriterKeepsHand ==
  ASSUME Typed, InHand, NEW t \in Tickets,
         \/ Reconcile(t) \/ ReconcileFails(t)
         \/ \E as \in SUBSET Files : WriteBody(t, as)
  PROVE  InHand'
<1>1. writer[t] \in Writers /\ WriterShape(writer[t])
  BY DEF Typed, WriterOK
<1>2. CASE PlanReferences(t) \/ \E as \in SUBSET Files : WriteBody(t, as)
  <2>1. /\ writer[t].at \in {"idle", "plan"} /\ row' = row /\ refs' = refs /\ cut' = cut
        /\ \E w : Continue(t, w)
    BY <1>2 DEF PlanReferences, WriteBody
  <2>2. \A a \in Files \ Pictures :
          <<t, a>> \in refs \ cut => row[a].status # "orphaned"
    BY <2>1 DEF InHand
  <2>3. QED
    BY <2>1, <2>2, OneKeepsHand DEF Spares
<1>3. CASE RemoveReferences(t)
  <2>1. /\ writer[t].at = "remove" /\ row' = row /\ refs' \subseteq refs /\ cut' = cut
        /\ \E w : Continue(t, w)
    BY <1>3 DEF RemoveReferences
  <2>2. \A a \in Files \ Pictures :
          <<t, a>> \in refs \ cut => row[a].status # "orphaned"
    BY <2>1 DEF InHand
  <2>3. QED
    BY <2>1, <2>2, OneKeepsHand DEF Spares
<1>4. CASE AddReferences(t)
  <2> DEFINE w == [writer[t] EXCEPT !.at = "statuses"]
  <2>1. /\ writer[t].at = "add" /\ row' = row /\ refs' = refs \cup ({t} \X writer[t].add)
        /\ cut' = cut \ ({t} \X Touched(t)) /\ Continue(t, w)
    BY <1>4 DEF AddReferences
  <2>2. w.at = "statuses" /\ w.add = writer[t].add /\ w.remove = writer[t].remove
    BY <1>1 DEF Writers
  <2>3. \A a \in Files \ Pictures :
          <<t, a>> \in refs \ cut => row[a].status # "orphaned"
    BY <2>1 DEF InHand
  <2> HIDE DEF w
  <2>4. \A a \in Files \ Pictures :
          <<t, a>> \in refs' \ cut' /\ row'[a].status = "orphaned" =>
            a \in w.add \cup w.remove
    BY <2>1, <2>2, <2>3 DEF Touched
  <2>5. \A u \in Tickets \ {t}, a \in Files :
          <<u, a>> \in refs' \ cut' => <<u, a>> \in refs \ cut
    BY <2>1
  <2>6. QED
    BY <2>1, <2>2, <2>4, <2>5, OneKeepsHand DEF Spares
<1>5. CASE PlanStatuses(t)
  <2> DEFINE mentioned == {a \in Files : \E u \in Tickets : <<u, a>> \in refs}
             live == {a \in Touched(t) \cap mentioned : row[a].status = "orphaned"}
             orphan == {a \in Touched(t) \ mentioned : row[a].status = "live"}
             at == IF orphan = {} THEN "live" ELSE "orphan"
             w == [writer[t] EXCEPT !.at = at, !.live = live, !.orphan = orphan]
  <2>1. /\ writer[t].at = "statuses" /\ row' = row /\ refs' = refs /\ cut' = cut
        /\ \/ live \cup orphan = {} /\ Continue(t, NoWriter)
           \/ Continue(t, w)
    BY <1>5 DEF PlanStatuses
  <2>2. \A a \in Files \ Pictures :
          <<t, a>> \in refs \ cut /\ row[a].status = "orphaned" => a \in live
    BY <2>1 DEF InHand
  <2>3. at \in {"live", "orphan"}
    OBVIOUS
  <2> HIDE DEF mentioned, live, orphan, at
  <2>4. w.at \in {"orphan", "live"} /\ w.live = live
    BY <1>1, <2>3 DEF Writers
  <2> HIDE DEF w
  <2>5. CASE live \cup orphan = {} /\ Continue(t, NoWriter)
    BY <2>1, <2>2, <2>5, OneKeepsHand DEF Spares
  <2>6. CASE Continue(t, w)
    BY <2>1, <2>2, <2>4, <2>6, OneKeepsHand DEF Spares
  <2>7. QED
    BY <2>1, <2>5, <2>6
<1>6. CASE OrphanTouched(t)
  <2> DEFINE w == [writer[t] EXCEPT !.at = "live"]
  <2>1. /\ writer[t].at = "orphan" /\ refs' = refs /\ cut' = cut
        /\ \/ writer[t].live = {} /\ Continue(t, NoWriter)
           \/ Continue(t, w)
    BY <1>6 DEF OrphanTouched
  <2>2. Spares
    BY <1>6, StatusKeeps DEF OrphanTouched, StillUnreferenced, Typed, Statuses, Spares
  <2>3. \A a \in Files \ Pictures :
          <<t, a>> \in refs \ cut /\ row'[a].status = "orphaned" => a \in writer[t].live
    BY <2>1, <2>2 DEF InHand, Spares, Referenced
  <2>4. w.at = "live" /\ w.live = writer[t].live
    BY <1>1 DEF Writers
  <2> HIDE DEF w
  <2>5. CASE writer[t].live = {} /\ Continue(t, NoWriter)
    BY <2>1, <2>2, <2>3, <2>5, OneKeepsHand
  <2>6. CASE Continue(t, w)
    BY <2>1, <2>2, <2>3, <2>4, <2>6, OneKeepsHand
  <2>7. QED
    BY <2>1, <2>5, <2>6
<1>7. CASE ReviveTouched(t)
  <2>1. /\ writer[t].at = "live" /\ refs' = refs /\ cut' = cut /\ Continue(t, NoWriter)
    BY <1>7 DEF ReviveTouched
  <2>2. \A a \in Files \ Pictures :
          /\ row'[a].status = "orphaned" => row[a].status = "orphaned"
          /\ a \in writer[t].live /\ Referenced(a) => row'[a].status # "orphaned"
    BY <1>7, StatusKeeps DEF ReviveTouched, Typed, Statuses
  <2>3. \A a \in Files \ Pictures :
          <<t, a>> \in refs \ cut => row'[a].status # "orphaned"
    BY <2>1, <2>2 DEF InHand, Referenced
  <2>4. Spares
    BY <2>2 DEF Spares
  <2>5. QED
    BY <2>1, <2>3, <2>4, OneKeepsHand
<1>8. CASE ReconcileFails(t)
  <2>1. /\ row' = row /\ refs' = refs /\ cut' = cut \cup HalfDone(t)
        /\ Continue(t, NoWriter)
    BY <1>8 DEF ReconcileFails
  <2>2. \A a \in Files \ Pictures :
          <<t, a>> \in refs \ cut /\ row[a].status = "orphaned" => <<t, a>> \in HalfDone(t)
    BY <1>1 DEF InHand, HalfDone, Touched, WriterShape
  <2>3. QED
    BY <2>1, <2>2, OneKeepsHand DEF Spares
<1>9. QED
  BY <1>2, <1>3, <1>4, <1>5, <1>6, <1>7, <1>8 DEF Reconcile

LEMMA NextKeepsHand ==
  ASSUME AttachmentsAssumption, Typed, InHand, [Next]_vars
  PROVE  InHand'
<1>1. CASE UNCHANGED vars
  BY <1>1 DEF vars, InHand, Touched
<1>2. CASE Next
  BY <1>2, UploadKeepsHand, RequestKeepsHand, ProjectKeepsHand, WriterKeepsHand,
     HourlyKeepsHand, CrashKeepsHand DEF Next
<1>3. QED
  BY <1>1, <1>2

-------------------------------------------------------------------------------
(* A committed attachment has its object *)

\* A request that commits an attachment, for the first time if none is repeated.
Committing(c) == call[c].at \in {"head", "reject", "twin", "hashed", "unhashed"}
Sharing(c) == call[c].at \in {"hashed", "unhashed"}
Fresh(a) == row[a].status \in {"none", "pending"}
Solo(a) == Fresh(a) \/ \E c \in Callers : Committing(c) /\ call[c].on = a
Repointing == loop.at \in {"repoint", "dedupe check", "dedupe drop"}
Dropping == loop.at \in {"dedupe drop", "reap drop"}

OnceEach ==
  /\ \A a \in Files : Fresh(a) => row[a].key = a
  /\ \A c \in Callers : Committing(c) =>
       /\ call[c].key = call[c].on
       /\ row[call[c].on].status \in {"pending", "gone"}
       /\ \A d \in Callers : Committing(d) /\ call[d].on = call[c].on => d = c

Alone ==
  \A a \in Files : Solo(a) =>
    /\ \A b \in Files : b # a => row[b].key # a
    /\ \A c \in Callers : Sharing(c) /\ call[c].to = a => call[c].on = a
    /\ Repointing => \A p \in loop.todo : p.to # a

RepointsOld == Repointing => \A p \in loop.todo : ~Fresh(p.on)

ImagesOld ==
  /\ banner # None => ~Fresh(banner)
  /\ \A c \in Callers :
       /\ call[c].at = "new banner" => ~Fresh(call[c].on)
       /\ call[c].at \in {"banner", "new banner", "old banner"} =>
            call[c].key = None \/ ~Fresh(call[c].key)

NoneLeft ==
  \A k \in Files : Deciding(k) =>
    \A a \in Files \ late : Committed(a) => row[a].key # k

ObjInv == OnceEach /\ Alone /\ RepointsOld /\ NoneLeft /\ CommittedHasObject

\* What most steps leave as it was.
RowsSteady ==
  \A a \in Files :
    /\ row'[a].key = row[a].key
    /\ Fresh(a)' => Fresh(a)
    /\ Committed(a)' => Committed(a)
    /\ row[a].status = "pending" => row'[a].status \in {"pending", "gone"}
    /\ row[a].status = "gone" => row'[a].status = "gone"
CommitsSteady ==
  \A c \in Callers : Committing(c)' =>
    Committing(c) /\ call'[c].on = call[c].on /\ call'[c].key = call[c].key
SharesSteady ==
  \A c \in Callers : Sharing(c)' =>
    Sharing(c) /\ call'[c].on = call[c].on /\ call'[c].to = call[c].to
DropsSteady ==
  /\ \A c \in Callers : call'[c].at = "drop" =>
       call[c].at = "drop" /\ call'[c].key = call[c].key
  /\ Dropping' => Dropping /\ loop'.key = loop.key
NoneFresher == \A a \in Files : Fresh(a)' => Fresh(a)
RepointsSteady ==
  Repointing' => loop'.todo = {} \/ (Repointing /\ loop'.todo \subseteq loop.todo)

LEMMA OnceEachSteady ==
  ASSUME Typed, OnceEach, RowsSteady, CommitsSteady
  PROVE  OnceEach'
<1>1. \A c \in Callers : Committing(c) => call[c].on \in Files
  BY DEF Typed, CallOK, CallShape, OnFile, Committing
<1>2. QED
  BY <1>1 DEF OnceEach, RowsSteady, CommitsSteady, Fresh

LEMMA AloneSteady ==
  ASSUME Alone, RowsSteady, CommitsSteady, SharesSteady, RepointsSteady
  PROVE  Alone'
<1>1. \A a \in Files : Solo(a)' => Solo(a)
  BY DEF Solo, RowsSteady, CommitsSteady
<1>2. QED
  BY <1>1 DEF Alone, RowsSteady, SharesSteady, RepointsSteady

LEMMA RepointsOldSteady ==
  ASSUME Typed, RepointsOld, RowsSteady, RepointsSteady
  PROVE  RepointsOld'
<1>1. \A p \in loop.todo : p.on \in Files
  BY DEF Typed, LoopOK, Todos
<1>2. QED
  BY <1>1 DEF RepointsOld, RowsSteady, RepointsSteady

LEMMA NoneLeftSteady ==
  ASSUME NoneLeft, RowsSteady, DropsSteady, late' = late
  PROVE  NoneLeft'
<1>1. \A k \in Files : Deciding(k)' => Deciding(k)
  BY DEF Deciding, DropsSteady, Dropping
<1>2. QED
  BY <1>1 DEF NoneLeft, RowsSteady

LEMMA HasObjectSteady ==
  ASSUME CommittedHasObject, RowsSteady, late' = late, object \subseteq object'
  PROVE  CommittedHasObject'
BY DEF CommittedHasObject, RowsSteady

LEMMA AllSteady ==
  ASSUME Typed, ObjInv, RowsSteady, CommitsSteady, SharesSteady, DropsSteady,
         RepointsSteady, late' = late, object \subseteq object'
  PROVE  NoneFresher /\ ObjInv'
<1>1. NoneFresher
  BY DEF RowsSteady, NoneFresher
<1>2. ObjInv'
  BY OnceEachSteady, AloneSteady, RepointsOldSteady, NoneLeftSteady, HasObjectSteady
  DEF ObjInv
<1>3. QED
  BY <1>1, <1>2

LEMMA SameRowSteady ==
  ASSUME row' = row
  PROVE  RowsSteady
BY DEF RowsSteady, Fresh, Committed

LEMMA SameCallSteady ==
  ASSUME call' = call, loop' = loop
  PROVE  CommitsSteady /\ SharesSteady /\ DropsSteady /\ RepointsSteady
BY DEF CommitsSteady, SharesSteady, DropsSteady, RepointsSteady, Committing, Sharing,
       Dropping, Repointing

LEMMA StatusSteady ==
  ASSUME RowOK, NEW as, NEW s \in {"live", "orphaned"}, SetStatus(as, s),
         \A a \in as \cap Files : Committed(a)
  PROVE  RowsSteady
<1>1. s \in Statuses
  BY DEF Statuses
<1>2. \A a \in Files :
        /\ row'[a].key = row[a].key
        /\ row'[a].status = IF a \in as THEN s ELSE row[a].status
  BY <1>1, StatusKeeps
<1>3. QED
  BY <1>2 DEF RowsSteady, Fresh, Committed

LEMMA DeleteSteady ==
  ASSUME RowOK, NEW a \in Files, DeleteRow(a)
  PROVE  RowsSteady
BY DeleteKeeps DEF RowsSteady, Fresh, Committed

\* A step that moves one request to where nothing is committed, shared or dropped.
LEMMA MoveSteady ==
  ASSUME Typed, NEW c \in Callers, NEW r, call' = [call EXCEPT ![c] = r], loop' = loop,
         r.at \notin {"head", "reject", "twin", "hashed", "unhashed", "drop"}
  PROVE  CommitsSteady /\ SharesSteady /\ DropsSteady /\ RepointsSteady
<1>1. call'[c] = r /\ \A d \in Callers \ {c} : call'[d] = call[d]
  BY DEF Typed, CallOK
<1>2. QED
  BY <1>1 DEF CommitsSteady, SharesSteady, DropsSteady, RepointsSteady, Committing,
              Sharing, Dropping, Repointing

LEMMA GotoSteady ==
  ASSUME Typed, NEW c \in Callers, NEW at, Goto(c, at), loop' = loop,
         at \notin {"head", "reject", "twin", "hashed", "unhashed", "drop"}
  PROVE  CommitsSteady /\ SharesSteady /\ DropsSteady /\ RepointsSteady
<1> DEFINE r == [call[c] EXCEPT !.at = at]
<1>1. call' = [call EXCEPT ![c] = r] /\ r.at = at
  BY DEF Goto, Typed, CallOK, Calls
<1> HIDE DEF r
<1>2. QED
  BY <1>1, MoveSteady

LEMMA ReturnSteady ==
  ASSUME Typed, NEW c \in Callers, Return(c), loop' = loop
  PROVE  CommitsSteady /\ SharesSteady /\ DropsSteady /\ RepointsSteady
<1>1. call' = [call EXCEPT ![c] = NoCall] /\ NoCall.at = "idle"
  BY DEF Return, NoCall
<1>2. QED
  BY <1>1, MoveSteady

\* The requests whose steps only delete and change statuses.
LEMMA PlainRequests ==
  ASSUME AttachmentsAssumption, Typed, ImagesOld, ObjInv, NEW c \in Callers,
         \/ \E a \in Files : Delete(c, a) \/ SetBanner(c, a)
         \/ SetBanner(c, None) \/ Reject(c) \/ Claim(c) \/ ReferToImage(c)
         \/ ImageIsLive(c) \/ OrphanOldImage(c) \/ CallFails(c)
  PROVE  NoneFresher /\ ObjInv'
<1>1. call[c] \in Calls /\ CallShape(call[c])
  BY DEF Typed, CallOK
<1>2. loop' = loop /\ late' = late /\ object' = object
  BY DEF Delete, SetBanner, Reject, Claim, ReferToImage, ImageIsLive, OrphanOldImage,
         CallFails
<1>3. CommitsSteady /\ SharesSteady /\ DropsSteady /\ RepointsSteady
  <2>1. CASE \/ \E a \in Files : Delete(c, a) \/ SetBanner(c, a)
             \/ SetBanner(c, None)
    <3>1. PICK at \in {"claim", "banner"} : \E on, key :
            call' = [call EXCEPT ![c] = [at |-> at, on |-> on, key |-> key, to |-> None]]
      BY <2>1 DEF Delete, SetBanner
    <3>2. QED
      BY <1>2, <3>1, MoveSteady
  <2>2. CASE Reject(c) \/ Claim(c) \/ ReferToImage(c) \/ ImageIsLive(c)
             \/ OrphanOldImage(c) \/ CallFails(c)
    <3>1. Return(c) \/ \E at \in {"check", "old banner", "new banner"} : Goto(c, at)
      BY <2>2 DEF Reject, Claim, ReferToImage, ImageIsLive, OrphanOldImage, CallFails
    <3>2. QED
      BY <1>2, <3>1, GotoSteady, ReturnSteady
  <2>3. QED
    BY <2>1, <2>2
<1>4. RowsSteady
  <2>1. CASE row' = row
    BY <2>1, SameRowSteady
  <2>2. CASE Reject(c) \/ Claim(c)
    <3>1. call[c].on \in Files
      BY <1>1, <2>2 DEF Reject, Claim, CallShape, OnFile
    <3>2. row' = row \/ DeleteRow(call[c].on)
      BY <2>2 DEF Reject, Claim
    <3>3. QED
      BY <2>1, <3>1, <3>2, DeleteSteady DEF Typed
  <2>3. CASE ImageIsLive(c)
    <3>1. row' = row \/ (Stored(call[c].on) /\ SetStatus({call[c].on}, "live"))
      BY <2>3 DEF ImageIsLive
    <3>2. Stored(call[c].on) => Committed(call[c].on)
      BY <2>3 DEF ImageIsLive, ImagesOld, Stored, Committed, Fresh
    <3>3. QED
      BY <2>1, <3>1, <3>2, StatusSteady DEF Typed
  <2>4. CASE OrphanOldImage(c)
    <3>1. row' = row \/ (/\ Stored(call[c].key) /\ call[c].key # None
                        /\ SetStatus({call[c].key}, "orphaned"))
      BY <2>4 DEF OrphanOldImage
    <3>2. Stored(call[c].key) /\ call[c].key # None => Committed(call[c].key)
      BY <2>4 DEF OrphanOldImage, ImagesOld, Stored, Committed, Fresh
    <3>3. QED
      BY <2>1, <3>1, <3>2, StatusSteady DEF Typed
  <2>5. QED
    BY <2>1, <2>2, <2>3, <2>4 DEF Delete, SetBanner, ReferToImage, CallFails
<1>5. QED
  BY <1>2, <1>3, <1>4, AllSteady

\* Nothing that was committed is prepared or aged into another state.
LEMMA PlainUploads ==
  ASSUME Typed, ObjInv, NEW a \in Files,
         Prepare(a) \/ Ages(a) \/ Hash(a) \/ \E bad \in BOOLEAN : PutObject(a, bad)
  PROVE  NoneFresher /\ ObjInv'
<1>1. call' = call /\ loop' = loop /\ late' = late /\ object \subseteq object'
  BY DEF Prepare, Ages, Hash, PutObject
<1>2. RowsSteady
  <2>1. CASE Prepare(a)
    <3>1. "pending" \in Statuses
      BY DEF Statuses
    <3>2. row[a].status = "none" /\ SetStatus({a}, "pending")
      BY <2>1 DEF Prepare
    <3>3. \A b \in Files : /\ row'[b].key = row[b].key
                           /\ row'[b].status = IF b \in {a} THEN "pending"
                                                ELSE row[b].status
      BY <3>1, <3>2, StatusKeeps DEF Typed
    <3>4. QED
      BY <3>2, <3>3 DEF RowsSteady, Fresh, Committed
  <2>2. CASE Ages(a) \/ Hash(a)
    <3>1. PICK r : /\ r \in {[row[a] EXCEPT !.due = TRUE], [row[a] EXCEPT !.hashed = TRUE]}
                   /\ row' = [row EXCEPT ![a] = r]
      BY <2>2 DEF Ages, Hash
    <3>2. r.key = row[a].key /\ r.status = row[a].status
      BY <3>1 DEF Typed, RowOK, Rows
    <3>3. \A b \in Files : row'[b].key = row[b].key /\ row'[b].status = row[b].status
      BY <3>1, <3>2 DEF Typed, RowOK
    <3>4. QED
      BY <3>3 DEF RowsSteady, Fresh, Committed
  <2>3. CASE \E bad \in BOOLEAN : PutObject(a, bad)
    BY <2>3, SameRowSteady DEF PutObject
  <2>4. QED
    BY <2>1, <2>2, <2>3
<1>3. QED
  BY <1>1, <1>2, SameCallSteady, AllSteady

LEMMA PlainWriters ==
  ASSUME Typed, ObjInv,
         \/ RemoveProject \/ OrphanUnreferenced \/ OrphaningFails
         \/ \E t \in Tickets : \/ Reconcile(t) \/ ReconcileFails(t)
                              \/ \E as \in SUBSET Files : WriteBody(t, as)
  PROVE  NoneFresher /\ ObjInv'
<1>1. call' = call /\ loop' = loop /\ late' = late /\ object' = object
  BY DEF RemoveProject, OrphanUnreferenced, OrphaningFails, Reconcile, PlanReferences,
         RemoveReferences, AddReferences, PlanStatuses, OrphanTouched, ReviveTouched,
         ReconcileFails, WriteBody
<1>2. RowsSteady
  <2>1. CASE OrphanUnreferenced
    <3> DEFINE as == {a \in project.orphaning : row[a].status = "live" /\ ~Referenced(a)}
    <3>1. SetStatus(as, "orphaned") /\ \A a \in as : Committed(a)
      BY <2>1 DEF OrphanUnreferenced, Committed
    <3> HIDE DEF as
    <3>2. QED
      BY <3>1, StatusSteady DEF Typed
  <2>2. CASE \E t \in Tickets : OrphanTouched(t)
    <3>1. PICK t \in Tickets : OrphanTouched(t)
      BY <2>2
    <3> DEFINE as == {a \in writer[t].orphan :
                        row[a].status = "live" /\ StillUnreferenced(a)}
    <3>2. SetStatus(as, "orphaned") /\ \A a \in as : Committed(a)
      BY <3>1 DEF OrphanTouched, Committed
    <3> HIDE DEF as
    <3>3. QED
      BY <3>2, StatusSteady DEF Typed
  <2>3. CASE \E t \in Tickets : ReviveTouched(t)
    <3>1. PICK t \in Tickets : ReviveTouched(t)
      BY <2>3
    <3> DEFINE as == {a \in writer[t].live : row[a].status = "orphaned" /\ Referenced(a)}
    <3>2. SetStatus(as, "live") /\ \A a \in as : Committed(a)
      BY <3>1 DEF ReviveTouched, Committed
    <3> HIDE DEF as
    <3>3. QED
      BY <3>2, StatusSteady DEF Typed
  <2>4. CASE row' = row
    BY <2>4, SameRowSteady
  <2>5. QED
    BY <2>1, <2>2, <2>3, <2>4
    DEF RemoveProject, OrphaningFails, Reconcile, PlanReferences, RemoveReferences,
        AddReferences, PlanStatuses, ReconcileFails, WriteBody
<1>3. QED
  BY <1>1, <1>2, SameCallSteady, AllSteady

\* The loop ends, or goes on to a place where it deletes and repoints nothing.
LEMMA LoopSteady ==
  ASSUME call' = call \/ call' = [c \in Callers |-> NoCall],
         loop'.at \notin {"dedupe check", "dedupe drop", "reap drop"},
         loop'.at = "repoint" => loop'.todo = {}
  PROVE  CommitsSteady /\ SharesSteady /\ DropsSteady /\ RepointsSteady
<1>1. RepointsSteady /\ ~Dropping'
  BY DEF RepointsSteady, Dropping, Repointing
<1>2. CASE call' = call
  BY <1>1, <1>2 DEF CommitsSteady, SharesSteady, DropsSteady, Committing, Sharing
<1>3. CASE call' = [c \in Callers |-> NoCall]
  BY <1>1, <1>3 DEF NoCall, CommitsSteady, SharesSteady, DropsSteady, Committing, Sharing
<1>4. QED
  BY <1>2, <1>3

LEMMA PlainLoop ==
  ASSUME Typed, ObjInv,
         \/ PlanReap \/ EndReap \/ LoopFails \/ Crash
         \/ \E p \in loop.todo : Reap(p)
  PROVE  NoneFresher /\ ObjInv'
<1>1. late' = late /\ object' = object
  BY DEF PlanReap, EndReap, LoopFails, Crash, Reap
<1>2. call' = call \/ call' = [c \in Callers |-> NoCall]
  BY DEF PlanReap, EndReap, LoopFails, Crash, Reap
<1>3. \/ loop' = NoLoop \/ Loop("repoint", {}, None)
      \/ \E at \in {"reap", "reap check"} : \E todo, key : Loop(at, todo, key)
  <2>1. CASE PlanReap \/ EndReap \/ LoopFails \/ Crash
    BY <2>1 DEF PlanReap, EndReap, LoopFails, Crash
  <2>2. CASE \E p \in loop.todo : Reap(p)
    BY <2>2 DEF Reap
  <2>3. QED
    BY <2>1, <2>2
<1>4. /\ loop'.at \notin {"dedupe check", "dedupe drop", "reap drop"}
      /\ loop'.at = "repoint" => loop'.todo = {}
  <2>1. CASE loop' = NoLoop \/ Loop("repoint", {}, None)
    <3>1. CASE loop' = NoLoop
      BY <3>1 DEF NoLoop
    <3>2. CASE Loop("repoint", {}, None)
      BY <3>2 DEF Loop
    <3>3. QED
      BY <2>1, <3>1, <3>2
  <2>2. CASE \E at \in {"reap", "reap check"} : \E todo, key : Loop(at, todo, key)
    <3>1. PICK at \in {"reap", "reap check"} : \E todo, key : Loop(at, todo, key)
      BY <2>2
    <3>2. PICK todo, key : Loop(at, todo, key)
      BY <3>1
    <3>3. loop'.at = at
      BY <3>2 DEF Loop
    <3>4. QED
      BY <3>3
  <2>3. QED
    BY <1>3, <2>1, <2>2
<1>5. CommitsSteady /\ SharesSteady /\ DropsSteady /\ RepointsSteady
  BY <1>2, <1>4, LoopSteady
<1>6. RowsSteady
  <2>1. CASE row' = row
    BY <2>1, SameRowSteady
  <2>2. CASE \E p \in loop.todo : Reap(p)
    <3>1. PICK p \in loop.todo : Reap(p)
      BY <2>2
    <3>2. p.on \in Files
      BY <3>1 DEF Typed, LoopOK, Todos
    <3>3. QED
      BY <2>1, <3>1, <3>2, DeleteSteady DEF Reap, Typed
  <2>3. QED
    BY <2>1, <2>2 DEF PlanReap, EndReap, LoopFails, Crash
<1>7. QED
  BY <1>1, <1>5, <1>6, AllSteady

\* An attachment that is committed is not one whose object may still be its own.
LEMMA CommittedIsNotSolo ==
  ASSUME OnceEach, NEW a \in Files, Committed(a)
  PROVE  ~Solo(a)
BY DEF OnceEach, Solo, Committed, Fresh

\* What a request knows of the attachment it commits.
LEMMA CommitterKnows ==
  ASSUME Typed, OnceEach, NEW c \in Callers, Committing(c)
  PROVE  /\ call[c].on \in Files /\ call[c].key = call[c].on /\ Solo(call[c].on)
         /\ row[call[c].on].status \in {"pending", "gone"}
         /\ \A d \in Callers \ {c} : Committing(d) => call[d].on # call[c].on
<1>1. call[c].on \in Files
  BY DEF Typed, CallOK, CallShape, OnFile, Committing
<1>2. QED
  BY <1>1 DEF OnceEach, Solo

LEMMA CommitKeepsObjects ==
  ASSUME Typed, ObjInv, Repeats = FALSE, NEW c \in Callers, NEW a \in Files, Commit(c, a)
  PROVE  NoneFresher /\ ObjInv'
<1>1. /\ row' = row /\ loop' = loop /\ late' = late /\ object' = object
      /\ call[c].at = "idle" /\ row[a].status = "pending"
      /\ \A d \in Callers : call[d].on # a
  BY DEF Commit
<1>2. /\ call'[c] = [at |-> "head", on |-> a, key |-> row[a].key, to |-> None]
      /\ \A d \in Callers \ {c} : call'[d] = call[d]
  BY DEF Commit, Typed, CallOK
<1>3. row[a].key = a
  BY <1>1 DEF ObjInv, OnceEach, Fresh
<1>4. RowsSteady /\ SharesSteady /\ DropsSteady /\ RepointsSteady
  <2>1. SharesSteady
    BY <1>2 DEF SharesSteady, Sharing
  <2>2. DropsSteady
    <3>1. call'[c].at # "drop"
      BY <1>2
    <3>2. \A d \in Callers : call'[d].at = "drop" => call'[d] = call[d]
      BY <1>2, <3>1
    <3>3. QED
      BY <1>1, <3>2 DEF DropsSteady, Dropping
  <2>3. QED
    BY <1>1, <2>1, <2>2, SameRowSteady DEF RepointsSteady, Repointing
<1>5. OnceEach'
  <2>1. \A d \in Callers : Committing(d)' =>
          (d = c \/ (d # c /\ Committing(d) /\ call'[d] = call[d]))
    BY <1>2 DEF Committing
  <2>2. QED
    BY <1>1, <1>2, <1>3, <2>1 DEF ObjInv, OnceEach, Fresh
<1>6. Alone'
  <2>1. \A b \in Files : Solo(b)' => Solo(b)
    <3>1. SUFFICES ASSUME NEW b \in Files, NEW d \in Callers, Committing(d)',
                          call'[d].on = b
                   PROVE  Solo(b)
      BY <1>1 DEF Solo, Fresh
    <3>2. CASE d = c
      BY <1>1, <1>2, <3>1, <3>2 DEF Solo, Fresh
    <3>3. CASE d # c
      BY <1>2, <3>1, <3>3 DEF Solo, Committing
    <3>4. QED
      BY <3>2, <3>3
  <2>2. QED
    BY <1>4, <2>1 DEF ObjInv, Alone, RowsSteady, SharesSteady, RepointsSteady
<1>7. RepointsOld' /\ NoneLeft' /\ CommittedHasObject' /\ NoneFresher
  BY <1>1, <1>4, RepointsOldSteady, NoneLeftSteady, HasObjectSteady
  DEF ObjInv, NoneFresher, RowsSteady
<1>8. QED
  BY <1>5, <1>6, <1>7 DEF ObjInv

\* A request that commits goes from one place to another.
LEMMA CommitterMoves ==
  ASSUME Typed, NEW c \in Callers, Committing(c), NEW at \in {"reject", "twin"},
         Goto(c, at), loop' = loop
  PROVE  CommitsSteady /\ SharesSteady /\ DropsSteady /\ RepointsSteady
<1>1. /\ call'[c].at = at /\ call'[c].on = call[c].on /\ call'[c].key = call[c].key
      /\ \A d \in Callers \ {c} : call'[d] = call[d]
  BY DEF Goto, Typed, CallOK, Calls
<1>2. CommitsSteady
  BY <1>1 DEF CommitsSteady, Committing
<1>3. SharesSteady
  BY <1>1 DEF SharesSteady, Sharing
<1>4. DropsSteady /\ RepointsSteady
  BY <1>1 DEF DropsSteady, RepointsSteady, Dropping, Repointing
<1>5. QED
  BY <1>2, <1>3, <1>4

LEMMA HeadKeepsObjects ==
  ASSUME Typed, ObjInv, NEW c \in Callers, HeadObject(c)
  PROVE  NoneFresher /\ ObjInv'
<1>1. /\ Committing(c) /\ row' = row /\ loop' = loop /\ late' = late
      /\ RowsSteady
  BY SameRowSteady DEF HeadObject, Committing
<1>2. CASE Return(c) /\ object' = object
  BY <1>1, <1>2, ReturnSteady, AllSteady
<1>3. CASE Goto(c, "twin") /\ object' = object
  BY <1>1, <1>3, CommitterMoves, AllSteady
<1>4. CASE Goto(c, "reject") /\ object' = object \ {call[c].key}
  <2>1. CommitsSteady /\ SharesSteady /\ DropsSteady /\ RepointsSteady
    BY <1>1, <1>4, CommitterMoves
  <2>2. \A a \in Files : Committed(a) => row[a].key # call[c].key
    BY <1>1, CommitterKnows, CommittedIsNotSolo DEF ObjInv, Alone
  <2>3. CommittedHasObject'
    BY <1>1, <1>4, <2>2 DEF ObjInv, CommittedHasObject, Committed
  <2>4. QED
    BY <1>1, <2>1, <2>3, OnceEachSteady, AloneSteady, RepointsOldSteady, NoneLeftSteady
    DEF ObjInv, NoneFresher, RowsSteady
<1>5. QED
  BY <1>2, <1>3, <1>4 DEF HeadObject

LEMMA TwinKeepsObjects ==
  ASSUME Typed, ObjInv, NEW c \in Callers, NEW told \in BOOLEAN, FindTwin(c, told)
  PROVE  NoneFresher /\ ObjInv'
<1>1. /\ Committing(c) /\ row' = row /\ loop' = loop /\ late' = late /\ object' = object
      /\ RowsSteady
  BY SameRowSteady DEF FindTwin, Committing
<1>2. PICK k \in {call[c].key} \cup {row[b].key : b \in {b \in Twins(call[c].on) : told}} :
        call' = [call EXCEPT ![c].at = IF told THEN "hashed" ELSE "unhashed", ![c].to = k]
  BY DEF FindTwin
<1> DEFINE at == IF told THEN "hashed" ELSE "unhashed"
           r == [[call[c] EXCEPT !.at = at] EXCEPT !.to = k]
<1>3. call' = [call EXCEPT ![c] = r]
  BY <1>2 DEF Typed, CallOK
<1>4. at \in {"hashed", "unhashed"}
  OBVIOUS
<1> HIDE DEF at
<1>5. r.at = at /\ r.to = k /\ r.on = call[c].on /\ r.key = call[c].key
  BY DEF Typed, CallOK, Calls
<1> HIDE DEF r
<1>6. call'[c] = r /\ \A d \in Callers \ {c} : call'[d] = call[d]
  BY <1>3 DEF Typed, CallOK
<1>7. CommitsSteady /\ DropsSteady /\ RepointsSteady
  BY <1>1, <1>4, <1>5, <1>6
  DEF CommitsSteady, DropsSteady, RepointsSteady, Committing, Dropping, Repointing
<1>8. \A a \in Files : Solo(a) /\ k = a => call[c].on = a
  <2>1. CASE k = call[c].key
    BY <1>1, <2>1, CommitterKnows DEF ObjInv
  <2>2. CASE \E b \in Twins(call[c].on) : k = row[b].key
    BY <2>2, CommittedIsNotSolo DEF ObjInv, Alone, Twins
  <2>3. QED
    BY <1>2, <2>1, <2>2
<1>9. Alone'
  <2>1. \A a \in Files : Solo(a)' => Solo(a)
    BY <1>1, <1>7 DEF Solo, RowsSteady, CommitsSteady
  <2>2. \A a \in Files, d \in Callers :
          Solo(a) /\ Sharing(d)' /\ call'[d].to = a => call'[d].on = a
    BY <1>5, <1>6, <1>8 DEF ObjInv, Alone, Sharing
  <2>3. QED
    BY <1>1, <2>1, <2>2 DEF ObjInv, Alone, Repointing
<1>10. QED
  BY <1>1, <1>7, <1>9, OnceEachSteady, RepointsOldSteady, NoneLeftSteady, HasObjectSteady
  DEF ObjInv, NoneFresher, RowsSteady

\* The attachment takes the object; what it takes too late is said so.
LEMMA CommitRowKeepsObjects ==
  ASSUME Typed, ObjInv, NEW c \in Callers, CommitRow(c)
  PROVE  NoneFresher /\ ObjInv'
<1> DEFINE a == call[c].on
           to == call[c].to
<1>1. /\ Committing(c) /\ Sharing(c) /\ call[c].at # "drop"
      /\ loop' = loop /\ object' = object
  BY DEF CommitRow, Committing, Sharing
<1>2. /\ a \in Files /\ call[c].key = a /\ Solo(a) /\ row[a].status \in {"pending", "gone"}
      /\ \A d \in Callers \ {c} : Committing(d) => call[d].on # a
  BY <1>1, CommitterKnows DEF ObjInv
<1>3. CASE ~Stored(a)
  <2>1. /\ row' = row /\ late' = late /\ (Return(c) \/ Goto(c, "drop"))
    BY <1>3 DEF CommitRow
  <2>2. CASE Return(c)
    BY <1>1, <2>1, <2>2, SameRowSteady, ReturnSteady, AllSteady
  <2>3. CASE Goto(c, "drop")
    <3>1. /\ call'[c].at = "drop" /\ call'[c].key = a
          /\ \A d \in Callers \ {c} : call'[d] = call[d]
      BY <1>2, <2>3 DEF Goto, Typed, CallOK, Calls
    <3>2. RowsSteady /\ CommitsSteady /\ SharesSteady /\ RepointsSteady
      BY <1>1, <2>1, <3>1, SameRowSteady
      DEF CommitsSteady, SharesSteady, RepointsSteady, Committing, Sharing, Repointing
    <3>3. NoneLeft'
      <4>1. \A k \in Files : Deciding(k)' => Deciding(k) \/ k = a
        BY <1>1, <3>1 DEF Deciding
      <4>2. \A b \in Files : Committed(b) => row[b].key # a
        BY <1>2, <1>3 DEF ObjInv, Alone, Committed, Stored
      <4>3. QED
        BY <2>1, <4>1, <4>2 DEF ObjInv, NoneLeft, Committed
    <3>4. QED
      BY <1>1, <2>1, <3>2, <3>3, OnceEachSteady, AloneSteady, RepointsOldSteady,
         HasObjectSteady
      DEF ObjInv, NoneFresher, RowsSteady
  <2>4. QED
    BY <2>1, <2>2, <2>3
<1>4. CASE Stored(a)
  <2> DEFINE r == [status |-> IF a \in Pictures THEN "orphaned" ELSE "live",
                   key |-> to, hashed |-> call[c].at = "hashed", due |-> FALSE]
  <2>1. /\ row' = [row EXCEPT ![a] = r] /\ Takes(a, to)
        /\ Return(c) \/ (to # a /\ Goto(c, "drop"))
    BY <1>2, <1>4 DEF CommitRow
  <2>2. r.status \in {"live", "orphaned"} /\ r.key = to
    OBVIOUS
  <2> HIDE DEF r
  <2>3. /\ row'[a].status \in {"live", "orphaned"} /\ row'[a].key = to
        /\ \A b \in Files \ {a} : row'[b] = row[b]
    BY <1>2, <2>1, <2>2 DEF Typed, RowOK
  <2>4. /\ call'[c].at \in {"idle", "drop"}
        /\ call'[c].at = "drop" => to # a /\ call'[c].key = a
        /\ \A d \in Callers \ {c} : call'[d] = call[d]
    BY <1>2, <2>1 DEF Return, Goto, NoCall, Typed, CallOK, Calls
  <2>5. late \subseteq late' /\ (a \notin late' => to \in object /\ ~Deciding(to))
    BY <2>1 DEF Takes
  <2> HIDE DEF a, to
  <2>6. \A b \in Files : (b # a /\ Committed(b)' <=> b # a /\ Committed(b))
                         /\ (Fresh(b)' <=> b # a /\ Fresh(b))
    BY <2>3 DEF Committed, Fresh
  <2>7. \A d \in Callers : Committing(d)' =>
          d # c /\ Committing(d) /\ call'[d] = call[d] /\ call[d].on # a
    BY <1>2, <2>4 DEF Committing
  <2>8. OnceEach'
    <3>1. \A d \in Callers : Committing(d) => call[d].on \in Files
      BY DEF Typed, CallOK, CallShape, OnFile, Committing
    <3>2. QED
      BY <2>3, <2>6, <2>7, <3>1 DEF ObjInv, OnceEach
  <2>9. \A b \in Files : Solo(b)' => Solo(b) /\ b # a
    BY <2>6, <2>7 DEF Solo
  <2>10. Alone'
    <3>1. \A b \in Files, d \in Callers :
            Solo(b) /\ Sharing(d)' /\ call'[d].to = b => call'[d].on = b
      BY <2>4 DEF ObjInv, Alone, Sharing
    <3>2. \A b \in Files : Solo(b) /\ b # a => to # b
      BY <1>1 DEF ObjInv, Alone, a, to
    <3>3. QED
      BY <1>1, <2>3, <2>9, <3>1, <3>2 DEF ObjInv, Alone, Repointing
  <2>11. RepointsOld' /\ NoneFresher
    <3>1. \A p \in loop.todo : p.on \in Files
      BY DEF Typed, LoopOK, Todos
    <3>2. QED
      BY <1>1, <2>6, <3>1 DEF ObjInv, RepointsOld, Repointing, NoneFresher
  <2>12. NoneLeft'
    <3>1. SUFFICES ASSUME NEW k \in Files, Deciding(k)', NEW b \in Files \ late',
                          Committed(b)'
                   PROVE  row'[b].key # k
      BY DEF NoneLeft
    <3>2. Deciding(k) \/ (k = a /\ to # a)
      BY <1>1, <2>4, <3>1 DEF Deciding
    <3>3. CASE b = a
      BY <2>3, <2>5, <3>1, <3>2, <3>3
    <3>4. CASE b # a
      BY <1>2, <2>3, <2>5, <2>6, <3>1, <3>2, <3>4 DEF ObjInv, NoneLeft, Alone
    <3>5. QED
      BY <3>3, <3>4
  <2>13. CommittedHasObject'
    BY <1>1, <2>3, <2>5, <2>6 DEF ObjInv, CommittedHasObject
  <2>14. QED
    BY <2>8, <2>10, <2>11, <2>12, <2>13 DEF ObjInv
<1>5. QED
  BY <1>3, <1>4

\* The request or the loop that looked for a row that points at the object saw none.
LEMMA CheckKeepsObjects ==
  ASSUME Typed, ObjInv, NEW c \in Callers, CheckSharers(c)
  PROVE  NoneFresher /\ ObjInv'
<1>1. /\ row' = row /\ loop' = loop /\ late' = late /\ object' = object /\ RowsSteady
      /\ call[c].at = "check"
  BY SameRowSteady DEF CheckSharers
<1>2. CASE Return(c)
  BY <1>1, <1>2, ReturnSteady, AllSteady
<1>3. CASE ~Shared(call[c].key) /\ Goto(c, "drop")
  <2>1. /\ call'[c].at = "drop" /\ call'[c].key = call[c].key
        /\ \A d \in Callers \ {c} : call'[d] = call[d]
    BY <1>3 DEF Goto, Typed, CallOK, Calls
  <2>2. CommitsSteady
    BY <2>1 DEF CommitsSteady, Committing
  <2>3. SharesSteady
    BY <2>1 DEF SharesSteady, Sharing
  <2>4. RepointsSteady
    BY <1>1 DEF RepointsSteady, Repointing
  <2>5. NoneLeft'
    <3>1. \A k \in Files : Deciding(k)' => Deciding(k) \/ ~Shared(k)
      BY <1>1, <1>3, <2>1 DEF Deciding
    <3>2. QED
      BY <1>1, <3>1 DEF ObjInv, NoneLeft, Shared, Committed, Stored
  <2>6. QED
    BY <1>1, <2>2, <2>3, <2>4, <2>5, OnceEachSteady, AloneSteady, RepointsOldSteady,
       HasObjectSteady
    DEF ObjInv, NoneFresher, RowsSteady
<1>4. QED
  BY <1>2, <1>3 DEF CheckSharers

LEMMA LoopCheckKeepsObjects ==
  ASSUME Typed, ObjInv, LoopChecksSharers
  PROVE  NoneFresher /\ ObjInv'
<1>1. /\ row' = row /\ call' = call /\ late' = late /\ object' = object /\ RowsSteady
      /\ ~Dropping
  BY SameRowSteady DEF LoopChecksSharers, Dropping
<1>2. /\ loop'.todo = loop.todo /\ loop'.key = loop.key
      /\ Repointing' <=> Repointing
      /\ Dropping' => ~Shared(loop.key)
  <2>1. PICK at \in Hours :
          /\ Loop(at, loop.todo, loop.key)
          /\ \/ loop.at = "dedupe check" /\ at \in {"repoint", "dedupe drop"}
             \/ loop.at = "reap check" /\ at \in {"reap", "reap drop"}
          /\ at \in {"dedupe drop", "reap drop"} => ~Shared(loop.key)
    BY DEF LoopChecksSharers, Hours
  <2>2. loop'.at = at /\ loop'.todo = loop.todo /\ loop'.key = loop.key
    BY <2>1 DEF Loop
  <2>3. QED
    BY <2>1, <2>2 DEF Repointing, Dropping
<1>3. CommitsSteady /\ SharesSteady /\ RepointsSteady
  BY <1>1, <1>2 DEF CommitsSteady, SharesSteady, RepointsSteady, Committing, Sharing
<1>4. NoneLeft'
  <2>1. \A k \in Files : Deciding(k)' => Deciding(k) \/ ~Shared(k)
    BY <1>1, <1>2 DEF Deciding, Dropping
  <2>2. QED
    BY <1>1, <2>1 DEF ObjInv, NoneLeft, Shared, Committed, Stored
<1>5. QED
  BY <1>1, <1>3, <1>4, OnceEachSteady, AloneSteady, RepointsOldSteady, HasObjectSteady
  DEF ObjInv, NoneFresher, RowsSteady

\* What is deleted is the object at which no row points.
LEMMA DeletionKeepsObjects ==
  ASSUME ObjInv, NEW k \in Files, Deciding(k), row' = row, late' = late,
         object' = object \ {k}
  PROVE  CommittedHasObject'
BY DEF ObjInv, NoneLeft, CommittedHasObject, Committed

LEMMA DeleteKeepsObjects ==
  ASSUME Typed, ObjInv, NEW c \in Callers, DeleteObject(c)
  PROVE  NoneFresher /\ ObjInv'
<1>1. /\ row' = row /\ loop' = loop /\ late' = late /\ Return(c)
      /\ object' = object \ {call[c].key} /\ call[c].at = "drop" /\ RowsSteady
  BY SameRowSteady DEF DeleteObject
<1>2. call[c].key \in Files /\ Deciding(call[c].key)
  BY <1>1 DEF Typed, CallOK, CallShape, OnFile, Deciding
<1>3. CommittedHasObject'
  BY <1>1, <1>2, DeletionKeepsObjects
<1>4. QED
  BY <1>1, <1>3, ReturnSteady, OnceEachSteady, AloneSteady, RepointsOldSteady,
     NoneLeftSteady
  DEF ObjInv, NoneFresher, RowsSteady

LEMMA LoopDeleteKeepsObjects ==
  ASSUME Typed, ObjInv, LoopDeletesObject
  PROVE  NoneFresher /\ ObjInv'
<1>1. /\ row' = row /\ call' = call /\ late' = late /\ RowsSteady
      /\ object' = object \/ object' = object \ {loop.key}
  BY SameRowSteady DEF LoopDeletesObject
<1>2. loop.key \in Files /\ Deciding(loop.key)
  BY DEF LoopDeletesObject, Typed, LoopOK, Deciding
<1>3. CommittedHasObject'
  BY <1>1, <1>2, DeletionKeepsObjects, HasObjectSteady DEF ObjInv
<1>4. /\ loop'.todo = loop.todo /\ ~Dropping'
      /\ Repointing' => Repointing
  <2>1. CASE loop.at = "dedupe drop"
    BY <2>1 DEF LoopDeletesObject, Loop, Repointing, Dropping
  <2>2. CASE loop.at = "reap drop"
    BY <2>2 DEF LoopDeletesObject, Loop, Repointing, Dropping
  <2>3. QED
    BY <2>1, <2>2 DEF LoopDeletesObject
<1>5. CommitsSteady /\ SharesSteady /\ DropsSteady /\ RepointsSteady
  BY <1>1, <1>4
  DEF CommitsSteady, SharesSteady, DropsSteady, RepointsSteady, Committing, Sharing
<1>6. QED
  BY <1>1, <1>3, <1>5, OnceEachSteady, AloneSteady, RepointsOldSteady, NoneLeftSteady
  DEF ObjInv, NoneFresher, RowsSteady

LEMMA PlanKeepsObjects ==
  ASSUME AttachmentsAssumption, Typed, ObjInv, PlanDedupe
  PROVE  NoneFresher /\ ObjInv'
<1>1. /\ row' = row /\ call' = call /\ late' = late /\ object' = object /\ RowsSteady
      /\ loop'.at = "repoint" /\ loop'.todo = Repoints
  BY SameRowSteady DEF PlanDedupe, Loop
<1>2. CommitsSteady /\ SharesSteady /\ DropsSteady
  BY <1>1 DEF CommitsSteady, SharesSteady, DropsSteady, Committing, Sharing, Dropping
<1>3. \A p \in Repoints : ~Fresh(p.on) /\ \A a \in Files : Solo(a) => p.to # a
  BY RepointsTyped, CommittedIsNotSolo DEF ObjInv, Alone, Fresh, Committed
<1>4. Alone'
  <2>1. \A a \in Files : Solo(a)' => Solo(a)
    BY <1>1 DEF Solo, Fresh, Committing
  <2>2. QED
    BY <1>1, <1>3, <2>1 DEF ObjInv, Alone, Sharing
<1>5. RepointsOld'
  BY <1>1, <1>3 DEF RepointsOld, Fresh
<1>6. QED
  BY <1>1, <1>2, <1>4, <1>5, OnceEachSteady, NoneLeftSteady, HasObjectSteady
  DEF ObjInv, NoneFresher, RowsSteady

\* What is repointed is old, and the object it takes is no other's own.
LEMMA RepointKeepsObjects ==
  ASSUME Typed, ObjInv, NEW p \in loop.todo, Repoint(p)
  PROVE  NoneFresher /\ ObjInv'
<1> DEFINE a == p.on
           to == p.to
<1>1. /\ a \in Files /\ ~Fresh(a) /\ Repointing /\ Repointing'
      /\ \A b \in Files : Solo(b) => to # b
  BY DEF Repoint, Loop, Typed, LoopOK, Todos, ObjInv, RepointsOld, Alone, Repointing
<1>2. /\ call' = call /\ object' = object /\ loop'.todo \subseteq loop.todo
      /\ ~Dropping' /\ loop.at = "repoint"
  BY DEF Repoint, Loop, Dropping
<1>3. \/ row' = row /\ late' = late
      \/ row' = [row EXCEPT ![a] = [row[a] EXCEPT !.key = to]] /\ Takes(a, to)
  BY DEF Repoint
<1>4. /\ late \subseteq late'
      /\ \A b \in Files :
           /\ row'[b].status = row[b].status
           /\ \/ row'[b].key = row[b].key
              \/ b = a /\ row'[b].key = to /\ (b \notin late' => to \in object /\ ~Deciding(to))
  <2>1. CASE row' = row /\ late' = late
    BY <2>1
  <2>2. CASE row' = [row EXCEPT ![a] = [row[a] EXCEPT !.key = to]] /\ Takes(a, to)
    <3> DEFINE r == [row[a] EXCEPT !.key = to]
    <3>1. r.key = to /\ r.status = row[a].status
      BY <1>1 DEF Typed, RowOK, Rows
    <3>2. row' = [row EXCEPT ![a] = r] /\ Takes(a, to)
      BY <2>2
    <3> HIDE DEF r, a, to
    <3>3. \A b \in Files : IF b = a THEN row'[b] = r ELSE row'[b] = row[b]
      BY <3>2 DEF Typed, RowOK
    <3>4. late \subseteq late' /\ (a \notin late' => to \in object /\ ~Deciding(to))
      BY <3>2 DEF Takes
    <3>5. QED
      BY <3>1, <3>3, <3>4
  <2>3. QED
    BY <1>3, <2>1, <2>2
<1> HIDE DEF a, to
<1>5. \A b \in Files : /\ Fresh(b)' <=> Fresh(b)
                       /\ Committed(b)' <=> Committed(b)
                       /\ Solo(b)' => Solo(b)
  BY <1>2, <1>4 DEF Fresh, Committed, Solo, Committing
<1>6. OnceEach'
  <2>1. \A d \in Callers : Committing(d) => call[d].on \in Files
    BY DEF Typed, CallOK, CallShape, OnFile, Committing
  <2>2. QED
    BY <1>1, <1>2, <1>4, <1>5, <2>1 DEF ObjInv, OnceEach, Committing
<1>7. Alone'
  BY <1>1, <1>2, <1>4, <1>5 DEF ObjInv, Alone, Sharing
<1>8. RepointsOld' /\ NoneFresher
  <2>1. \A q \in loop.todo : q.on \in Files
    BY DEF Typed, LoopOK, Todos
  <2>2. QED
    BY <1>1, <1>2, <1>5, <2>1 DEF ObjInv, RepointsOld, NoneFresher
<1>9. NoneLeft'
  <2>1. \A k \in Files : Deciding(k)' => Deciding(k)
    BY <1>2 DEF Deciding, Dropping
  <2>2. QED
    BY <1>4, <1>5, <2>1 DEF ObjInv, NoneLeft
<1>10. CommittedHasObject'
  BY <1>2, <1>4, <1>5 DEF ObjInv, CommittedHasObject
<1>11. QED
  BY <1>6, <1>7, <1>8, <1>9, <1>10 DEF ObjInv

LEMMA NextKeepsObjects ==
  ASSUME AttachmentsAssumption, Repeats = FALSE, Typed, ImagesOld, ObjInv, [Next]_vars
  PROVE  NoneFresher /\ ObjInv'
<1>1. CASE UNCHANGED vars
  <2>1. /\ row' = row /\ call' = call /\ loop' = loop /\ late' = late
        /\ object \subseteq object'
    BY <1>1 DEF vars
  <2>2. QED
    BY <2>1, SameRowSteady, SameCallSteady, AllSteady
<1>2. CASE \E c \in Callers : Request(c)
  BY <1>2, PlainRequests, CommitKeepsObjects, HeadKeepsObjects, TwinKeepsObjects,
     CommitRowKeepsObjects, CheckKeepsObjects, DeleteKeepsObjects
  DEF Request
<1>3. CASE Hourly
  BY <1>3, PlainUploads, PlainLoop, PlanKeepsObjects, RepointKeepsObjects,
     LoopCheckKeepsObjects, LoopDeleteKeepsObjects
  DEF Hourly
<1>4. QED
  BY <1>1, <1>2, <1>3, PlainUploads, PlainWriters, PlainLoop DEF Next

\* A step that sets no banner, and lets go of the images it has or goes on with them.
ImageCallsSteady ==
  \A c \in Callers :
    /\ call'[c].at = "new banner" => call[c].at = "new banner" /\ call'[c].on = call[c].on
    /\ call'[c].at \in {"banner", "new banner", "old banner"} =>
         /\ call[c].at \in {"banner", "new banner", "old banner"}
         /\ call'[c].key = call[c].key

LEMMA ImagesOldSteady ==
  ASSUME Typed, ImagesOld, NoneFresher, banner' \in {banner, None}, ImageCallsSteady
  PROVE  ImagesOld'
<1>1. /\ banner \in Files \cup {None}
      /\ \A c \in Callers : /\ call[c].at = "new banner" => call[c].on \in Files
                            /\ call[c].key \in Files \cup {None}
  BY DEF Typed, RestOK, CallOK, CallShape, Calls
<1>2. QED
  BY <1>1 DEF ImagesOld, NoneFresher, ImageCallsSteady

LEMMA ImageRequests ==
  ASSUME Typed, ImagesOld, NoneFresher, NEW c \in Callers, Request(c)
  PROVE  ImagesOld'
<1>1. call[c] \in Calls /\ CallShape(call[c]) /\ banner \in Files \cup {None}
  BY DEF Typed, CallOK, RestOK
<1>2. ASSUME NEW r, call' = [call EXCEPT ![c] = r], banner' = banner,
             r.at \notin {"banner", "new banner", "old banner"}
      PROVE  ImagesOld'
  <2>1. call'[c] = r /\ \A d \in Callers \ {c} : call'[d] = call[d]
    BY <1>2 DEF Typed, CallOK
  <2>2. ImageCallsSteady
    BY <1>2, <2>1 DEF ImageCallsSteady
  <2>3. QED
    BY <1>2, <2>2, ImagesOldSteady
<1>3. ASSUME NEW at \in {"reject", "twin", "drop", "check"}, Goto(c, at), banner' = banner
      PROVE  ImagesOld'
  <2> DEFINE r == [call[c] EXCEPT !.at = at]
  <2>1. r.at = at /\ call' = [call EXCEPT ![c] = r]
    BY <1>1, <1>3 DEF Goto, Calls
  <2> HIDE DEF r
  <2>2. QED
    BY <1>2, <1>3, <2>1
<1>4. CASE Return(c) /\ banner' = banner
  BY <1>2, <1>4 DEF Return, NoCall
<1>5. CASE \E a \in Files : Commit(c, a) \/ Delete(c, a)
  <2>1. PICK at \in {"head", "claim"} : \E on, key :
          call' = [call EXCEPT ![c] = [at |-> at, on |-> on, key |-> key, to |-> None]]
    BY <1>5 DEF Commit, Delete
  <2>2. PICK on, key :
          call' = [call EXCEPT ![c] = [at |-> at, on |-> on, key |-> key, to |-> None]]
    BY <2>1
  <2> DEFINE r == [at |-> at, on |-> on, key |-> key, to |-> None]
  <2>3. r.at = at /\ call' = [call EXCEPT ![c] = r]
    BY <2>2
  <2> HIDE DEF r
  <2>4. QED
    BY <1>2, <1>5, <2>3 DEF Commit, Delete
<1>6. CASE \E a \in Files \cup {None} : SetBanner(c, a)
  <2>1. PICK a \in Files \cup {None} :
          /\ call' = [call EXCEPT ![c] = [at |-> "banner", on |-> a, key |-> banner,
                                          to |-> None]]
          /\ banner' = banner /\ row' = row
    BY <1>6 DEF SetBanner
  <2>2. /\ call'[c].at = "banner" /\ call'[c].key = banner
        /\ \A d \in Callers \ {c} : call'[d] = call[d]
    BY <2>1 DEF Typed, CallOK
  <2>3. QED
    BY <2>1, <2>2 DEF ImagesOld, Fresh
<1>7. CASE ReferToImage(c) /\ ~Return(c)
  <2>1. PICK at \in {"old banner", "new banner"} :
          /\ Goto(c, at) /\ banner' = call[c].on /\ row' = row
          /\ call[c].on # None => Committed(call[c].on)
          /\ at = "new banner" => call[c].on # None
          /\ call[c].at = "banner"
    BY <1>7 DEF ReferToImage
  <2>2. /\ call'[c].at = at /\ call'[c].on = call[c].on /\ call'[c].key = call[c].key
        /\ \A d \in Callers \ {c} : call'[d] = call[d]
    BY <1>1, <2>1 DEF Goto, Typed, CallOK, Calls
  <2>3. QED
    BY <2>1, <2>2 DEF ImagesOld, Fresh, Committed
<1>8. CASE ReferToImage(c) /\ Return(c)
  <2>1. banner' = banner \/ Goto(c, "old banner") \/ Goto(c, "new banner")
    BY <1>8 DEF ReferToImage
  <2>2. ASSUME NEW at \in {"old banner", "new banner"}, Goto(c, at)
        PROVE  FALSE
    <3>1. call'[c].at = at
      BY <1>1, <2>2 DEF Goto, Typed, CallOK, Calls
    <3>2. call'[c].at = "idle"
      BY <1>8 DEF Return, NoCall, Typed, CallOK
    <3>3. QED
      BY <3>1, <3>2
  <2>3. QED
    BY <1>4, <1>8, <2>1, <2>2
<1>9. CASE ImageIsLive(c)
  <2>1. call[c].at = "new banner" /\ Goto(c, "old banner") /\ banner' = banner
    BY <1>9 DEF ImageIsLive
  <2>2. /\ call'[c].at = "old banner" /\ call'[c].key = call[c].key
        /\ \A d \in Callers \ {c} : call'[d] = call[d]
    BY <1>1, <2>1 DEF Goto, Typed, CallOK, Calls
  <2>3. ImageCallsSteady
    BY <2>1, <2>2 DEF ImageCallsSteady
  <2>4. QED
    BY <2>1, <2>3, ImagesOldSteady
<1>10. CASE \E told \in BOOLEAN : FindTwin(c, told)
  <2>1. PICK told \in BOOLEAN : \E k :
          call' = [call EXCEPT ![c].at = IF told THEN "hashed" ELSE "unhashed", ![c].to = k]
    BY <1>10 DEF FindTwin
  <2> PICK k : call' = [call EXCEPT ![c].at = IF told THEN "hashed" ELSE "unhashed",
                                    ![c].to = k]
    BY <2>1
  <2> DEFINE at == IF told THEN "hashed" ELSE "unhashed"
             r == [[call[c] EXCEPT !.at = at] EXCEPT !.to = k]
  <2>2. call' = [call EXCEPT ![c] = r]
    BY <2>1 DEF Typed, CallOK
  <2>3. at \in {"hashed", "unhashed"}
    OBVIOUS
  <2> HIDE DEF at
  <2>4. r.at = at
    BY <1>1 DEF Calls
  <2> HIDE DEF r
  <2>5. QED
    BY <1>2, <1>10, <2>2, <2>3, <2>4 DEF FindTwin
<1>11. QED
  BY <1>3, <1>4, <1>5, <1>6, <1>7, <1>8, <1>9, <1>10
  DEF Request, HeadObject, Reject, CommitRow, Claim, CheckSharers, DeleteObject,
      OrphanOldImage, CallFails

LEMMA NextKeepsImages ==
  ASSUME Typed, ImagesOld, NoneFresher, [Next]_vars
  PROVE  ImagesOld'
<1>1. CASE \E c \in Callers : Request(c)
  BY <1>1, ImageRequests
<1>2. CASE ~\E c \in Callers : Request(c)
  <2>1. banner' \in {banner, None} /\ (call' = call \/ call' = [c \in Callers |-> NoCall])
    BY <1>2
    DEF Next, vars, Prepare, Ages, PutObject, RemoveProject, OrphanUnreferenced,
        OrphaningFails, WriteBody, Reconcile, PlanReferences, RemoveReferences,
        AddReferences, PlanStatuses, OrphanTouched, ReviveTouched, ReconcileFails,
        Hourly, Hash, PlanDedupe, Repoint, PlanReap, Reap, EndReap, LoopChecksSharers,
        LoopDeletesObject, LoopFails, Crash
  <2>2. CASE call' = call
    BY <2>1, <2>2, ImagesOldSteady DEF ImageCallsSteady
  <2>3. CASE call' = [c \in Callers |-> NoCall]
    BY <2>1, <2>3, ImagesOldSteady DEF ImageCallsSteady, NoCall
  <2>4. QED
    BY <2>1, <2>2, <2>3
<1>3. QED
  BY <1>1, <1>2

-------------------------------------------------------------------------------
(* The theorems *)

LEMMA InitHolds ==
  ASSUME AttachmentsAssumption, Init
  PROVE  Typed /\ InHand /\ ImagesOld /\ ObjInv
<1>1. RowOK
  BY DEF Init, RowOK, Rows, Statuses
<1>2. CallOK /\ LoopOK
  BY DEF Init, CallOK, LoopOK, NoCall, NoLoop, Calls, CallShape, OnFile, Places, Hours
<1>3. WriterOK
  BY NoWriterTyped DEF Init, WriterOK
<1>4. RestOK /\ SpentOK
  BY DEF Init, RestOK, SpentOK, AttachmentsAssumption
<1>5. InHand
  BY DEF Init, InHand
<1>6. /\ \A c \in Callers : call[c].at = "idle"
      /\ loop.at = "dedupe" /\ banner = None
      /\ \A a \in Files : row[a].status = "none" /\ row[a].key = a
  BY DEF Init, NoCall, NoLoop
<1>7. ImagesOld
  BY <1>6 DEF ImagesOld
<1>8. ObjInv
  <2>1. OnceEach
    BY <1>6 DEF OnceEach, Committing
  <2>2. Alone /\ RepointsOld
    BY <1>6 DEF Alone, RepointsOld, Sharing, Repointing
  <2>3. NoneLeft /\ CommittedHasObject
    BY <1>6 DEF NoneLeft, CommittedHasObject, Committed
  <2>4. QED
    BY <2>1, <2>2, <2>3 DEF ObjInv
<1>9. QED
  BY <1>1, <1>2, <1>3, <1>4, <1>5, <1>7, <1>8 DEF Typed

\* Every variable keeps its type, whatever attachments, tickets and requests there are:
\* no statement of Attachments.ts, of the reconciliation or of the hourly loop writes a
\* value its column does not have.
THEOREM AttachmentsTypeCorrect == Spec => []TypeOK
<1>1. Init => Typed
  BY AttachmentsAssumption, InitHolds
<1>2. Typed /\ [Next]_vars => Typed'
  BY AttachmentsAssumption, NextTyped
<1>3. Typed => TypeOK
  BY TypedIsTypeOK
<1>4. QED
  BY <1>1, <1>2, <1>3, PTL DEF Spec

\* Whatever the interleaving of writers, requests and loop, an attachment to which a ticket
\* refers is not left orphaned once the writer of the ticket is done (reconcileReferences).
THEOREM WhatIsReferredToIsLive == Spec => []ReferencedIsLive
<1>1. Init => Typed /\ InHand
  BY AttachmentsAssumption, InitHolds
<1>2. Typed /\ InHand /\ [Next]_vars => (Typed /\ InHand)'
  BY AttachmentsAssumption, NextTyped, NextKeepsHand
<1>3. Typed /\ InHand => ReferencedIsLive
  BY DEF InHand, ReferencedIsLive
<1>4. QED
  BY <1>1, <1>2, <1>3, PTL DEF Spec

\* When no commit is asked for twice, a committed attachment has its object, save one that
\* took the object of a twin whose end was decided: neither deleteObjectIfUnshared nor the
\* dedupe takes an object that another row has pointed at for longer.
THEOREM WhatIsServedIsThere ==
  ASSUME Repeats = FALSE
  PROVE  Spec => []CommittedHasObject
<1>1. Init => Typed /\ ImagesOld /\ ObjInv
  BY AttachmentsAssumption, InitHolds
<1>2. Typed /\ ImagesOld /\ ObjInv /\ [Next]_vars => (Typed /\ ImagesOld /\ ObjInv)'
  BY AttachmentsAssumption, NextTyped, NextKeepsObjects, NextKeepsImages
<1>3. ObjInv => CommittedHasObject
  BY DEF ObjInv
<1>4. QED
  BY <1>1, <1>2, <1>3, PTL DEF Spec

===============================================================================
