------------------------ MODULE JiraMigration_proofs ------------------------
(***************************************************************************)
(* Proofs about JiraMigration, for any pages, attempts, commands and       *)
(* failures.  The argument: all that an import makes is made under a row   *)
(* that reserved its destination and is not being cleaned (Bound), and a   *)
(* cleanup that holds the row has undone all that its stages are past      *)
(* (Undone); so what becomes visible or is removed is decided by the row.  *)
(* The last part says who is inside a write: a row moves on after each     *)
(* execution was asked for (Asked), so one that is at work is the row's    *)
(* own or can never be installed again (Late), unless the row is removed   *)
(* and created again under it (CreatedOverNobody).                         *)
(***************************************************************************)
EXTENDS JiraMigration, TLAPS

Gates == [tag : {"None", "StartImport", "Retry"}, phase : {"none", "scan", "import"},
          seq : Nat]

Row ==
  [status : Statuses, rev : Nat, exec : Executions \cup {<<0, 0>>},
   scanned : BOOLEAN, dest : BOOLEAN, config : BOOLEAN, accepted : BOOLEAN,
   gate : Gates, seq : Nat, retryable : BOOLEAN,
   receipt : [Units \cup Stages -> Nat], counted : SUBSET Pages,
   writes : Executions \cup {None}, cleaned : BOOLEAN,
   cleanup : Cleanups \cup {None}]

\* The handler of a rescan has started the execution it is about to install.
RescanTyped ==
  /\ rescan \in [pc : {"idle", "reset", "begin"},
                 key : Executions \cup Cleanups \cup {None},
                 exec : Executions \cup {<<0, 0>>, None}]
  /\ rescan.pc = "begin" => rescan.key \in DOMAIN flow
  /\ rescan.pc = "reset" => /\ rescan.exec \in Executions \cup {<<0, 0>>}
                            /\ Attempt(rescan.exec) < MaxAttempts

\* A row that is gone is as if there had never been one.
Gone == row.status = "none" => row = NoRow

\* All that an import makes is made under a row that reserved its destination.
Bound == (project # "none" \/ docs \/ upload # "none") => row.dest

\* A cleanup that holds the row has undone what its stages are past.
Undone ==
  \A k \in DOMAIN cleaning :
    row.cleanup = k /\ Mode(k) # "post_success" =>
      /\ cleaning[k] # "archive"
      /\ cleaning[k] \in {"documents", "project", "staging", "complete"}
           => upload # "pending"
      /\ cleaning[k] \in {"project", "staging", "complete"}
           => (docs => project = "published")
      /\ cleaning[k] \in {"staging", "complete"} => project # "hidden"

Inv == /\ TypeOK /\ row \in Row /\ RescanTyped /\ Gone /\ Bound /\ Undone
       /\ VisibleIffSucceeded

-----------------------------------------------------------------------------
(* What most steps do: they leave the destination, the claim of a cleanup and *)
(* the success of the migration as they are, and respect a cancellation.      *)

Sticks ==
  row.status \in {"cancelling", "cancelled"} =>
    \/ row'.status \in {"cancelling", "cancelled", "none"}
    \/ row'.exec # row.exec

RowKept ==
  /\ row' \in Row
  /\ row'.cleanup = row.cleanup /\ row'.dest = row.dest
  /\ row'.status = "none" => row' = row
  /\ row'.status = "succeeded" <=> row.status = "succeeded"
  /\ Sticks

Kept ==
  /\ RowKept /\ UNCHANGED data
  /\ stored' \subseteq Remote
  /\ DOMAIN flow \subseteq DOMAIN flow' /\ DOMAIN flow' \subseteq Executions
  /\ \A w \in flying' : w[1] \in DOMAIN flow' /\ w[2] \in Remote
  /\ cleaning' = cleaning \/ \E k \in Cleanups : cleaning' = CleanupExecuted(k)
  /\ RescanTyped'

LEMMA SameRow ==
  ASSUME row \in Row, row' = row
  PROVE  RowKept
BY DEF RowKept, Sticks

LEMMA KeptKeeps ==
  ASSUME JiraAssumption, Inv, Kept
  PROVE  Inv'
<1>1. row' \in Row /\ RescanTyped'
  BY DEF Kept, RowKept
<1>2. DOMAIN cleaning \subseteq DOMAIN cleaning' /\ DOMAIN cleaning' \subseteq Cleanups
  <2>1. DOMAIN cleaning \subseteq Cleanups
    BY DEF Inv, TypeOK
  <2>2. ASSUME NEW k \in Cleanups, cleaning' = CleanupExecuted(k)
        PROVE  DOMAIN cleaning' = DOMAIN cleaning \cup {k}
    <3>1. CASE k \in DOMAIN cleaning
      BY <2>2, <3>1 DEF CleanupExecuted
    <3>2. CASE k \notin DOMAIN cleaning
      BY <2>2, <3>2 DEF CleanupExecuted
    <3>3. QED
      BY <3>1, <3>2
  <2>3. QED
    BY <2>1, <2>2 DEF Kept
<1>3. TypeOK'
  BY <1>1, <1>2 DEF Kept, Inv, TypeOK, Row, data
<1>4. Gone'
  BY DEF Kept, RowKept, Inv, Gone, NoRow
<1>5. Bound' /\ VisibleIffSucceeded'
  BY DEF Kept, RowKept, Inv, Bound, VisibleIffSucceeded, data
<1>6. Undone'
  <2>1. \A k \in DOMAIN cleaning' :
          \/ k \in DOMAIN cleaning /\ cleaning'[k] = cleaning[k]
          \/ cleaning'[k] = "claim"
    <3>1. CASE cleaning' = cleaning
      BY <3>1
    <3>2. ASSUME NEW k \in Cleanups, cleaning' = CleanupExecuted(k)
          PROVE  \A j \in DOMAIN cleaning' :
                   \/ j \in DOMAIN cleaning /\ cleaning'[j] = cleaning[j]
                   \/ cleaning'[j] = "claim"
      <4>1. CASE k \in DOMAIN cleaning
        BY <3>2, <4>1 DEF CleanupExecuted
      <4>2. CASE k \notin DOMAIN cleaning
        BY <3>2, <4>2 DEF CleanupExecuted
      <4>3. QED
        BY <4>1, <4>2
    <3>3. QED
      BY <3>1, <3>2 DEF Kept
  <2>2. QED
    BY <2>1 DEF Kept, RowKept, Inv, Undone, data
<1>7. QED
  BY <1>1, <1>3, <1>4, <1>5, <1>6 DEF Inv

LEMMA KeptIf ==
  ASSUME Inv, RowKept, UNCHANGED <<data, handlers>>, DOMAIN flow' = DOMAIN flow,
         stored' \subseteq Remote,
         \A w \in flying' : w \in flying \/ (w[1] \in DOMAIN flow /\ w[2] \in Remote)
  PROVE  Kept
<1>1. RescanTyped'
  BY DEF Inv, RescanTyped, handlers
<1>2. \A w \in flying' : w[1] \in DOMAIN flow' /\ w[2] \in Remote
  BY DEF Inv, TypeOK
<1>3. QED
  BY <1>1, <1>2 DEF Kept, Inv, TypeOK, handlers

LEMMA SameDomain ==
  ASSUME NEW e \in DOMAIN flow,
         \/ UNCHANGED flow
         \/ \E pc : Goto(e, pc)
         \/ \E exit : Exits(e, exit)
         \/ \E u, at, seq : UnitTo(e, u, at, seq)
         \/ \E next : Returned(e, next)
         \/ \E x : flow' = [flow EXCEPT ![e] = x]
  PROVE  DOMAIN flow' = DOMAIN flow
BY DEF Goto, Exits, UnitTo, Returned

\* What an edit of the row leaves as it was.
LEMMA BumpedFields ==
  ASSUME row \in Row
  PROVE  /\ Bumped \in Row /\ Bumped.status = row.status /\ Bumped.exec = row.exec
         /\ Bumped.cleanup = row.cleanup /\ Bumped.dest = row.dest
         /\ Bumped.seq = row.seq /\ Bumped.receipt = row.receipt
         /\ Bumped.gate = row.gate /\ Bumped.counted = row.counted
         /\ Bumped.accepted = row.accepted
BY DEF Bumped, Row

LEMMA ReceiptFields ==
  ASSUME row \in Row, NEW op, NEW seq \in Nat
  PROVE  /\ Receipt(op, seq) \in Row /\ Receipt(op, seq).status = row.status
         /\ Receipt(op, seq).exec = row.exec
         /\ Receipt(op, seq).cleanup = row.cleanup /\ Receipt(op, seq).dest = row.dest
<1>1. [Bumped.receipt EXCEPT ![op] = seq] \in [Units \union Stages -> Nat]
  BY BumpedFields DEF Row
<1>2. QED
  BY <1>1, BumpedFields DEF Receipt, Row

LEMMA FailureFields ==
  ASSUME NEW b \in Row, NEW status \in Statuses, NEW gate \in Gates, NEW seq \in Nat,
         row' = [b EXCEPT !.gate = gate, !.seq = seq, !.status = status,
                          !.retryable = TRUE]
  PROVE  /\ row' \in Row /\ row'.status = status /\ row'.exec = b.exec
         /\ row'.cleanup = b.cleanup /\ row'.dest = b.dest
BY DEF Row

-----------------------------------------------------------------------------
(* The intent of a remote write *)

LEMMA BeginKeeps ==
  ASSUME Inv, NEW e \in DOMAIN flow, BeginAccepted(e), row' = Begun(e)
  PROVE  RowKept
<1>1. e \in Executions /\ row \in Row
  BY DEF Inv, TypeOK
<1>2. QED
  BY <1>1 DEF RowKept, Sticks, BeginAccepted, Begun, Row, Current, Exists

LEMMA SettleKeeps ==
  ASSUME Inv, NEW e \in DOMAIN flow, SettleAccepted(e), row' = Settled
  PROVE  RowKept
BY DEF Inv, RowKept, Sticks, SettleAccepted, Settled, Row, Current, Exists

-----------------------------------------------------------------------------
(* The steps of a scan *)

LEMMA BeginUnitKeeps ==
  ASSUME JiraAssumption, Inv, NEW e \in DOMAIN flow, NEW u \in Units, BeginUnit(e, u)
  PROVE  Kept
<1>1. row \in Row /\ u \in Remote /\ stored \subseteq Remote
  BY DEF Inv, TypeOK, Remote
<1>2. RowKept
  BY <1>1, SameRow, BeginKeeps DEF BeginUnit
<1>3. DOMAIN flow' = DOMAIN flow
  BY DEF BeginUnit, UnitTo
<1>4. \A w \in flying' : w \in flying \/ (w[1] \in DOMAIN flow /\ w[2] \in Remote)
  BY <1>1 DEF BeginUnit
<1>5. QED
  BY <1>1, <1>2, <1>3, <1>4, KeptIf DEF BeginUnit

LEMMA SettleUnitKeeps ==
  ASSUME Inv, NEW e \in DOMAIN flow, NEW u \in Units, SettleUnit(e, u)
  PROVE  Kept
<1>1. row \in Row /\ stored \subseteq Remote
  BY DEF Inv, TypeOK
<1>2. RowKept
  BY <1>1, SameRow, SettleKeeps DEF SettleUnit
<1>3. DOMAIN flow' = DOMAIN flow
  BY DEF SettleUnit, UnitTo
<1>4. QED
  BY <1>1, <1>2, <1>3, KeptIf DEF SettleUnit

LEMMA UnitFailsKeeps ==
  ASSUME Inv, NEW e \in DOMAIN flow, NEW u \in Units, UnitFails(e, u)
  PROVE  Kept
<1>1. row \in Row /\ stored \subseteq Remote
  BY DEF Inv, TypeOK
<1>2. RowKept /\ DOMAIN flow' = DOMAIN flow
  BY <1>1, SameRow DEF UnitFails, UnitTo
<1>3. QED
  BY <1>1, <1>2, KeptIf DEF UnitFails, LeftOver

LEMMA ProgressKeeps ==
  ASSUME Inv, NEW e \in DOMAIN flow, NEW u \in Units, NEW lost \in BOOLEAN,
         RecordScanProgress(e, u, lost)
  PROVE  Kept
<1>1. row \in Row /\ stored \subseteq Remote
  BY DEF Inv, TypeOK
<1>2. RowKept
  <2>1. \/ row' = row
        \/ Current(e) /\ row' = [Bumped EXCEPT !.counted = @ \union {u}] /\ u \in Pages
    BY DEF RecordScanProgress, ProgressAccepted
  <2>2. CASE row' = row
    BY <1>1, <2>2, SameRow
  <2>3. CASE Current(e) /\ row' = [Bumped EXCEPT !.counted = @ \union {u}] /\ u \in Pages
    BY <1>1, <2>3, BumpedFields DEF Row, RowKept, Sticks, Current, Exists
  <2>4. QED
    BY <2>1, <2>2, <2>3
<1>3. DOMAIN flow' = DOMAIN flow
  BY DEF RecordScanProgress, UnitTo, Exits
<1>4. QED
  BY <1>1, <1>2, <1>3, KeptIf DEF RecordScanProgress

LEMMA CompleteScanKeeps ==
  ASSUME Inv, NEW e \in DOMAIN flow, NEW lost \in BOOLEAN, CompleteScan(e, lost)
  PROVE  Kept
<1>1. row \in Row /\ stored \subseteq Remote
  BY DEF Inv, TypeOK
<1>2. RowKept
  <2>1. StartImportGate \in Gates /\ "needs_configuration" \in Statuses
    BY DEF StartImportGate, Gate, Gates, Statuses
  <2>2. CASE row' = row
    BY <1>1, <2>2, SameRow
  <2>3. CASE Completes(e) /\ row' = [Bumped EXCEPT !.status = "needs_configuration",
                                     !.scanned = TRUE, !.gate = StartImportGate]
    BY <1>1, <2>1, <2>3, BumpedFields DEF Completes, Row, RowKept, Sticks, Current, Exists
  <2>4. QED
    BY <2>2, <2>3 DEF CompleteScan
<1>3. DOMAIN flow' = DOMAIN flow
  BY DEF CompleteScan, Exits
<1>4. QED
  BY <1>1, <1>2, <1>3, KeptIf DEF CompleteScan

LEMMA ScanFailureKeeps ==
  ASSUME JiraAssumption, Inv, NEW e \in DOMAIN flow, NEW u \in Units,
         NEW outcome \in Outcomes, NEW lost \in BOOLEAN,
         RecordScanFailure(e, u, outcome, lost)
  PROVE  Kept
<1>1. row \in Row /\ stored \subseteq Remote
  BY DEF Inv, TypeOK
<1>2. RowKept
  <2>1. outcome \in {"failed", "reconnect_required"} /\ outcome \in Statuses
    BY DEF JiraAssumption, Statuses
  <2>2. row.seq \in Nat /\ row.seq + 1 \in Nat
    BY <1>1 DEF Row
  <2>4. \/ row' = row
        \/ Current(e) /\ row.status \notin Final /\ row' = Receipt(u, row.seq)
        \/ /\ Current(e) /\ row.status \notin Final
           /\ row' = [Receipt(u, row.seq + 1) EXCEPT
                        !.gate = Gate("Retry", "scan", row.seq + 1), !.seq = row.seq + 1,
                        !.status = outcome, !.retryable = TRUE]
    <3>1. CASE ~(Current(e) /\ Free /\ row.status \notin Final) \/ row.receipt[u] # 0
      BY <3>1 DEF RecordScanFailure
    <3>2. CASE /\ Current(e) /\ Free /\ row.status \notin Final /\ row.receipt[u] = 0
               /\ row.status \in Failed
      BY <3>2 DEF RecordScanFailure
    <3>3. CASE /\ Current(e) /\ Free /\ row.status \notin Final /\ row.receipt[u] = 0
               /\ row.status \notin Failed
      BY <3>3 DEF RecordScanFailure
    <3>4. QED
      BY <3>1, <3>2, <3>3
  <2>5. CASE row' = row
    BY <1>1, <2>5, SameRow
  <2>6. CASE Current(e) /\ row.status \notin Final /\ row' = Receipt(u, row.seq)
    BY <1>1, <2>2, <2>6, ReceiptFields
    DEF Stages, RowKept, Sticks, Final, Current, Exists
  <2>7. CASE /\ Current(e) /\ row.status \notin Final
             /\ row' = [Receipt(u, row.seq + 1) EXCEPT
                          !.gate = Gate("Retry", "scan", row.seq + 1), !.seq = row.seq + 1,
                          !.status = outcome, !.retryable = TRUE]
    <3>1. Gate("Retry", "scan", row.seq + 1) \in Gates
      BY <2>2 DEF Gate, Gates
    <3>2. row' \in Row /\ row'.status = outcome /\ row'.exec = row.exec
          /\ row'.cleanup = row.cleanup /\ row'.dest = row.dest
      <4> DEFINE b == Receipt(u, row.seq + 1)
      <4>1. b \in Row /\ b.exec = row.exec /\ b.cleanup = row.cleanup /\ b.dest = row.dest
        BY <1>1, <2>2, ReceiptFields
      <4>2. row' = [b EXCEPT !.gate = Gate("Retry", "scan", row.seq + 1),
                             !.seq = row.seq + 1, !.status = outcome, !.retryable = TRUE]
        BY <2>7
      <4> HIDE DEF b
      <4>3. QED
        BY <2>1, <2>2, <3>1, <4>1, <4>2, FailureFields
    <3>3. QED
      BY <2>1, <2>7, <3>2 DEF RowKept, Sticks, Final, Current, Exists
  <2>8. QED
    BY <2>4, <2>5, <2>6, <2>7
<1>3. DOMAIN flow' = DOMAIN flow
  BY DEF RecordScanFailure, Exits, UnitTo
<1>4. QED
  BY <1>1, <1>2, <1>3, KeptIf DEF RecordScanFailure

LEMMA ResumeScanKeeps ==
  ASSUME Inv, NEW e \in DOMAIN flow, NEW u \in Units, ResumeScan(e, u)
  PROVE  Kept
<1>1. row \in Row /\ stored \subseteq Remote
  BY DEF Inv, TypeOK
<1>2. RowKept
  <2>1. \/ row' = row
        \/ /\ Current(e) /\ ~(row.status \in {"cancelling", "cancelled", "succeeded"})
           /\ row' = [row EXCEPT !.receipt[u] = 0]
        \/ /\ Current(e) /\ ~(row.status \in {"cancelling", "cancelled", "succeeded"})
           /\ row' = [Bumped EXCEPT !.receipt[u] = 0,
                                    !.status = "scanning", !.retryable = FALSE]
    BY DEF ResumeScan, Failed
  <2>2. [row.receipt EXCEPT ![u] = 0] \in [Units \union Stages -> Nat]
    BY <1>1 DEF Row
  <2>3. CASE row' = row
    BY <1>1, <2>3, SameRow
  <2>4. CASE /\ Current(e) /\ ~(row.status \in {"cancelling", "cancelled", "succeeded"})
             /\ row' = [row EXCEPT !.receipt[u] = 0]
    BY <1>1, <2>2, <2>4 DEF Row, RowKept, Sticks, Current, Exists
  <2>5. CASE /\ Current(e) /\ ~(row.status \in {"cancelling", "cancelled", "succeeded"})
             /\ row' = [Bumped EXCEPT !.receipt[u] = 0,
                                      !.status = "scanning", !.retryable = FALSE]
    BY <1>1, <2>2, <2>5, BumpedFields DEF Row, RowKept, Sticks, Current, Exists, Statuses
  <2>6. QED
    BY <2>1, <2>3, <2>4, <2>5
<1>3. DOMAIN flow' = DOMAIN flow
  BY DEF ResumeScan, Exits, UnitTo
<1>4. QED
  BY <1>1, <1>2, <1>3, KeptIf DEF ResumeScan

-----------------------------------------------------------------------------
(* The steps of an import that leave what it has made *)

LEMMA UnfencedKeeps ==
  ASSUME Inv, NEW e \in DOMAIN flow,
         \/ StartImport(e) \/ ReadAttempt(e) \/ AttachmentSent(e)
         \/ VerifyHiddenMaterialization(e) \/ ImportFails(e) \/ FinalizerFails(e)
         \/ RescanReads(e) \/ ObserveInterrupt(e)
         \/ \E exit \in {"fatal", "retryable"} : Breaks(e, exit)
  PROVE  Kept
<1>1. row \in Row /\ stored \subseteq Remote
  BY DEF Inv, TypeOK
<1>2. row' = row /\ stored' = stored /\ UNCHANGED <<data, handlers>>
  BY DEF StartImport, ReadAttempt, AttachmentSent, VerifyHiddenMaterialization,
         ImportFails, FinalizerFails, RescanReads, ObserveInterrupt, Breaks
<1>3. DOMAIN flow' = DOMAIN flow
  BY DEF StartImport, ReadAttempt, AttachmentSent, VerifyHiddenMaterialization,
         ImportFails, FinalizerFails, RescanReads, ObserveInterrupt, Breaks,
         Goto, Exits, Returned, TakesOver
<1>4. flying' \subseteq flying
  BY DEF StartImport, ReadAttempt, AttachmentSent, VerifyHiddenMaterialization,
         ImportFails, FinalizerFails, RescanReads, ObserveInterrupt, Breaks, LeftOver
<1>5. RowKept
  BY <1>1, <1>2, SameRow
<1>6. QED
  BY <1>1, <1>2, <1>3, <1>4, <1>5, KeptIf

LEMMA BeginPreparationKeeps ==
  ASSUME Inv, NEW e \in DOMAIN flow, BeginPreparation(e)
  PROVE  Kept
<1>1. row \in Row /\ stored \subseteq Remote
  BY DEF Inv, TypeOK
<1>2. RowKept
  BY <1>1, SameRow, BeginKeeps DEF BeginPreparation
<1>3. DOMAIN flow' = DOMAIN flow
  BY DEF BeginPreparation, Goto, Exits
<1>4. \A w \in flying' : w \in flying \/ (w[1] \in DOMAIN flow /\ w[2] \in Remote)
  BY DEF BeginPreparation, Remote
<1>5. QED
  BY <1>1, <1>2, <1>3, <1>4, KeptIf DEF BeginPreparation

LEMMA SettlePreparationKeeps ==
  ASSUME Inv, NEW e \in DOMAIN flow, SettlePreparation(e)
  PROVE  Kept
<1>1. row \in Row /\ stored \subseteq Remote
  BY DEF Inv, TypeOK
<1>2. RowKept
  BY <1>1, SameRow, SettleKeeps DEF SettlePreparation
<1>3. DOMAIN flow' = DOMAIN flow
  BY DEF SettlePreparation, Goto, Exits
<1>4. flying' \subseteq flying
  BY DEF SettlePreparation
<1>5. QED
  BY <1>1, <1>2, <1>3, <1>4, KeptIf DEF SettlePreparation

LEMMA BeginImportKeeps ==
  ASSUME Inv, NEW e \in DOMAIN flow, BeginImport(e)
  PROVE  Kept
<1>1. row \in Row /\ stored \subseteq Remote
  BY DEF Inv, TypeOK
<1>2. RowKept
  BY <1>1, SameRow, BeginKeeps DEF BeginImport
<1>3. DOMAIN flow' = DOMAIN flow
  BY DEF BeginImport, Goto, Exits
<1>4. flying' \subseteq flying
  BY DEF BeginImport
<1>5. QED
  BY <1>1, <1>2, <1>3, <1>4, KeptIf DEF BeginImport

LEMMA SettleImportKeeps ==
  ASSUME Inv, NEW e \in DOMAIN flow, SettleImport(e)
  PROVE  Kept
<1>1. row \in Row /\ stored \subseteq Remote
  BY DEF Inv, TypeOK
<1>2. RowKept
  BY <1>1, SameRow, SettleKeeps DEF SettleImport
<1>3. DOMAIN flow' = DOMAIN flow
  BY DEF SettleImport, Goto, Exits
<1>4. flying' \subseteq flying
  BY DEF SettleImport
<1>5. QED
  BY <1>1, <1>2, <1>3, <1>4, KeptIf DEF SettleImport

LEMMA CopyAttachmentKeeps ==
  ASSUME Inv, NEW e \in DOMAIN flow, CopyAttachment(e)
  PROVE  Kept
<1>1. row \in Row /\ stored \subseteq Remote
  BY DEF Inv, TypeOK
<1>2. RowKept
  BY <1>1, SameRow, SameRow DEF CopyAttachment
<1>3. DOMAIN flow' = DOMAIN flow
  BY DEF CopyAttachment, Goto, Exits
<1>4. \A w \in flying' : w \in flying \/ (w[1] \in DOMAIN flow /\ w[2] \in Remote)
  BY DEF CopyAttachment, Remote
<1>5. QED
  BY <1>1, <1>2, <1>3, <1>4, KeptIf DEF CopyAttachment

LEMMA ImportFailureKeeps ==
  ASSUME JiraAssumption, Inv, NEW e \in DOMAIN flow,
         NEW outcome \in Outcomes, NEW lost \in BOOLEAN,
         RecordImportFailure(e, outcome, lost)
  PROVE  Kept
<1>1. row \in Row /\ stored \subseteq Remote
  BY DEF Inv, TypeOK
<1>2. RowKept
  <2> DEFINE b == Receipt(flow[e].stage, row.seq + 1)
  <2>1. outcome \in {"failed", "reconnect_required"} /\ outcome \in Statuses
    BY DEF JiraAssumption, Statuses
  <2>2. row.seq + 1 \in Nat
    BY <1>1 DEF Row
  <2>3. \/ row' = row
        \/ /\ Current(e) /\ row.status \notin Final
           /\ row' = [b EXCEPT !.gate = Gate("Retry", "import", row.seq + 1),
                               !.seq = row.seq + 1, !.status = outcome,
                               !.retryable = TRUE]
    BY DEF RecordImportFailure
  <2>4. b \in Row /\ b.exec = row.exec /\ b.cleanup = row.cleanup /\ b.dest = row.dest
    BY <1>1, <2>2, ReceiptFields
  <2>5. Gate("Retry", "import", row.seq + 1) \in Gates
    BY <2>2 DEF Gate, Gates
  <2> HIDE DEF b
  <2>6. CASE row' = row
    BY <1>1, <2>6, SameRow
  <2>7. CASE /\ Current(e) /\ row.status \notin Final
             /\ row' = [b EXCEPT !.gate = Gate("Retry", "import", row.seq + 1),
                                 !.seq = row.seq + 1, !.status = outcome,
                                 !.retryable = TRUE]
    <3>1. row' \in Row /\ row'.status = outcome /\ row'.exec = row.exec
          /\ row'.cleanup = row.cleanup /\ row'.dest = row.dest
      BY <2>1, <2>2, <2>4, <2>5, <2>7, FailureFields
    <3>2. QED
      BY <2>1, <2>7, <3>1 DEF RowKept, Sticks, Final, Current, Exists
  <2>8. QED
    BY <2>3, <2>6, <2>7
<1>3. DOMAIN flow' = DOMAIN flow
  BY DEF RecordImportFailure, Goto, Exits
<1>4. QED
  BY <1>1, <1>2, <1>3, KeptIf DEF RecordImportFailure

LEMMA ResumeImportKeeps ==
  ASSUME Inv, NEW e \in DOMAIN flow, ResumeImport(e)
  PROVE  Kept
<1>1. row \in Row /\ stored \subseteq Remote
  BY DEF Inv, TypeOK
<1>2. RowKept
  <2>1. \/ row' = row
        \/ /\ Current(e) /\ row.status = "migrating"
           /\ row' = [row EXCEPT !.receipt[flow[e].stage] = 0]
    BY DEF ResumeImport
  <2>2. [row.receipt EXCEPT ![flow[e].stage] = 0] \in [Units \union Stages -> Nat]
    BY <1>1 DEF Row
  <2>3. CASE row' = row
    BY <1>1, <2>3, SameRow
  <2>4. CASE /\ Current(e) /\ row.status = "migrating"
             /\ row' = [row EXCEPT !.receipt[flow[e].stage] = 0]
    BY <1>1, <2>2, <2>4 DEF Row, RowKept, Sticks, Current, Exists
  <2>5. QED
    BY <2>1, <2>3, <2>4
<1>3. DOMAIN flow' = DOMAIN flow
  BY DEF ResumeImport, Goto, Exits
<1>4. QED
  BY <1>1, <1>2, <1>3, KeptIf DEF ResumeImport

-----------------------------------------------------------------------------
(* The end of an execution *)

LEMMA CancelledKeeps ==
  ASSUME Inv, NEW e, Cancelling(e), row' = Cancelled
  PROVE  RowKept
<1>1. row \in Row /\ "cancelled" \in Statuses
  BY DEF Inv, Statuses
<1>2. QED
  BY <1>1, BumpedFields
  DEF Cancelling, Cancelled, Row, RowKept, Sticks, Current, Exists

LEMMA CleanupKeys ==
  ASSUME row \in Row, NEW mode \in Modes
  PROVE  <<mode, row.rev + 1>> \in Cleanups
BY DEF Row, Cleanups

LEMMA FinalizeKeeps ==
  ASSUME Inv, NEW e \in DOMAIN flow, Finalize(e)
  PROVE  Kept
<1>1. row \in Row /\ stored \subseteq Remote /\ RescanTyped
  BY DEF Inv, TypeOK
<1>2. RowKept
  BY <1>1, SameRow, CancelledKeeps DEF Finalize
<1>3. DOMAIN flow' = DOMAIN flow
  BY DEF Finalize, Goto
<1>4. cleaning' = cleaning \/ \E k \in Cleanups : cleaning' = CleanupExecuted(k)
  BY <1>1, CleanupKeys DEF Finalize, Modes
<1>5. RescanTyped'
  BY <1>1, <1>3 DEF Finalize, RescanTyped
<1>6. QED
  BY <1>1, <1>2, <1>3, <1>4, <1>5 DEF Finalize, Kept, Inv, TypeOK

LEMMA RecordFailureKeeps ==
  ASSUME Inv, NEW e \in DOMAIN flow, RecordFailure(e)
  PROVE  Kept
<1>1. row \in Row /\ stored \subseteq Remote
  BY DEF Inv, TypeOK
<1>2. RowKept
  <2> DEFINE phase == IF row.scanned THEN "import" ELSE "scan"
             seq == row.seq + 1
             gate == IF row.scanned /\ ~row.accepted THEN Bumped.gate
                     ELSE Gate("Retry", phase, seq)
             again == (flow[e].exit = "retryable")
  <2>1. \/ row' = row
        \/ /\ Current(e) /\ row.status \notin Final
           /\ row' = [Bumped EXCEPT !.status = "failed", !.seq = seq,
                                    !.retryable = again, !.gate = gate]
    BY DEF RecordFailure
  <2>2. seq \in Nat
    BY <1>1 DEF Row
  <2>3. Gate("Retry", phase, seq) \in Gates
    BY <2>2 DEF Gate, Gates
  <2>4. Bumped.gate \in Gates /\ "failed" \in Statuses
    BY <1>1, BumpedFields DEF Row, Statuses
  <2>5. gate \in Gates /\ again \in BOOLEAN
    BY <2>3, <2>4
  <2> HIDE DEF phase, seq, gate, again
  <2>6. CASE row' = row
    BY <1>1, <2>6, SameRow
  <2>7. CASE /\ Current(e) /\ row.status \notin Final
             /\ row' = [Bumped EXCEPT !.status = "failed", !.seq = seq,
                                      !.retryable = again, !.gate = gate]
    BY <1>1, <2>2, <2>4, <2>5, <2>7, BumpedFields
    DEF Row, RowKept, Sticks, Final, Current, Exists
  <2>8. QED
    BY <2>1, <2>6, <2>7
<1>3. DOMAIN flow' = DOMAIN flow
  BY DEF RecordFailure, Goto
<1>4. QED
  BY <1>1, <1>2, <1>3, KeptIf DEF RecordFailure

-----------------------------------------------------------------------------
(* A rescan installs its execution *)

LEMMA InstalledFields ==
  ASSUME row \in Row, NEW e \in Executions, row' = Installed(e)
  PROVE  /\ row' \in Row /\ row'.status = "scanning" /\ row'.exec = e
         /\ row'.cleanup = row.cleanup /\ row'.dest = row.dest
<1>1. NoRow.receipt \in [Units \union Stages -> Nat]
  BY DEF NoRow
<1>2. NoGate \in Gates /\ "scanning" \in Statuses
  BY DEF NoGate, Gate, Gates, Statuses
<1>3. QED
  BY <1>1, <1>2, BumpedFields, ZenonT(40) DEF Installed, Row

LEMMA InstalledKeeps ==
  ASSUME row \in Row, NEW e \in Executions, row' = Installed(e),
         row.status \in Rescannable, Attempt(e) = Attempt(row.exec) + 1
  PROVE  RowKept
<1>1. /\ row' \in Row /\ row'.status = "scanning" /\ row'.exec = e
      /\ row'.cleanup = row.cleanup /\ row'.dest = row.dest
  BY InstalledFields
<1>2. row.exec # e
  BY DEF Attempt, Row, Executions
<1>3. QED
  BY <1>1, <1>2 DEF RowKept, Sticks, Rescannable

LEMMA RescanInstallsKeeps ==
  ASSUME Inv, NEW e \in DOMAIN flow, RescanInstalls(e)
  PROVE  Kept
<1>1. row \in Row /\ stored \subseteq Remote /\ e \in Executions
  BY DEF Inv, TypeOK
<1>2. RowKept
  BY <1>1, SameRow, InstalledKeeps DEF RescanInstalls, StillAsked
<1>3. DOMAIN flow' = DOMAIN flow
  BY DEF RescanInstalls, TakesOver, Exits
<1>4. QED
  BY <1>1, <1>2, <1>3, KeptIf DEF RescanInstalls

LEMMA NextExecutionTyped ==
  ASSUME row \in Row, Attempt(row.exec) < MaxAttempts, JiraAssumption
  PROVE  NextExecution \in Executions
<1>1. row.exec \in Executions \cup {<<0, 0>>} /\ row.rev \in Nat
  BY DEF Row
<1>2. Attempt(row.exec) \in Nat
  BY <1>1 DEF Attempt, Executions
<1>3. MaxAttempts \in Nat
  BY DEF JiraAssumption
<1>4. Attempt(row.exec) + 1 \in 1..MaxAttempts
  BY <1>2, <1>3
<1>5. QED
  BY <1>1, <1>4 DEF NextExecution, Executions

LEMMA ExecutedDomain ==
  ASSUME NEW e \in Executions, flow' = Executed(e)
  PROVE  DOMAIN flow' = DOMAIN flow \cup {e}
<1>1. CASE e \in DOMAIN flow
  BY <1>1 DEF Executed
<1>2. CASE e \notin DOMAIN flow
  BY <1>2 DEF Executed
<1>3. QED
  BY <1>1, <1>2

LEMMA RescanKeeps ==
  ASSUME JiraAssumption, Inv, Rescan
  PROVE  Kept
<1>1. row \in Row /\ stored \subseteq Remote /\ DOMAIN flow \subseteq Executions
  BY DEF Inv, TypeOK
<1>2. row' = row /\ RowKept
  BY <1>1, SameRow DEF Rescan
<1>3. NextExecution \in Executions /\ <<"reset_import", row.rev + 1>> \in Cleanups
  BY <1>1, NextExecutionTyped, CleanupKeys DEF Rescan, Modes
<1>4. row.exec \in Executions \cup {<<0, 0>>}
  BY <1>1 DEF Row
<1>5. CASE row.dest
  <2>1. /\ cleaning' = CleanupExecuted(<<"reset_import", row.rev + 1>>) /\ flow' = flow
        /\ rescan' = [pc |-> "reset", key |-> <<"reset_import", row.rev + 1>>,
                      exec |-> row.exec]
        /\ Attempt(row.exec) < MaxAttempts
    BY <1>5 DEF Rescan
  <2>2. RescanTyped'
    BY <1>3, <1>4, <2>1 DEF RescanTyped
  <2>3. QED
    BY <1>1, <1>2, <1>3, <2>1, <2>2 DEF Rescan, Kept, Inv, TypeOK
<1>6. CASE ~row.dest
  <2>1. /\ flow' = Executed(NextExecution) /\ cleaning' = cleaning
        /\ rescan' = [pc |-> "begin", key |-> NextExecution, exec |-> row.exec]
    BY <1>6 DEF Rescan
  <2>2. DOMAIN flow' = DOMAIN flow \cup {NextExecution}
    BY <1>3, <2>1, ExecutedDomain
  <2>3. RescanTyped'
    BY <1>3, <1>4, <2>1, <2>2 DEF RescanTyped
  <2>4. QED
    BY <1>1, <1>2, <1>3, <2>1, <2>2, <2>3 DEF Rescan, Kept, Inv, TypeOK
<1>7. QED
  BY <1>5, <1>6

LEMMA ResetAwaitedKeeps ==
  ASSUME JiraAssumption, Inv, ResetAwaited
  PROVE  Kept
<1>1. /\ row \in Row /\ stored \subseteq Remote /\ DOMAIN flow \subseteq Executions
      /\ RescanTyped
  BY DEF Inv, TypeOK
<1>2. row' = row /\ RowKept
  BY <1>1, SameRow DEF ResetAwaited
<1>3. CASE flow' = flow /\ rescan' = Idle
  <2>1. RescanTyped'
    BY <1>3 DEF RescanTyped, Idle
  <2>2. QED
    BY <1>1, <1>2, <1>3, <2>1 DEF ResetAwaited, Kept, Inv, TypeOK
<1>4. CASE /\ Current(rescan.exec) /\ flow' = Executed(NextExecution)
           /\ rescan' = [rescan EXCEPT !.pc = "begin", !.key = NextExecution]
  <2>1. NextExecution \in Executions
    BY <1>1, <1>4, NextExecutionTyped DEF ResetAwaited, RescanTyped, Current
  <2>2. DOMAIN flow' = DOMAIN flow \cup {NextExecution}
    BY <1>4, <2>1, ExecutedDomain
  <2>3. RescanTyped'
    BY <1>1, <1>4, <2>1, <2>2 DEF RescanTyped
  <2>4. QED
    BY <1>1, <1>2, <1>4, <2>1, <2>2, <2>3 DEF ResetAwaited, Kept, Inv, TypeOK
<1>5. QED
  BY <1>3, <1>4 DEF ResetAwaited

LEMMA RescanBeginsKeeps ==
  ASSUME Inv, RescanBegins
  PROVE  Kept
<1>1. /\ row \in Row /\ stored \subseteq Remote /\ DOMAIN flow \subseteq Executions
      /\ rescan.key \in Executions
  BY DEF Inv, TypeOK, RescanTyped, RescanBegins
<1>2. RowKept
  <2>1. \/ row' = row
        \/ row' = Installed(rescan.key) /\ RescanAdmitted(rescan.key)
    BY DEF RescanBegins
  <2>2. CASE row' = row
    BY <1>1, <2>2, SameRow
  <2>3. CASE row' = Installed(rescan.key) /\ RescanAdmitted(rescan.key)
    BY <1>1, <2>3, InstalledKeeps DEF RescanAdmitted, CanRescan
  <2>4. QED
    BY <2>1, <2>2, <2>3
<1>3. DOMAIN flow' = DOMAIN flow
  BY DEF RescanBegins, Interrupted
<1>4. RescanTyped'
  BY DEF RescanBegins, RescanTyped, Idle
<1>5. QED
  BY <1>1, <1>2, <1>3, <1>4 DEF RescanBegins, Kept, Inv, TypeOK

-----------------------------------------------------------------------------
(* The commands of the user *)

LEMMA RunKeeps ==
  ASSUME Inv, Run
  PROVE  Kept
<1>1. row \in Row /\ stored \subseteq Remote /\ RescanTyped
  BY DEF Inv, TypeOK
<1>2. RowKept
  <2> DEFINE scanRetry == IF row.gate.tag = "Retry" THEN row.gate.phase = "scan"
                          ELSE ~row.scanned
             status == IF scanRetry THEN "scanning" ELSE "migrating"
             accepted == Bumped.accepted \/ ~scanRetry
  <2>1. row' = [Bumped EXCEPT !.status = status, !.accepted = accepted,
                              !.retryable = FALSE]
    BY DEF Run
  <2>2. status \in Statuses \ {"none", "succeeded"}
    BY DEF Statuses
  <2>3. accepted \in BOOLEAN
    BY <1>1, BumpedFields DEF Row
  <2>4. row.status \in {"ready", "reconnect_required", "failed"}
    BY DEF Run, CanRun
  <2> HIDE DEF scanRetry, status, accepted
  <2>5. QED
    BY <1>1, <2>1, <2>2, <2>3, <2>4, BumpedFields, ZenonT(40)
    DEF Row, RowKept, Sticks
<1>3. RescanTyped'
  BY <1>1 DEF Run, RescanTyped
<1>4. QED
  BY <1>1, <1>2, <1>3 DEF Run, Kept, Inv, TypeOK

LEMMA ConfigureKeeps ==
  ASSUME Inv, NEW complete \in BOOLEAN, Configure(complete)
  PROVE  Kept
<1>1. row \in Row /\ stored \subseteq Remote
  BY DEF Inv, TypeOK
<1>2. RowKept
  <2> DEFINE status == IF complete THEN "ready" ELSE "needs_configuration"
  <2>1. row' = [Bumped EXCEPT !.config = complete, !.retryable = FALSE,
                              !.status = status]
    BY DEF Configure
  <2>2. status \in Statuses \ {"none", "succeeded"}
    BY DEF Statuses
  <2>3. row.status \in {"needs_configuration", "ready", "failed"}
    BY DEF Configure, CanConfigure
  <2> HIDE DEF status
  <2>4. QED
    BY <1>1, <2>1, <2>2, <2>3, BumpedFields, ZenonT(40)
    DEF Row, RowKept, Sticks
<1>3. QED
  BY <1>1, <1>2, KeptIf DEF Configure

LEMMA CancelKeeps ==
  ASSUME Inv, Cancel
  PROVE  Kept
<1>1. row \in Row /\ stored \subseteq Remote /\ RescanTyped
  BY DEF Inv, TypeOK
<1>2. RowKept
  <2> DEFINE status == IF Bumped.status \in {"scanning", "migrating", "cancelling"}
                       THEN "cancelling" ELSE "cancelled"
  <2>1. row' = [Bumped EXCEPT !.status = status]
    BY DEF Cancel
  <2>2. status \in Statuses /\ status \in {"cancelling", "cancelled"}
    BY DEF Statuses
  <2>3. row.status \notin {"none", "cancelled", "succeeded"}
    BY DEF Cancel, CanCancel
  <2> HIDE DEF status
  <2>4. QED
    BY <1>1, <2>1, <2>2, <2>3, BumpedFields DEF Row, RowKept, Sticks
<1>3. RescanTyped'
  BY <1>1 DEF Cancel, RescanTyped
<1>4. QED
  BY <1>1, <1>2, <1>3 DEF Cancel, Kept, Inv, TypeOK

LEMMA CancellingKeeps ==
  ASSUME Inv, NEW c, CancelInterrupts(c) \/ CancelFinalizes(c)
  PROVE  Kept
<1>1. row \in Row /\ stored \subseteq Remote /\ RescanTyped
  BY DEF Inv, TypeOK
<1>2. RowKept
  BY <1>1, SameRow, CancelledKeeps DEF CancelInterrupts, CancelFinalizes
<1>3. DOMAIN flow' = DOMAIN flow
  BY DEF CancelInterrupts, CancelFinalizes, Interrupted
<1>4. RescanTyped'
  BY <1>1, <1>3 DEF CancelInterrupts, CancelFinalizes, RescanTyped
<1>5. QED
  BY <1>1, <1>2, <1>3, <1>4 DEF CancelInterrupts, CancelFinalizes, Kept, Inv, TypeOK

LEMMA RemovesKeep ==
  ASSUME JiraAssumption, Inv, RetainPublished \/ \E mode \in Removals : Remove(mode)
  PROVE  Kept
<1>1. row \in Row /\ stored \subseteq Remote /\ RescanTyped
  BY DEF Inv, TypeOK
<1>2. /\ UNCHANGED <<row, data, stored, flying, flow, signal, rescan, closing>>
      /\ \E k \in Cleanups : cleaning' = CleanupExecuted(k)
  <2>1. Removals \subseteq Modes
    BY DEF JiraAssumption, Modes
  <2>2. QED
    BY <1>1, <2>1, CleanupKeys DEF RetainPublished, Remove, Modes
<1>3. RowKept
  BY <1>1, <1>2, SameRow
<1>4. RescanTyped'
  BY <1>1, <1>2 DEF RescanTyped
<1>5. QED
  BY <1>1, <1>2, <1>3, <1>4 DEF Kept, Inv, TypeOK

-----------------------------------------------------------------------------
(* Objects land, the process stops *)

LEMMA LandsKeeps ==
  ASSUME Inv, NEW w \in flying, PutLands(w)
  PROVE  Kept
<1>1. row \in Row /\ stored' \subseteq Remote
  BY DEF Inv, TypeOK, PutLands
<1>2. RowKept
  BY <1>1, SameRow DEF PutLands
<1>3. QED
  BY <1>1, <1>2, KeptIf DEF PutLands

LEMMA CrashKeeps ==
  ASSUME Inv, Crash
  PROVE  Kept
<1>1. row \in Row /\ stored \subseteq Remote
  BY DEF Inv, TypeOK
<1>2. RowKept
  BY <1>1, SameRow DEF Crash
<1>3. RescanTyped'
  BY DEF Crash, RescanTyped, Idle
<1>4. DOMAIN flow' = DOMAIN flow /\ flying' \subseteq flying
  BY DEF Crash
<1>5. QED
  BY <1>1, <1>2, <1>3, <1>4 DEF Crash, Kept, Inv, TypeOK

-----------------------------------------------------------------------------
(* What makes, publishes and undoes an import *)

LEMMA StartCreateKeeps ==
  ASSUME JiraAssumption, Inv, NEW e \in DOMAIN flow, NEW lost \in BOOLEAN,
         StartCreate(e, lost)
  PROVE  Kept
<1>1. row \in Row /\ stored \subseteq Remote /\ e \in Executions /\ Gone
  BY DEF Inv, TypeOK
<1>2. RowKept
  <2>1. CASE Exists
    BY <1>1, <2>1, SameRow DEF StartCreate
  <2>2. CASE ~Exists
    <3>1. row = NoRow /\ row' = [row EXCEPT !.status = "scanning", !.exec = e]
      BY <1>1, <2>2 DEF StartCreate, Exists, Gone
    <3>2. row.status = "none" /\ "scanning" \in Statuses
      BY <2>2 DEF Exists, Statuses
    <3>3. QED
      BY <1>1, <3>1, <3>2 DEF Row, RowKept, Sticks
  <2>3. QED
    BY <2>1, <2>2
<1>3. DOMAIN flow' = DOMAIN flow
  BY DEF StartCreate, Goto
<1>4. QED
  BY <1>1, <1>2, <1>3, KeptIf DEF StartCreate

LEMMA FreeUndone ==
  ASSUME JiraAssumption, Inv, row'.cleanup = None, cleaning' = cleaning
  PROVE  Undone'
BY DEF JiraAssumption, Inv, TypeOK, Undone

\* Typing of a step that changes the project, its documents or its attachment.
LEMMA DataTyped ==
  ASSUME Inv, row' \in Row, DOMAIN flow' = DOMAIN flow, DOMAIN cleaning' = DOMAIN cleaning,
         flying' = flying, rescan' = rescan, stored' \subseteq stored,
         project' \in {"none", "hidden", "published"}, docs' \in BOOLEAN,
         upload' \in {"none", "pending", "live"}
  PROVE  TypeOK' /\ RescanTyped'
<1>1. TypeOK'
  BY DEF Inv, TypeOK, Row
<1>2. RescanTyped'
  BY DEF Inv, RescanTyped
<1>3. QED
  BY <1>1, <1>2

LEMMA EnsureHiddenProjectKeeps ==
  ASSUME JiraAssumption, Inv, NEW e \in DOMAIN flow, EnsureHiddenProject(e)
  PROVE  Inv' /\ Sticks
<1>1. row \in Row
  BY DEF Inv
<1>2. DOMAIN flow' = DOMAIN flow
  BY DEF EnsureHiddenProject, Returned, Exits
<1>3. CASE UNCHANGED <<row, project>>
  <2>1. Kept
    <3>1. stored' \subseteq Remote /\ RowKept
      BY <1>1, <1>3, SameRow DEF EnsureHiddenProject, Inv, TypeOK
    <3>2. QED
      BY <1>2, <1>3, <3>1, KeptIf DEF EnsureHiddenProject, data
  <2>2. QED
    BY <2>1, KeptKeeps DEF Kept, RowKept
<1>4. CASE /\ Migrating(e) /\ project # "published" /\ project' = "hidden"
           /\ row' = [row EXCEPT !.dest = TRUE]
  <2>1. /\ row' \in Row /\ row'.status = "migrating" /\ row.status = "migrating"
        /\ row'.cleanup = None /\ row'.dest = TRUE
    BY <1>1, <1>4 DEF Migrating, Free, Row
  <2>2. TypeOK' /\ RescanTyped'
    BY <1>2, <1>4, <2>1, DataTyped DEF EnsureHiddenProject, handlers, Inv, TypeOK
  <2>3. Undone'
    BY <2>1, FreeUndone DEF EnsureHiddenProject, handlers
  <2>4. Gone' /\ Bound' /\ VisibleIffSucceeded' /\ Sticks
    BY <1>4, <2>1
    DEF EnsureHiddenProject, Inv, Gone, Bound, VisibleIffSucceeded, Sticks
  <2>5. QED
    BY <2>1, <2>2, <2>3, <2>4 DEF Inv
<1>5. QED
  BY <1>3, <1>4 DEF EnsureHiddenProject

LEMMA MaterializeKeeps ==
  ASSUME JiraAssumption, Inv, NEW e \in DOMAIN flow,
         InsertAttachment(e) \/ WriteHiddenDocuments(e)
  PROVE  Inv' /\ Sticks
<1>1. row \in Row /\ row' = row /\ project' = project /\ cleaning' = cleaning
  BY DEF Inv, InsertAttachment, WriteHiddenDocuments, handlers
<1>2. DOMAIN flow' = DOMAIN flow
  BY DEF InsertAttachment, WriteHiddenDocuments, Returned, Exits
<1>3. CASE docs' = docs /\ upload' = upload
  <2>1. Kept
    <3>1. stored' \subseteq Remote /\ RowKept
      BY <1>1, SameRow DEF InsertAttachment, WriteHiddenDocuments, Inv, TypeOK
    <3>2. QED
      BY <1>1, <1>2, <1>3, <3>1, KeptIf
      DEF InsertAttachment, WriteHiddenDocuments, data
  <2>2. QED
    BY <2>1, KeptKeeps DEF Kept, RowKept
<1>4. CASE /\ Migrating(e) /\ project = "hidden"
           /\ \/ docs' = docs /\ upload' = "pending"
              \/ docs' = TRUE /\ upload' = upload
  <2>1. row.cleanup = None /\ row.dest = TRUE /\ row.status = "migrating"
    BY <1>1, <1>4 DEF Migrating, Free, Inv, Bound, Row
  <2>2. TypeOK' /\ RescanTyped'
    BY <1>1, <1>2, <1>4, DataTyped
    DEF InsertAttachment, WriteHiddenDocuments, handlers, Inv, TypeOK
  <2>3. Undone'
    BY <1>1, <2>1, FreeUndone
  <2>4. Gone' /\ Bound' /\ VisibleIffSucceeded' /\ Sticks
    BY <1>1, <1>4, <2>1 DEF Inv, Gone, Bound, VisibleIffSucceeded, Sticks
  <2>5. QED
    BY <1>1, <2>2, <2>3, <2>4 DEF Inv
<1>5. QED
  BY <1>3, <1>4 DEF InsertAttachment, WriteHiddenDocuments, CopyAdmitted

LEMMA PublishKeeps ==
  ASSUME JiraAssumption, Inv, NEW e \in DOMAIN flow, NEW lost \in BOOLEAN,
         PublishJiraMigrationAtomically(e, lost)
  PROVE  Inv' /\ Sticks
<1>1. row \in Row
  BY DEF Inv
<1>2. DOMAIN flow' = DOMAIN flow
  BY DEF PublishJiraMigrationAtomically, Goto, Exits
<1>3. CASE UNCHANGED <<row, project, upload>>
  <2>1. Kept
    <3>1. stored' \subseteq Remote /\ RowKept
      BY <1>1, <1>3, SameRow DEF PublishJiraMigrationAtomically, Inv, TypeOK
    <3>2. QED
      BY <1>2, <1>3, <3>1, KeptIf DEF PublishJiraMigrationAtomically, data
  <2>2. QED
    BY <2>1, KeptKeeps DEF Kept, RowKept
<1>4. CASE /\ Publishable(e) /\ project' = "published" /\ upload' = "live"
           /\ row' = [Bumped EXCEPT !.status = "succeeded", !.retryable = FALSE]
  <2>1. /\ row' \in Row /\ row'.status = "succeeded" /\ row.status = "migrating"
        /\ row'.cleanup = None /\ row'.dest = row.dest
    <3>1. "succeeded" \in Statuses
      BY DEF Statuses
    <3>2. QED
      BY <1>1, <1>4, <3>1, BumpedFields DEF Publishable, Migrating, Free, Row
  <2>2. TypeOK' /\ RescanTyped'
    BY <1>2, <1>4, <2>1, DataTyped
    DEF PublishJiraMigrationAtomically, handlers, Inv, TypeOK
  <2>3. Undone'
    BY <2>1, FreeUndone DEF PublishJiraMigrationAtomically, handlers
  <2>4. Gone' /\ Bound' /\ VisibleIffSucceeded' /\ Sticks
    BY <1>4, <2>1
    DEF Publishable, Inv, Gone, Bound, VisibleIffSucceeded, Sticks
  <2>5. QED
    BY <2>1, <2>2, <2>3, <2>4 DEF Inv
<1>5. QED
  BY <1>3, <1>4 DEF PublishJiraMigrationAtomically

-----------------------------------------------------------------------------
(* The cleanup *)

\* A stage leaves the row as it is, deletes only while its claim holds the row,
\* and has undone what it is past.
LEMMA StageKeeps ==
  ASSUME JiraAssumption, Inv, NEW k \in DOMAIN cleaning, NEW at, CleanTo(k, at),
         row' = row, UNCHANGED <<flying, flow, rescan>>, stored' \subseteq stored,
         project' # project => row.cleanup = k /\ project = "hidden" /\ project' = "none",
         docs' # docs =>
           row.cleanup = k /\ project' # "published" /\ docs = TRUE /\ docs' = FALSE,
         upload' # upload => row.cleanup = k /\ upload = "pending" /\ upload' = "none",
         row.cleanup = k /\ Mode(k) # "post_success" =>
           /\ at # "archive"
           /\ at \in {"documents", "project", "staging", "complete"}
                => upload' # "pending"
           /\ at \in {"project", "staging", "complete"}
                => (docs' => project' = "published")
           /\ at \in {"staging", "complete"} => project' # "hidden"
  PROVE  Inv' /\ Sticks
<1>1. row \in Row
  BY DEF Inv
<1>2. /\ DOMAIN cleaning' = DOMAIN cleaning /\ cleaning'[k] = at
      /\ \A j \in DOMAIN cleaning : j # k => cleaning'[j] = cleaning[j]
  BY DEF CleanTo
<1>3. TypeOK' /\ RescanTyped'
  BY <1>1, <1>2, DataTyped DEF Inv, TypeOK
<1>4. Undone'
  <2> SUFFICES ASSUME NEW j \in DOMAIN cleaning, row.cleanup = j,
                      Mode(j) # "post_success"
               PROVE  /\ cleaning'[j] # "archive"
                      /\ cleaning'[j] \in {"documents", "project", "staging", "complete"}
                           => upload' # "pending"
                      /\ cleaning'[j] \in {"project", "staging", "complete"}
                           => (docs' => project' = "published")
                      /\ cleaning'[j] \in {"staging", "complete"} => project' # "hidden"
    BY <1>2 DEF Undone
  <2>1. CASE j = k
    BY <1>2, <2>1
  <2>2. CASE j # k
    BY <1>2, <2>2 DEF Inv, Undone
  <2>3. QED
    BY <2>1, <2>2
<1>5. Gone' /\ Bound' /\ VisibleIffSucceeded' /\ Sticks
  BY DEF Inv, Gone, Bound, VisibleIffSucceeded, Sticks
<1>6. QED
  BY <1>1, <1>3, <1>4, <1>5 DEF Inv

\* While a cleanup of an import holds the row, a row without a destination has
\* nothing, and only a published project has an attachment that is live.
LEMMA ObjectsKeeps ==
  ASSUME JiraAssumption, Inv, NEW k \in DOMAIN cleaning, DeleteCopiedObjects(k)
  PROVE  Inv' /\ Sticks
<1>1. PICK at \in {"rows", "release"} : CleanTo(k, at)
  BY DEF DeleteCopiedObjects
<1>2. QED
  BY <1>1, StageKeeps DEF DeleteCopiedObjects, data

LEMMA RowsKeeps ==
  ASSUME JiraAssumption, Inv, NEW k \in DOMAIN cleaning, DeletePendingAttachments(k)
  PROVE  Inv' /\ Sticks
<1>1. upload # "none" => row.dest
  BY DEF Inv, Bound
<1>2. CASE Unpublished(k)
  <2>1. CleanTo(k, "documents") /\ upload' # "pending"
    BY <1>1, <1>2 DEF DeletePendingAttachments
  <2>2. QED
    BY <1>2, <2>1, StageKeeps DEF DeletePendingAttachments, Unpublished, Holds
<1>3. CASE ~Unpublished(k)
  <2>1. CleanTo(k, "release") /\ upload' = upload
    BY <1>3 DEF DeletePendingAttachments
  <2>2. QED
    BY <2>1, StageKeeps DEF DeletePendingAttachments
<1>4. QED
  BY <1>2, <1>3

LEMMA DocumentsKeeps ==
  ASSUME JiraAssumption, Inv, NEW k \in DOMAIN cleaning, DeleteHiddenDocuments(k)
  PROVE  Inv' /\ Sticks
<1>1. docs \in BOOLEAN /\ (docs => row.dest)
  BY DEF Inv, TypeOK, Bound
<1>2. CASE Unpublished(k)
  <2>1. CleanTo(k, "project") /\ docs' = FALSE /\ (row.dest => project # "published")
    BY <1>1, <1>2 DEF DeleteHiddenDocuments, Unpublished
  <2>2. row.cleanup = k /\ Mode(k) # "post_success" => upload # "pending"
    BY DEF DeleteHiddenDocuments, Cleaning, Inv, Undone
  <2>3. docs' # docs =>
          row.cleanup = k /\ project' # "published" /\ docs = TRUE /\ docs' = FALSE
    BY <1>1, <1>2, <2>1 DEF DeleteHiddenDocuments, Unpublished, Holds
  <2>4. QED
    BY <2>1, <2>2, <2>3, StageKeeps DEF DeleteHiddenDocuments
<1>3. CASE ~Unpublished(k)
  <2>1. CleanTo(k, "release") /\ docs' = docs
    BY <1>1, <1>3 DEF DeleteHiddenDocuments
  <2>2. QED
    BY <2>1, StageKeeps DEF DeleteHiddenDocuments
<1>4. QED
  BY <1>2, <1>3

LEMMA ProjectKeeps ==
  ASSUME JiraAssumption, Inv, NEW k \in DOMAIN cleaning, DeleteHiddenProject(k)
  PROVE  Inv' /\ Sticks
<1>1. project # "none" => row.dest
  BY DEF Inv, Bound
<1>2. CASE Unpublished(k)
  <2>1. PICK at \in {"staging", "complete"} : CleanTo(k, at)
    BY <1>2 DEF DeleteHiddenProject
  <2>2. project' # "hidden" /\ (project = "published" => project' = "published")
    BY <1>1, <1>2 DEF DeleteHiddenProject
  <2>3. row.cleanup = k /\ Mode(k) # "post_success" =>
          upload # "pending" /\ (docs => project = "published")
    BY DEF DeleteHiddenProject, Cleaning, Inv, Undone
  <2>4. QED
    BY <1>2, <2>1, <2>2, <2>3, StageKeeps DEF DeleteHiddenProject, Unpublished, Holds
<1>3. CASE ~Unpublished(k)
  <2>1. CleanTo(k, "release") /\ project' = project
    BY <1>3 DEF DeleteHiddenProject
  <2>2. QED
    BY <2>1, StageKeeps DEF DeleteHiddenProject
<1>4. QED
  BY <1>2, <1>3

LEMMA ArchiveKeeps ==
  ASSUME JiraAssumption, Inv, NEW k \in DOMAIN cleaning, VerifyPermanentArchive(k)
  PROVE  Inv' /\ Sticks
<1>1. PICK at \in {"staging", "release"} : CleanTo(k, at)
  BY DEF VerifyPermanentArchive
<1>2. row.cleanup = k => Mode(k) = "post_success"
  BY DEF VerifyPermanentArchive, Cleaning, Inv, Undone
<1>3. QED
  BY <1>1, <1>2, StageKeeps DEF VerifyPermanentArchive, data

LEMMA StagingKeeps ==
  ASSUME JiraAssumption, Inv, NEW k \in DOMAIN cleaning, DeletePrivateStaging(k)
  PROVE  Inv' /\ Sticks
<1>1. PICK at \in {"complete", "release"} : CleanTo(k, at)
  BY DEF DeletePrivateStaging
<1>2. row.cleanup = k /\ Mode(k) # "post_success" =>
        /\ upload # "pending" /\ (docs => project = "published")
        /\ project # "hidden"
  BY DEF DeletePrivateStaging, Cleaning, Inv, Undone
<1>3. QED
  BY <1>1, <1>2, StageKeeps DEF DeletePrivateStaging, data

LEMMA GivesUpKeeps ==
  ASSUME JiraAssumption, Inv, NEW k \in DOMAIN cleaning,
         CleanupFails(k) \/ ReleaseFails(k)
  PROVE  Inv' /\ Sticks
<1>1. PICK at \in {"release", "failed"} : CleanTo(k, at)
  BY DEF CleanupFails, ReleaseFails
<1>2. QED
  BY <1>1, StageKeeps DEF CleanupFails, ReleaseFails, data

\* A claim, its release, and the end of a cleanup that keeps the row.
LEMMA ClaimKeeps ==
  ASSUME JiraAssumption, Inv, NEW k \in DOMAIN cleaning, NEW at, CleanTo(k, at),
         row' \in Row, row'.status = row.status, Exists,
         row'.dest = row.dest \/ (project = "none" /\ ~docs /\ upload = "none"),
         row'.cleanup \in {None, k},
         \/ at \notin {"archive", "rows", "documents", "project", "staging", "complete"}
         \/ at = "archive" /\ Mode(k) = "post_success"
         \/ row'.cleanup = None,
         UNCHANGED <<data, stored, flying, flow, rescan>>
  PROVE  Inv' /\ Sticks
<1>1. /\ DOMAIN cleaning' = DOMAIN cleaning /\ cleaning'[k] = at
      /\ DOMAIN cleaning \subseteq Cleanups
  BY DEF CleanTo, Inv, TypeOK
<1>2. TypeOK' /\ RescanTyped'
  BY <1>1, DataTyped DEF Inv, TypeOK, data
<1>3. Undone'
  BY <1>1 DEF JiraAssumption, Undone
<1>4. Gone' /\ Bound' /\ VisibleIffSucceeded' /\ Sticks
  BY DEF Exists, Inv, Gone, Bound, VisibleIffSucceeded, Sticks, data
<1>5. QED
  BY <1>2, <1>3, <1>4 DEF Inv

LEMMA ClaimCleanupKeeps ==
  ASSUME JiraAssumption, Inv, NEW k \in DOMAIN cleaning, NEW lost \in BOOLEAN,
         ClaimCleanup(k, lost)
  PROVE  Inv' /\ Sticks
<1>1. PICK at \in {"release", "claim", "archive", "objects"} :
        CleanTo(k, at) /\ (at = "archive" => Mode(k) = "post_success")
  BY DEF ClaimCleanup
<1>2. CASE row' = row
  BY <1>1, <1>2, StageKeeps DEF ClaimCleanup, data
<1>3. CASE Claimable(k) /\ row' = [Bumped EXCEPT !.cleanup = k]
  <2>1. row \in Row /\ k \in Cleanups
    BY DEF Inv, TypeOK
  <2>2. /\ row' \in Row /\ row'.status = row.status /\ row'.dest = row.dest
        /\ row'.cleanup = k
    BY <1>3, <2>1, BumpedFields DEF Row
  <2>3. QED
    BY <1>1, <1>3, <2>2, ClaimKeeps DEF ClaimCleanup, Claimable
<1>4. QED
  BY <1>2, <1>3 DEF ClaimCleanup

LEMMA ReleaseKeeps ==
  ASSUME JiraAssumption, Inv, NEW k \in DOMAIN cleaning, ReleaseCleanup(k)
  PROVE  Inv' /\ Sticks
<1>1. CleanTo(k, "failed")
  BY DEF ReleaseCleanup
<1>2. CASE row' = row
  BY <1>1, <1>2, StageKeeps DEF ReleaseCleanup, data
<1>3. CASE Exists /\ row' = [Bumped EXCEPT !.cleanup = None]
  <2>1. /\ row' \in Row /\ row'.status = row.status /\ row'.dest = row.dest
        /\ row'.cleanup = None
    BY <1>3, BumpedFields DEF Inv, Row
  <2>2. QED
    BY <1>1, <1>3, <2>1, ClaimKeeps DEF ReleaseCleanup
<1>4. QED
  BY <1>2, <1>3 DEF ReleaseCleanup

LEMMA CompleteKeeps ==
  ASSUME JiraAssumption, Inv, NEW k \in DOMAIN cleaning, NEW lost \in BOOLEAN,
         CompleteCleanup(k, lost)
  PROVE  Inv' /\ Sticks
<1>1. PICK at \in {"release", "complete", "done"} : CleanTo(k, at)
  BY DEF CompleteCleanup
<1>2. row \in Row /\ DOMAIN cleaning' = DOMAIN cleaning
  BY <1>1 DEF Inv, CleanTo
<1>3. Mode(k) # "post_success" /\ Completable(k) =>
        project = "none" /\ ~docs /\ upload = "none"
  <2> SUFFICES ASSUME Mode(k) # "post_success", Completable(k)
               PROVE  project = "none" /\ ~docs /\ upload = "none"
    OBVIOUS
  <2>1. upload # "pending" /\ (docs => project = "published") /\ project # "hidden"
    BY DEF CompleteCleanup, Cleaning, Completable, Holds, Inv, Undone
  <2>2. row.status # "succeeded"
    BY DEF Completable, CleanupStatusesFor, Rescannable
  <2>3. QED
    BY <2>1, <2>2 DEF Inv, TypeOK, VisibleIffSucceeded
<1>4. CASE row' = row
  <2>1. row.cleanup = k /\ Mode(k) # "post_success" =>
          upload # "pending" /\ (docs => project = "published") /\ project # "hidden"
    BY DEF CompleteCleanup, Cleaning, Inv, Undone
  <2>2. QED
    BY <1>1, <1>4, <2>1, StageKeeps DEF CompleteCleanup, data
<1>5. CASE Completable(k) /\ Mode(k) \in Removals /\ row' = NoRow
  <2>1. project = "none" /\ ~docs /\ upload = "none"
    BY <1>3, <1>5 DEF JiraAssumption
  <2>2. row' \in Row /\ row'.status = "none" /\ row'.cleanup = None
    <3>1. NoGate \in Gates /\ "none" \in Statuses
      BY DEF NoGate, Gate, Gates, Statuses
    <3>2. QED
      BY <1>5, <3>1 DEF NoRow, Row
  <2>3. TypeOK' /\ RescanTyped'
    BY <1>2, <2>2, DataTyped DEF CompleteCleanup, Inv, TypeOK, data
  <2>4. Undone'
    BY <1>2, <2>2 DEF JiraAssumption, Inv, TypeOK, Undone
  <2>5. Gone' /\ Bound' /\ VisibleIffSucceeded' /\ Sticks
    BY <1>5, <2>1, <2>2
    DEF CompleteCleanup, Gone, Bound, VisibleIffSucceeded, Sticks, data
  <2>6. QED
    BY <2>2, <2>3, <2>4, <2>5 DEF Inv
<1>6. CASE Completable(k) /\ row' = [Bumped EXCEPT !.dest = FALSE, !.cleanup = None]
           /\ Mode(k) = "reset_import"
  <2>1. row' \in Row /\ row'.status = row.status /\ row'.cleanup = None
    BY <1>2, <1>6, BumpedFields DEF Row
  <2>2. QED
    BY <1>1, <1>3, <1>6, <2>1, ClaimKeeps DEF CompleteCleanup, Completable, Holds
<1>7. CASE Completable(k) /\ row' = [Bumped EXCEPT !.cleaned = TRUE, !.cleanup = None]
  <2>1. /\ row' \in Row /\ row'.status = row.status /\ row'.cleanup = None
        /\ row'.dest = row.dest
    BY <1>2, <1>7, BumpedFields DEF Row
  <2>2. QED
    BY <1>1, <1>7, <2>1, ClaimKeeps DEF CompleteCleanup, Completable, Holds
<1>8. QED
  BY <1>4, <1>5, <1>6, <1>7 DEF CompleteCleanup

-----------------------------------------------------------------------------
(* The theorems *)

LEMMA InitInv ==
  ASSUME JiraAssumption, Init
  PROVE  Inv
<1>1. row \in Row /\ row.dest = FALSE /\ row.status = "none"
  <2>1. NoGate \in Gates /\ "none" \in Statuses
    BY DEF NoGate, Gate, Gates, Statuses
  <2>2. QED
    BY <2>1 DEF Init, NoRow, Row
<1>2. RescanTyped
  BY DEF Init, RescanTyped, Idle
<1>3. DOMAIN flow \subseteq Executions /\ DOMAIN cleaning = {}
  <2>1. Create \in Executions
    BY DEF JiraAssumption, Create, Executions
  <2>2. QED
    BY <2>1 DEF Init
<1>4. TypeOK
  BY <1>1, <1>3 DEF Init, TypeOK, Row
<1>5. Gone /\ Bound /\ Undone /\ VisibleIffSucceeded
  BY <1>1, <1>3 DEF Init, Gone, Bound, Undone, VisibleIffSucceeded
<1>6. QED
  BY <1>1, <1>2, <1>4, <1>5 DEF Inv

LEMMA FlowKeeps ==
  ASSUME JiraAssumption, Inv, NEW e \in DOMAIN flow, FlowStep(e)
  PROVE  Inv' /\ Sticks
<1>1. CASE EnsureHiddenProject(e)
  BY <1>1, EnsureHiddenProjectKeeps
<1>2. CASE InsertAttachment(e) \/ WriteHiddenDocuments(e)
  BY <1>2, MaterializeKeeps
<1>3. CASE \E lost \in BOOLEAN : PublishJiraMigrationAtomically(e, lost)
  BY <1>3, PublishKeeps
<1>4. CASE \E u \in Units : UnitStep(e, u)
  <2>1. Kept
    BY <1>4, BeginUnitKeeps, SettleUnitKeeps, UnitFailsKeeps, ResumeScanKeeps,
       ProgressKeeps, ScanFailureKeeps DEF UnitStep
  <2>2. QED
    BY <2>1, KeptKeeps DEF Kept, RowKept
<1>5. CASE \/ \E lost \in BOOLEAN : StartCreate(e, lost) \/ CompleteScan(e, lost)
           \/ \E lost \in BOOLEAN, outcome \in Outcomes :
                RecordImportFailure(e, outcome, lost)
           \/ RescanInstalls(e) \/ BeginPreparation(e) \/ SettlePreparation(e)
           \/ BeginImport(e) \/ SettleImport(e) \/ CopyAttachment(e)
           \/ ResumeImport(e) \/ Finalize(e) \/ RecordFailure(e)
  <2>1. Kept
    BY <1>5, StartCreateKeeps, CompleteScanKeeps, ImportFailureKeeps,
       RescanInstallsKeeps, BeginPreparationKeeps, SettlePreparationKeeps,
       BeginImportKeeps, SettleImportKeeps, CopyAttachmentKeeps,
       ResumeImportKeeps, FinalizeKeeps, RecordFailureKeeps
  <2>2. QED
    BY <2>1, KeptKeeps DEF Kept, RowKept
<1>6. CASE \/ StartImport(e) \/ ReadAttempt(e) \/ AttachmentSent(e)
           \/ VerifyHiddenMaterialization(e) \/ ImportFails(e) \/ FinalizerFails(e)
           \/ RescanReads(e) \/ ObserveInterrupt(e)
           \/ \E exit \in {"fatal", "retryable"} : Breaks(e, exit)
  BY <1>6, UnfencedKeeps, KeptKeeps DEF Kept, RowKept
<1>7. QED
  BY <1>1, <1>2, <1>3, <1>4, <1>5, <1>6 DEF FlowStep

LEMMA CleanupKeeps ==
  ASSUME JiraAssumption, Inv, NEW k \in DOMAIN cleaning, CleanupStep(k)
  PROVE  Inv' /\ Sticks
BY ClaimCleanupKeeps, CompleteKeeps, ObjectsKeeps, RowsKeeps, DocumentsKeeps,
   ProjectKeeps, ArchiveKeeps, StagingKeeps, GivesUpKeeps, ReleaseKeeps
   DEF CleanupStep

LEMMA NextKeeps ==
  ASSUME JiraAssumption, Inv, Next
  PROVE  Inv' /\ Sticks
<1>1. CASE \E e \in DOMAIN flow : FlowStep(e)
  BY <1>1, FlowKeeps
<1>2. CASE \E k \in DOMAIN cleaning : CleanupStep(k)
  BY <1>2, CleanupKeeps
<1>3. CASE HandlerStep \/ Command \/ Lands \/ Crash
  <2>1. Kept
    BY <1>3, CancellingKeeps, ResetAwaitedKeeps, RescanBeginsKeeps, RunKeeps,
       CancelKeeps, RescanKeeps, RemovesKeep, ConfigureKeeps, LandsKeeps, CrashKeeps
    DEF HandlerStep, Command, Lands
  <2>2. QED
    BY <2>1, KeptKeeps DEF Kept, RowKept
<1>4. QED
  BY <1>1, <1>2, <1>3 DEF Next

LEMMA StutterKeeps ==
  ASSUME Inv, UNCHANGED vars
  PROVE  Inv' /\ Sticks
<1>1. /\ row' = row /\ project' = project /\ docs' = docs /\ upload' = upload
      /\ stored' = stored /\ flying' = flying /\ flow' = flow
      /\ cleaning' = cleaning /\ rescan' = rescan
  BY DEF vars
<1>2. TypeOK' /\ RescanTyped' /\ Gone' /\ Bound'
  BY <1>1 DEF Inv, TypeOK, RescanTyped, Gone, Bound
<1>3. Undone' /\ VisibleIffSucceeded' /\ Sticks
  BY <1>1 DEF Inv, Undone, VisibleIffSucceeded, Sticks
<1>4. QED
  BY <1>1, <1>2, <1>3 DEF Inv

THEOREM Invariance == Spec => []Inv
<1>1. Init => Inv
  BY JiraAssumption, InitInv
<1>2. Inv /\ [Next]_vars => Inv'
  BY JiraAssumption, NextKeeps, StutterKeeps
<1>3. QED
  BY <1>1, <1>2, PTL DEF Spec

\* The state of a migration always has the shape of its types.
THEOREM TypeCorrect == Spec => []TypeOK
<1>1. Inv => TypeOK
  BY DEF Inv
<1>2. QED
  BY <1>1, Invariance, PTL

\* The project is published exactly when the row says succeeded, and its
\* attachment is live only then.
THEOREM PublicationIsTheRow == Spec => []VisibleIffSucceeded
<1>1. Inv => VisibleIffSucceeded
  BY DEF Inv
<1>2. QED
  BY <1>1, Invariance, PTL

\* Once the row is deleted there is no project, no document and no row of an
\* attachment that it had made.
THEOREM RemovalIsComplete == Spec => []NothingLeftBehind
<1>1. Inv => NothingLeftBehind
  BY DEF Inv, Gone, Bound, NothingLeftBehind, Exists, NoRow, TypeOK
<1>2. QED
  BY <1>1, Invariance, PTL

\* Only a new attempt, or the removal of the row, leaves an accepted
\* cancellation.
THEOREM CancellationSticks == Spec => CancelSticks
<1>1. Inv /\ [Next]_vars => [Sticks]_vars
  BY JiraAssumption, NextKeeps, StutterKeeps
<1>2. Sticks <=> (row.status \in {"cancelling", "cancelled"} =>
                   \/ row'.status \in {"cancelling", "cancelled", "none"}
                   \/ row'.exec # row.exec)
  BY DEF Sticks
<1>3. QED
  BY <1>1, <1>2, Invariance, PTL DEF Spec, CancelSticks

-----------------------------------------------------------------------------
(* What a superseded execution may do *)

Fenced == UNCHANGED <<row, project, docs, upload>>

LEMMA StaleStep ==
  ASSUME NEW e \in DOMAIN flow, FlowStep(e), ~Current(e),
         flow[e].pc \notin {"start", "install"}
  PROVE  Fenced
<1>1. CASE \E u \in Units : UnitStep(e, u)
  BY <1>1 DEF UnitStep, BeginUnit, BeginAccepted, SettleUnit, SettleAccepted,
              UnitFails, ResumeScan, RecordScanProgress, ProgressAccepted,
              RecordScanFailure, Fenced, data
<1>2. CASE \/ \E lost \in BOOLEAN : StartCreate(e, lost)
           \/ RescanReads(e) \/ RescanInstalls(e)
  BY <1>2 DEF StartCreate, RescanReads, RescanInstalls, Running
<1>3. CASE \E lost \in BOOLEAN : CompleteScan(e, lost)
  BY <1>3 DEF CompleteScan, Completes, Fenced, data
<1>4. CASE \E lost \in BOOLEAN : PublishJiraMigrationAtomically(e, lost)
  BY <1>4 DEF PublishJiraMigrationAtomically, Publishable, Migrating, Fenced
<1>5. CASE \E lost \in BOOLEAN, outcome \in Outcomes :
             RecordImportFailure(e, outcome, lost)
  BY <1>5 DEF RecordImportFailure, Fenced, data
<1>6. CASE \/ BeginPreparation(e) \/ SettlePreparation(e) \/ BeginImport(e)
           \/ SettleImport(e)
  BY <1>6 DEF BeginPreparation, BeginAccepted, SettlePreparation, SettleAccepted,
              BeginImport, SettleImport, Fenced, data
<1>7. CASE \/ EnsureHiddenProject(e) \/ InsertAttachment(e) \/ WriteHiddenDocuments(e)
  BY <1>7 DEF EnsureHiddenProject, InsertAttachment, CopyAdmitted,
              WriteHiddenDocuments, Migrating, Fenced
<1>8. CASE \/ StartImport(e) \/ ReadAttempt(e) \/ AttachmentSent(e)
           \/ CopyAttachment(e) \/ VerifyHiddenMaterialization(e)
           \/ ImportFails(e) \/ FinalizerFails(e) \/ ObserveInterrupt(e)
           \/ \E exit \in {"fatal", "retryable"} : Breaks(e, exit)
  BY <1>8 DEF StartImport, ReadAttempt, AttachmentSent, CopyAttachment,
              VerifyHiddenMaterialization, ImportFails, FinalizerFails,
              ObserveInterrupt, Breaks, Fenced, data
<1>9. CASE ResumeImport(e) \/ Finalize(e) \/ RecordFailure(e)
  BY <1>9 DEF ResumeImport, Finalize, Cancelling, RecordFailure, Fenced, data
<1>10. QED
  BY <1>1, <1>2, <1>3, <1>4, <1>5, <1>6, <1>7, <1>8, <1>9 DEF FlowStep

LEMMA OtherStep ==
  ASSUME NEW x \in DOMAIN flow, FlowStep(x), NEW e \in DOMAIN flow, e # x,
         flow'[e] # flow[e], ~Current(e)
  PROVE  Fenced
<1>1. CASE RescanReads(x) \/ RescanInstalls(x)
  <2>1. CASE RescanInstalls(x) /\ StillAsked(x)
    <3>1. e = row.exec
      BY <2>1 DEF RescanInstalls, TakesOver, Superseded
    <3>2. QED
      BY <2>1, <3>1 DEF StillAsked, Rescannable, Current, Exists
  <2>2. CASE RescanReads(x) \/ ~StillAsked(x)
    BY <1>1, <2>2 DEF RescanReads, RescanInstalls, Fenced, data
  <2>3. QED
    BY <1>1, <2>1, <2>2
<1>2. CASE \E u \in Units : UnitStep(x, u)
  BY <1>2, ZenonT(40)
          DEF UnitStep, BeginUnit, SettleUnit, UnitFails, ResumeScan,
              RecordScanProgress, RecordScanFailure, UnitTo, Exits
<1>3. CASE /\ FlowStep(x) /\ ~RescanReads(x) /\ ~RescanInstalls(x)
           /\ ~\E u \in Units : UnitStep(x, u)
  <2>1. flow'[e] = flow[e]
    BY <1>3
    DEF FlowStep, StartCreate, CompleteScan, PublishJiraMigrationAtomically,
        RecordImportFailure, StartImport, ReadAttempt,
        BeginPreparation, SettlePreparation, BeginImport, EnsureHiddenProject,
        CopyAttachment, AttachmentSent, InsertAttachment, WriteHiddenDocuments,
        VerifyHiddenMaterialization, SettleImport, ImportFails, ResumeImport,
        Breaks, ObserveInterrupt, Finalize, RecordFailure, FinalizerFails,
        Goto, Exits, Returned
  <2>2. QED
    BY <2>1
<1>4. QED
  BY <1>1, <1>2, <1>3

LEMMA StaleIsFenced ==
  ASSUME Next, NEW e \in DOMAIN flow, ~Current(e), flow'[e] # flow[e],
         flow[e].pc \notin {"start", "install"}, UNCHANGED rescan
  PROVE  Fenced
<1>1. CASE \E x \in DOMAIN flow : FlowStep(x)
  BY <1>1, StaleStep, OtherStep
<1>2. CASE \E k \in DOMAIN cleaning : CleanupStep(k)
  <2>1. flow' = flow
    BY <1>2
    DEF CleanupStep, ClaimCleanup, CompleteCleanup, DeleteCopiedObjects,
        DeletePendingAttachments, DeleteHiddenDocuments, DeleteHiddenProject,
        VerifyPermanentArchive, DeletePrivateStaging, CleanupFails,
        ReleaseCleanup, ReleaseFails
  <2>2. QED
    BY <2>1
<1>3. CASE HandlerStep
  BY <1>3 DEF HandlerStep, CancelInterrupts, CancelFinalizes, ResetAwaited,
              RescanBegins, Idle, Fenced, data
<1>4. CASE Command
  <2>1. flow' = flow \/ Rescan
    BY <1>4 DEF Command, Run, Cancel, RetainPublished, Configure, Remove
  <2>2. QED
    BY <2>1 DEF Rescan, Fenced, data
<1>5. CASE Lands \/ Crash
  BY <1>5 DEF Lands, PutLands, Crash, Fenced, data
<1>6. QED
  BY <1>1, <1>2, <1>3, <1>4, <1>5 DEF Next

\* Nothing that a superseded execution still does reaches the row, the project,
\* its documents or its attachment: each of its writes is fenced by the row.
THEOREM StaleExecutionsAreFenced == Spec => SupersededIsPowerless
<1> DEFINE Harmless ==
      \A e \in DOMAIN flow :
        (~Current(e) /\ flow'[e] # flow[e]
           /\ flow[e].pc \notin {"start", "install"} /\ UNCHANGED rescan)
          => UNCHANGED <<row, project, docs, upload>>
<1>1. [Next]_vars => [Harmless]_vars
  BY StaleIsFenced DEF Fenced
<1>2. QED
  BY <1>1, PTL DEF Spec, SupersededIsPowerless

-----------------------------------------------------------------------------
(* Who holds the row.  An execution at work was once the one of the row, which *)
(* has moved on since it was asked for (Late): it cannot be installed again    *)
(* under its own work.  A removal starts the count of revisions anew, so this  *)
(* is said of rows that are created while no execution is at work.             *)

AtWork(e) ==
  \/ \E u \in Units : At(e, u, "writing")
  \/ Running(e, Importing \ {"read"})

\* A row is created, or created again after a removal, under no execution that
\* still writes or imports.
CreatedOverNobody ==
  ~Exists /\ Exists' => \A e \in DOMAIN flow : ~AtWork(e)

Ats   == {"todo", "writing", "stored", "failing", "waiting", "done"}
Nexts == {"prepare", "hidden", "copy", "documents", "verify", "settle"}
Pcs   == Live \cup {"closing", "recording", "ended"}
Flows ==
  [pc : Pcs, unit : [Units -> [at : Ats, seq : Nat]], next : Nexts, stage : Stages,
   seq : Nat, exit : {"none", "fatal", "retryable", "interrupted", "success"},
   stop : BOOLEAN]

\* The row has moved on since its execution was asked for.
Asked ==
  Exists => /\ row.exec # <<0, 0>>
            /\ row.exec # Create => row.rev > AskedAt(row.exec)
Late(e)      == Exists /\ AtWork(e) /\ e # Create => row.rev > AskedAt(e)
Untouched(e) == Running(e, {"start", "install"}) =>
                  \A u \in Units : flow[e].unit[u].at # "writing"
OneWriter(e) == \A u, v \in Units :
                  flow[e].unit[u].at = "writing" /\ flow[e].unit[v].at = "writing"
                    => u = v
\* An import is under a row that migrates, or that was published or cancelled.
ImportStatuses == {"migrating", "succeeded", "cancelling", "cancelled"}
Imports(e) == Current(e) /\ Running(e, Importing \ {"read"}) =>
                row.status \in ImportStatuses
Named(e) == Current(e) /\ Inside(e) =>
               row.status = "succeeded" \/ (Free /\ row.writes = e)

Fine(e) == Late(e) /\ Untouched(e) /\ OneWriter(e) /\ Imports(e) /\ Named(e)
Held == /\ \A e \in DOMAIN flow : flow[e] \in Flows
        /\ Asked
        /\ \A e \in DOMAIN flow : Fine(e)

\* The step of an execution: it leaves the others as they are.
Alone(e) ==
  /\ DOMAIN flow' = DOMAIN flow /\ flow'[e] \in Flows
  /\ \A x \in DOMAIN flow : x # e => flow'[x] = flow[x]
MovesTo(e, pc) ==
  Alone(e) /\ flow'[e].pc = pc /\ flow'[e].unit = flow[e].unit
MovesUnit(e, u, at) ==
  /\ Alone(e) /\ flow'[e].pc = flow[e].pc /\ flow'[e].unit[u].at = at
  /\ \A v \in Units : v # u => flow'[e].unit[v] = flow[e].unit[v]

\* The row stays the row of its execution, and does not go back.
Onward == /\ row'.exec = row.exec /\ row'.rev >= row.rev
          /\ row'.status = "none" <=> row.status = "none"
\* What does not disturb the execution of the row.
Gentle == /\ Onward
          /\ row.status = "succeeded" => row'.status = "succeeded"
          /\ row.scanned => row'.scanned
          /\ row.cleanup = None => row'.cleanup = None
          /\ row'.writes = row.writes
Mild == Gentle /\ (row.status \in ImportStatuses => row'.status \in ImportStatuses)

LEMMA GotoMoves ==
  ASSUME NEW e \in DOMAIN flow, flow[e] \in Flows, NEW pc \in Pcs, Goto(e, pc)
  PROVE  MovesTo(e, pc)
<1>1. flow'[e] = [flow[e] EXCEPT !.pc = pc]
  BY DEF Goto
<1>2. flow'[e] \in Flows /\ flow'[e].pc = pc /\ flow'[e].unit = flow[e].unit
  BY <1>1 DEF Flows
<1>3. QED
  BY <1>2 DEF MovesTo, Alone, Goto

LEMMA ExitsMoves ==
  ASSUME NEW e \in DOMAIN flow, flow[e] \in Flows,
         NEW exit \in {"fatal", "retryable", "interrupted", "success"}, Exits(e, exit)
  PROVE  MovesTo(e, "closing")
<1>1. flow'[e] = [flow[e] EXCEPT !.pc = "closing", !.exit = exit]
  BY DEF Exits
<1>2. /\ flow'[e] \in Flows /\ flow'[e].pc = "closing"
      /\ flow'[e].unit = flow[e].unit
  BY <1>1 DEF Flows, Pcs
<1>3. QED
  BY <1>2 DEF MovesTo, Alone, Exits

LEMMA ReturnedMoves ==
  ASSUME NEW e \in DOMAIN flow, flow[e] \in Flows, NEW next \in Nexts,
         Returned(e, next)
  PROVE  MovesTo(e, next)
<1>1. flow'[e] = [flow[e] EXCEPT !.pc = next, !.next = next]
  BY DEF Returned
<1>2. next \in Pcs
  BY DEF Nexts, Pcs, Live, Importing
<1>3. flow'[e] \in Flows /\ flow'[e].pc = next /\ flow'[e].unit = flow[e].unit
  BY <1>1, <1>2 DEF Flows
<1>4. QED
  BY <1>3 DEF MovesTo, Alone, Returned

LEMMA UnitMoves ==
  ASSUME NEW e \in DOMAIN flow, flow[e] \in Flows, NEW u \in Units, NEW at \in Ats,
         NEW seq \in Nat, UnitTo(e, u, at, seq)
  PROVE  MovesUnit(e, u, at)
<1>1. flow'[e] = [flow[e] EXCEPT !.unit = [flow[e].unit EXCEPT
                                            ![u] = [at |-> at, seq |-> seq]]]
  BY DEF UnitTo
<1>2. flow[e].unit \in [Units -> [at : Ats, seq : Nat]]
  BY DEF Flows
<1>3. [flow[e].unit EXCEPT ![u] = [at |-> at, seq |-> seq]]
        \in [Units -> [at : Ats, seq : Nat]]
  BY <1>2
<1>4. /\ flow'[e] \in Flows /\ flow'[e].pc = flow[e].pc
      /\ flow'[e].unit = [flow[e].unit EXCEPT ![u] = [at |-> at, seq |-> seq]]
  BY <1>1, <1>3 DEF Flows
<1>5. QED
  BY <1>2, <1>4 DEF MovesUnit, Alone, UnitTo

\* An execution that does not move is disturbed by no mild step of the row, and
\* by no step at all of a row that is another's.
LEMMA StaysFine ==
  ASSUME NEW x, Fine(x), x \in DOMAIN flow, x \in DOMAIN flow',
         row.rev \in Nat, row'.rev \in Nat, x \in Executions,
         flow'[x].pc = flow[x].pc, flow'[x].unit = flow[x].unit,
         Mild \/ (Onward /\ ~Current(x))
  PROVE  Fine(x)'
<1>1. AskedAt(x) \in Nat
  BY DEF Executions, AskedAt
<1>2. /\ AtWork(x)' <=> AtWork(x)
      /\ \A pcs : Running(x, pcs)' <=> Running(x, pcs)
  BY DEF AtWork, Running, At
<1>3. Exists' <=> Exists
  BY DEF Mild, Gentle, Onward, Exists
<1>4. Current(x)' <=> Current(x)
  BY <1>3 DEF Mild, Gentle, Onward, Current
<1>5. Late(x)'
  BY <1>1, <1>2, <1>3 DEF Fine, Late, Mild, Gentle, Onward
<1>6. Untouched(x)' /\ OneWriter(x)'
  BY DEF Fine, Untouched, OneWriter, Running
<1>7. Imports(x)'
  BY <1>4 DEF Fine, Imports, Mild, Gentle, Onward, Running
<1>8. Named(x)'
  BY <1>4 DEF Fine, Named, Mild, Gentle, Onward, Inside, Running, At, Free
<1>9. QED
  BY <1>5, <1>6, <1>7, <1>8 DEF Fine

\* An execution that is out of its scan and of its import disturbs nothing.
LEMMA RestsFine ==
  ASSUME NEW x, x \in DOMAIN flow', OneWriter(x)',
         \/ \A u \in Units : flow'[x].unit[u].at # "writing"
         \/ flow'[x].pc \notin {"start", "install", "scan"},
         flow'[x].pc \notin Importing \ {"read"}
  PROVE  Fine(x)'
<1>1. ~AtWork(x)'
  BY DEF AtWork, Running, At
<1>2. ~Inside(x)'
  BY DEF Inside, Running, At, Importing
<1>3. QED
  BY <1>1, <1>2 DEF Fine, Late, Untouched, Imports, Named, Running

LEMMA OthersFine ==
  ASSUME Inv, Held, row' \in Row, NEW e \in DOMAIN flow, Alone(e), Onward,
         Current(e) \/ Mild, Fine(e)'
  PROVE  Held'
<1>1. row.rev \in Nat /\ row'.rev \in Nat /\ DOMAIN flow \subseteq Executions
      /\ row.exec \in Executions \cup {<<0, 0>>}
  BY DEF Inv, TypeOK, Row
<1>2. ASSUME NEW x \in DOMAIN flow, x # e
      PROVE  Fine(x)'
  BY <1>1, <1>2, StaysFine DEF Held, Alone, Current
<1>3. Asked'
  <2>1. Exists => row.exec \in Executions
    BY <1>1 DEF Held, Asked
  <2>2. \A x \in Executions : AskedAt(x) \in Nat
    BY DEF Executions, AskedAt
  <2>3. QED
    BY <1>1, <2>1, <2>2 DEF Held, Asked, Onward, Exists
<1>4. QED
  BY <1>2, <1>3 DEF Held, Alone

-----------------------------------------------------------------------------
(* The steps of a scan *)

LEMMA SameIsMild ==
  ASSUME row \in Row, row' = row
  PROVE  Mild
BY DEF Row, Mild, Gentle, Onward

LEMMA BumpedMore ==
  ASSUME row \in Row
  PROVE  /\ Bumped \in Row /\ Bumped.rev = row.rev + 1 /\ Bumped.rev >= row.rev
         /\ Bumped.exec = row.exec /\ Bumped.status = row.status
         /\ Bumped.scanned = row.scanned /\ Bumped.cleanup = row.cleanup
         /\ Bumped.writes = row.writes /\ Bumped.receipt = row.receipt
         /\ Bumped.counted = row.counted
<1>1. row.rev \in Nat
  BY DEF Row
<1>2. row.rev + 1 \in Nat /\ row.rev + 1 >= row.rev
  BY <1>1
<1>3. QED
  BY <1>2 DEF Bumped, Row

LEMMA ReceiptMore ==
  ASSUME row \in Row, NEW op, NEW seq \in Nat
  PROVE  /\ Receipt(op, seq) \in Row /\ Receipt(op, seq).rev = Bumped.rev
         /\ Receipt(op, seq).exec = Bumped.exec
         /\ Receipt(op, seq).status = Bumped.status
         /\ Receipt(op, seq).scanned = Bumped.scanned
         /\ Receipt(op, seq).cleanup = Bumped.cleanup
         /\ Receipt(op, seq).writes = Bumped.writes
<1>1. [Bumped.receipt EXCEPT ![op] = seq] \in [Units \union Stages -> Nat]
  BY BumpedMore DEF Row
<1>2. QED
  BY <1>1, BumpedMore DEF Receipt, Row

\* A row that is edited after its revision was counted.
LEMMA EditedGently ==
  ASSUME row \in Row, NEW b, b = Bumped, row'.rev = b.rev, row'.exec = b.exec,
         row'.scanned = b.scanned \/ row'.scanned = TRUE,
         row'.cleanup = b.cleanup, row'.writes = b.writes,
         row'.status = "none" <=> row.status = "none",
         row.status = "succeeded" => row'.status = "succeeded"
  PROVE  Gentle
BY BumpedMore DEF Gentle, Onward

\* A unit that is not written disturbs nothing that its execution was in.
LEMMA UnitFine ==
  ASSUME Inv, Held, row' \in Row, NEW e \in DOMAIN flow, NEW u \in Units,
         NEW at \in Ats \ {"writing"}, Running(e, {"scan"}), MovesUnit(e, u, at),
         Gentle, Current(e) \/ row' = row
  PROVE  Held'
<1>1. /\ row \in Row /\ e \in Executions /\ row.rev \in Nat /\ row'.rev \in Nat
      /\ Fine(e)
  BY DEF Inv, TypeOK, Row, Held
<1>2. AskedAt(e) \in Nat
  BY <1>1 DEF Executions, AskedAt
<1>3. \A v \in Units : flow'[e].unit[v].at = "writing" => flow[e].unit[v].at = "writing"
  BY DEF MovesUnit
<1>4. e \in DOMAIN flow' /\ flow'[e].pc = "scan" /\ flow[e].pc = "scan"
  BY DEF MovesUnit, Alone, Running
<1>5. (Exists' <=> Exists) /\ (Current(e)' <=> Current(e))
  BY DEF Gentle, Onward, Exists, Current
<1>6. AtWork(e)' => AtWork(e)
  BY <1>3, <1>4 DEF AtWork, At, Running, Importing
<1>7. Late(e)'
  BY <1>1, <1>2, <1>5, <1>6 DEF Fine, Late, Gentle, Onward
<1>8. Untouched(e)' /\ Imports(e)'
  BY <1>4 DEF Untouched, Imports, Running, Importing
<1>9. OneWriter(e)'
  BY <1>1, <1>3 DEF Fine, OneWriter
<1>10. Named(e)'
  <2>1. Inside(e)' => Inside(e)
    BY <1>3, <1>4 DEF Inside, At, Running, Gentle
  <2>2. QED
    BY <1>1, <1>5, <2>1 DEF Fine, Named, Gentle, Free
<1>11. Fine(e)'
  BY <1>7, <1>8, <1>9, <1>10 DEF Fine
<1>12. QED
  BY <1>1, <1>11, OthersFine, SameIsMild DEF MovesUnit, Gentle

\* An execution that leaves its scan or its import for its end, or for a wait.
LEMMA LeavesFine ==
  ASSUME Inv, Held, row' \in Row, NEW e \in DOMAIN flow,
         NEW pc \in Pcs \ {"start", "install", "scan"}, pc \notin Importing \ {"read"},
         MovesTo(e, pc), Onward, Current(e) \/ row' = row
  PROVE  Held'
<1>1. OneWriter(e)'
  BY DEF Held, Fine, OneWriter, MovesTo
<1>2. Fine(e)'
  BY <1>1, RestsFine DEF MovesTo, Alone
<1>3. QED
  BY <1>2, OthersFine, SameIsMild DEF MovesTo, Inv

LEMMA FatalFine ==
  ASSUME Inv, Held, NEW e \in DOMAIN flow, row' = row,
         \E exit \in {"fatal", "retryable", "interrupted", "success"} : Exits(e, exit)
  PROVE  Held'
<1>1. MovesTo(e, "closing")
  BY ExitsMoves DEF Held
<1>2. "closing" \in Pcs /\ "closing" \notin Importing
  BY DEF Pcs, Importing
<1>3. QED
  BY <1>1, <1>2, LeavesFine, SameIsMild DEF Inv, Mild, Gentle

LEMMA CurrentAsked ==
  ASSUME Held, NEW e, Current(e), e # Create
  PROVE  row.rev > AskedAt(e)
BY DEF Held, Asked, Current

LEMMA BeginUnitHolds ==
  ASSUME JiraAssumption, Inv, Held, NEW e \in DOMAIN flow, NEW u \in Units,
         BeginUnit(e, u)
  PROVE  Held'
<1>1. /\ row \in Row /\ e \in Executions /\ flow[e] \in Flows
      /\ flow[e].pc = "scan"
  BY DEF Inv, TypeOK, Held, BeginUnit, At, Running
<1>2. CASE BeginAccepted(e)
  <2>1. UnitTo(e, u, "writing", 0) /\ row' = Begun(e) /\ Current(e)
    BY <1>2 DEF BeginUnit, BeginAccepted
  <2>2. MovesUnit(e, u, "writing")
    BY <1>1, <2>1, UnitMoves DEF Ats
  <2>3. /\ row' \in Row /\ Onward /\ row'.rev = row.rev /\ row'.cleanup = row.cleanup
        /\ row'.status = row.status /\ row'.scanned = row.scanned
    BY <1>1, <2>1 DEF Begun, Row, Onward
  <2>4. flow'[e].pc = "scan" /\ e \in DOMAIN flow'
    BY <1>1, <2>2 DEF MovesUnit, Alone
  <2>5. Late(e)'
    BY <2>1, <2>3, CurrentAsked DEF Late
  <2>6. Untouched(e)' /\ Imports(e)'
    BY <2>4 DEF Untouched, Imports, Running, Importing
  <2>7. OneWriter(e)'
    BY <2>2 DEF OneWriter, MovesUnit, BeginUnit, WriterFree
  <2>8. Named(e)'
    <3>1. CASE row.writes = None /\ Rewrites
      <4>1. row.scanned \/ row.status = "succeeded"
        BY <3>1 DEF Rewrites
      <4>2. Inside(e)' => ~row.scanned
        BY <2>3, <2>4 DEF Inside, Running
      <4>3. QED
        BY <2>3, <4>1, <4>2 DEF Named
    <3>2. CASE ~(row.writes = None /\ Rewrites)
      <4>1. row'.writes = e
        BY <1>1, <2>1, <3>2 DEF Begun, Row
      <4>2. QED
        BY <1>2, <2>3, <4>1 DEF Named, BeginAccepted, Free
    <3>3. QED
      BY <3>1, <3>2
  <2>9. Fine(e)'
    BY <2>5, <2>6, <2>7, <2>8 DEF Fine
  <2>10. QED
    BY <2>1, <2>2, <2>3, <2>9, OthersFine DEF MovesUnit
<1>3. CASE ~BeginAccepted(e)
  <2>1. MovesUnit(e, u, "failing") /\ row' = row
    BY <1>1, <1>3, UnitMoves DEF BeginUnit, Ats
  <2>2. QED
    BY <1>1, <2>1, UnitFine, SameIsMild DEF Mild, Ats, BeginUnit, At, Running
<1>4. QED
  BY <1>2, <1>3

LEMMA SettleUnitHolds ==
  ASSUME Inv, Held, NEW e \in DOMAIN flow, NEW u \in Units, SettleUnit(e, u)
  PROVE  Held'
<1>1. /\ row \in Row /\ flow[e] \in Flows /\ Running(e, {"scan"})
      /\ flow[e].unit[u].at = "writing" /\ OneWriter(e) /\ flow[e].pc = "scan"
  BY DEF Inv, Held, Fine, SettleUnit, At, Running
<1>2. CASE SettleAccepted(e)
  <2>1. MovesUnit(e, u, "stored") /\ row' = Settled /\ Current(e)
    BY <1>1, <1>2, UnitMoves DEF SettleUnit, SettleAccepted, Ats
  <2>2. row' \in Row /\ Onward
    BY <1>1, <2>1 DEF Settled, Row, Onward
  <2>3. \A v \in Units : flow'[e].unit[v].at # "writing"
    BY <1>1, <2>1 DEF MovesUnit, OneWriter
  <2>4. e \in DOMAIN flow' /\ flow'[e].pc \notin Importing
    BY <1>1, <2>1 DEF MovesUnit, Alone, Importing
  <2>5. Fine(e)'
    BY <2>3, <2>4, RestsFine DEF OneWriter
  <2>6. QED
    BY <2>1, <2>2, <2>5, OthersFine DEF MovesUnit
<1>3. CASE ~SettleAccepted(e)
  <2>1. MovesUnit(e, u, "failing") /\ row' = row
    BY <1>1, <1>3, UnitMoves DEF SettleUnit, Ats
  <2>2. QED
    BY <1>1, <2>1, UnitFine, SameIsMild DEF Mild, Ats
<1>4. QED
  BY <1>2, <1>3

LEMMA UnitFailsHolds ==
  ASSUME Inv, Held, NEW e \in DOMAIN flow, NEW u \in Units, UnitFails(e, u)
  PROVE  Held'
<1>1. row \in Row /\ flow[e] \in Flows /\ Running(e, {"scan"}) /\ row' = row
  BY DEF Inv, Held, UnitFails, At
<1>2. MovesUnit(e, u, "failing")
  BY <1>1, UnitMoves DEF UnitFails, Ats
<1>3. QED
  BY <1>1, <1>2, UnitFine, SameIsMild DEF Mild, Ats

LEMMA ProgressHolds ==
  ASSUME Inv, Held, NEW e \in DOMAIN flow, NEW u \in Units, NEW lost \in BOOLEAN,
         RecordScanProgress(e, u, lost)
  PROVE  Held'
<1>1. /\ row \in Row /\ flow[e] \in Flows /\ Running(e, {"scan"}) /\ u \in Pages
  BY DEF Inv, Held, RecordScanProgress, At
<1>2. CASE ~ProgressAccepted(e)
  BY <1>2, FatalFine DEF RecordScanProgress
<1>3. CASE ProgressAccepted(e)
  <2>1. Current(e) /\ UnitTo(e, u, IF lost THEN "todo" ELSE "done", 0)
    BY <1>3 DEF RecordScanProgress, ProgressAccepted
  <2>2. CASE row' = row
    BY <1>1, <2>1, <2>2, UnitMoves, UnitFine, SameIsMild DEF Mild, Ats
  <2>3. CASE row' = [Bumped EXCEPT !.counted = @ \union {u}]
    <3>1. Bumped \in Row /\ Bumped.status = row.status
      BY <1>1, BumpedMore
    <3>2. Bumped.counted \union {u} \in SUBSET Pages
      BY <1>1, <3>1 DEF Row
    <3>3. row' \in Row /\ Gentle
      <4>1. /\ row' \in Row /\ row'.rev = Bumped.rev /\ row'.exec = Bumped.exec
            /\ row'.scanned = Bumped.scanned /\ row'.cleanup = Bumped.cleanup
            /\ row'.writes = Bumped.writes /\ row'.status = Bumped.status
        BY <2>3, <3>1, <3>2 DEF Row
      <4>2. QED
        BY <1>1, <3>1, <4>1, EditedGently
    <3>4. QED
      BY <1>1, <2>1, <3>3, UnitMoves, UnitFine DEF Ats
  <2>4. QED
    BY <1>3, <2>2, <2>3 DEF RecordScanProgress
<1>4. QED
  BY <1>2, <1>3

LEMMA CompleteScanHolds ==
  ASSUME Inv, Held, NEW e \in DOMAIN flow, NEW lost \in BOOLEAN, CompleteScan(e, lost)
  PROVE  Held'
<1>1. /\ row \in Row /\ flow[e] \in Flows /\ Running(e, {"scan"}) /\ Manifest \in Units
      /\ flow[e].pc = "scan" /\ e \in DOMAIN flow
  BY DEF Inv, Held, CompleteScan, At, Running, Units
<1>2. CASE ~Confirmed(e) /\ ~Completes(e)
  BY <1>2, FatalFine DEF CompleteScan
<1>3. CASE Confirmed(e) \/ Completes(e)
  <2>1. Current(e) /\ row' \in Row /\ Gentle
    <3>1. CASE row' = row
      BY <1>1, <1>3, <3>1, SameIsMild DEF Confirmed, Completes, Mild
    <3>2. CASE Completes(e) /\ row' = [Bumped EXCEPT !.status = "needs_configuration",
                                          !.scanned = TRUE, !.gate = StartImportGate]
      <4>1. row.status = "scanning" /\ "needs_configuration" \in Statuses
            /\ StartImportGate \in Gates /\ Current(e)
        BY <3>2 DEF Completes, Statuses, StartImportGate, Gate, Gates
      <4>2. /\ row' \in Row /\ row'.rev = Bumped.rev /\ row'.exec = Bumped.exec
            /\ row'.scanned = TRUE /\ row'.cleanup = Bumped.cleanup
            /\ row'.writes = Bumped.writes /\ row'.status = "needs_configuration"
        BY <1>1, <3>2, <4>1, BumpedMore DEF Row
      <4>3. QED
        BY <1>1, <4>1, <4>2, EditedGently
    <3>3. QED
      BY <1>3, <3>1, <3>2 DEF CompleteScan
  <2>2. flow' = [flow EXCEPT ![e].pc = IF lost THEN "scan" ELSE "gate",
                             ![e].unit[Manifest].at = IF lost THEN "todo" ELSE "done"]
    BY <1>3 DEF CompleteScan
  <2> DEFINE at == IF lost THEN "todo" ELSE "done"
             pc == IF lost THEN "scan" ELSE "gate"
             unit == [flow[e].unit EXCEPT ![Manifest] =
                        [flow[e].unit[Manifest] EXCEPT !.at = at]]
  <2>3. flow[e].unit \in [Units -> [at : Ats, seq : Nat]]
    BY <1>1 DEF Flows
  <2>4. at \in Ats \ {"writing"} /\ pc \in Pcs
    BY DEF Ats, Pcs, Live
  <2>5. /\ unit \in [Units -> [at : Ats, seq : Nat]] /\ unit[Manifest].at = at
        /\ \A v \in Units : v # Manifest => unit[v] = flow[e].unit[v]
    BY <1>1, <2>3, <2>4
  <2>6. flow'[e] = [flow[e] EXCEPT !.pc = pc, !.unit = unit]
    BY <2>2
  <2>7. flow'[e] \in Flows /\ flow'[e].pc = pc /\ flow'[e].unit = unit
    BY <1>1, <2>4, <2>5, <2>6 DEF Flows
  <2>8. Alone(e)
    BY <2>2, <2>7 DEF Alone
  <2>9. CASE lost
    <3>1. MovesUnit(e, Manifest, at)
      BY <1>1, <2>5, <2>7, <2>8, <2>9 DEF MovesUnit
    <3>2. QED
      BY <1>1, <2>1, <2>4, <3>1, UnitFine
  <2>10. CASE ~lost
    <3>1. OneWriter(e)'
      <4>1. \A v \in Units : flow'[e].unit[v].at = "writing"
                               => flow[e].unit[v].at = "writing"
        BY <2>4, <2>5, <2>7
      <4>2. QED
        BY <4>1 DEF Held, Fine, OneWriter
    <3>2. flow'[e].pc = "gate" /\ "gate" \notin Importing /\ e \in DOMAIN flow'
      BY <2>7, <2>8, <2>10 DEF Alone, Importing
    <3>3. Fine(e)'
      BY <3>1, <3>2, RestsFine
    <3>4. QED
      BY <2>1, <2>8, <3>3, OthersFine DEF Gentle
  <2>11. QED
    BY <2>9, <2>10
<1>4. QED
  BY <1>2, <1>3

LEMMA ScanFailureHolds ==
  ASSUME JiraAssumption, Inv, Held, NEW e \in DOMAIN flow, NEW u \in Units,
         NEW outcome \in Outcomes, NEW lost \in BOOLEAN,
         RecordScanFailure(e, u, outcome, lost)
  PROVE  Held'
<1> DEFINE accepted == Current(e) /\ Free /\ row.status \notin Final
           receipt  == row.receipt[u]
           seq == IF receipt # 0 THEN receipt
                  ELSE IF row.status \in Failed THEN row.seq ELSE row.seq + 1
<1>1. /\ row \in Row /\ flow[e] \in Flows /\ Running(e, {"scan"})
      /\ outcome \in {"failed", "reconnect_required"} /\ u \in Units \cup Stages
  BY DEF Inv, Held, RecordScanFailure, At, JiraAssumption
<1>2. seq \in Nat /\ row.seq \in Nat
  BY <1>1 DEF Row
<1>3. PICK s \in Nat : s = seq
  BY <1>2
<1>4. CASE ~accepted
  <2>1. row' = row /\ Exits(e, "fatal")
    BY <1>4 DEF RecordScanFailure
  <2>2. QED
    BY <2>1, FatalFine
<1>5. CASE accepted
  <2>1. row' \in Row /\ Gentle
    <3>1. CASE row' = row
      BY <1>1, <3>1, SameIsMild DEF Mild
    <3>2. CASE row' = Receipt(u, s)
      <4>1. /\ row' \in Row /\ row'.rev = Bumped.rev /\ row'.exec = Bumped.exec
            /\ row'.scanned = Bumped.scanned /\ row'.cleanup = Bumped.cleanup
            /\ row'.writes = Bumped.writes /\ row'.status = Bumped.status
        BY <1>1, <3>2, ReceiptMore
      <4>2. QED
        BY <1>1, <4>1, BumpedMore, EditedGently
    <3>3. CASE row' = [Receipt(u, s) EXCEPT
                          !.gate = Gate("Retry", "scan", s), !.seq = s,
                          !.status = outcome, !.retryable = TRUE]
      <4>2. Gate("Retry", "scan", s) \in Gates /\ outcome \in Statuses
        BY <1>1 DEF Gate, Gates, Statuses
      <4>3. row.status # "succeeded" /\ row.status # "none" /\ outcome # "none"
        BY <1>1, <1>5 DEF Final, Current, Exists
      <4>4. /\ row' \in Row /\ row'.rev = Bumped.rev /\ row'.exec = Bumped.exec
            /\ row'.scanned = Bumped.scanned /\ row'.cleanup = Bumped.cleanup
            /\ row'.writes = Bumped.writes /\ row'.status = outcome
        <5> DEFINE r == Receipt(u, s)
        <5>1. /\ r \in Row /\ r.rev = Bumped.rev /\ r.exec = Bumped.exec
              /\ r.scanned = Bumped.scanned /\ r.cleanup = Bumped.cleanup
              /\ r.writes = Bumped.writes
          BY <1>1, ReceiptMore
        <5>2. row' = [r EXCEPT !.gate = Gate("Retry", "scan", s), !.seq = s,
                               !.status = outcome, !.retryable = TRUE]
          BY <3>3
        <5> HIDE DEF r
        <5>3. QED
          BY <4>2, <5>1, <5>2 DEF Row
      <4>5. QED
        BY <1>1, <4>3, <4>4, EditedGently
    <3>4. QED
      BY <1>3, <1>5, <3>1, <3>2, <3>3 DEF RecordScanFailure
  <2>2. CASE lost
    <3>1. flow' = flow /\ flow[e].unit[u].at = "failing"
      BY <1>5, <2>2 DEF RecordScanFailure, At
    <3>2. MovesUnit(e, u, "failing")
      BY <1>1, <3>1 DEF MovesUnit, Alone
    <3>3. QED
      BY <1>1, <1>5, <2>1, <3>2, UnitFine DEF Ats
  <2>3. CASE ~lost
    <3>1. UnitTo(e, u, "waiting", seq)
      BY <1>5, <2>3 DEF RecordScanFailure
    <3>2. MovesUnit(e, u, "waiting")
      BY <1>1, <1>2, <3>1, UnitMoves DEF Ats
    <3>3. QED
      BY <1>1, <1>5, <2>1, <3>2, UnitFine DEF Ats
  <2>4. QED
    BY <2>2, <2>3
<1>6. QED
  BY <1>4, <1>5

LEMMA ResumeScanHolds ==
  ASSUME Inv, Held, NEW e \in DOMAIN flow, NEW u \in Units, ResumeScan(e, u)
  PROVE  Held'
<1>1. row \in Row /\ flow[e] \in Flows /\ Running(e, {"scan"}) /\ row.seq \in Nat
  BY DEF Inv, Held, ResumeScan, At, Row
<1>2. CASE row' = row /\ Exits(e, "fatal")
  BY <1>2, FatalFine
<1>3. CASE row' = row /\ UnitTo(e, u, "waiting", row.seq)
  BY <1>1, <1>3, UnitMoves, UnitFine, SameIsMild DEF Ats, Mild
<1>4. CASE /\ Current(e) /\ UnitTo(e, u, "todo", 0)
           /\ \/ row' = [row EXCEPT !.receipt[u] = 0]
              \/ /\ row.status \in Failed
                 /\ row' = [Bumped EXCEPT !.receipt[u] = 0,
                                !.status = "scanning", !.retryable = FALSE]
  <2>1. [row.receipt EXCEPT ![u] = 0] \in [Units \union Stages -> Nat]
    BY <1>1 DEF Row
  <2>2. row' \in Row /\ Gentle
    <3>1. CASE row' = [row EXCEPT !.receipt[u] = 0]
      BY <1>1, <2>1, <3>1 DEF Row, Gentle, Onward
    <3>2. CASE /\ row.status \in Failed
               /\ row' = [Bumped EXCEPT !.receipt[u] = 0,
                            !.status = "scanning", !.retryable = FALSE]
      <4>1. [Bumped.receipt EXCEPT ![u] = 0] \in [Units \union Stages -> Nat]
        BY <1>1, <2>1, BumpedMore
      <4>2. /\ row' \in Row /\ row'.rev = Bumped.rev /\ row'.exec = Bumped.exec
            /\ row'.scanned = Bumped.scanned /\ row'.cleanup = Bumped.cleanup
            /\ row'.writes = Bumped.writes /\ row'.status = "scanning"
        BY <1>1, <3>2, <4>1, BumpedMore DEF Row, Statuses
      <4>3. QED
        BY <1>1, <3>2, <4>2, EditedGently DEF Failed
    <3>3. QED
      BY <1>4, <3>1, <3>2
  <2>3. QED
    BY <1>1, <1>4, <2>2, UnitMoves, UnitFine DEF Ats
<1>5. QED
  <2> DEFINE seq == flow[e].unit[u].seq
             scanned == row.scanned /\ row.status \in {"needs_configuration",
                                                   "ready", "migrating"}
             retryable == ~row.scanned /\ row.retryable /\ row.status \in Failed
             admitted == /\ Current(e) /\ Free
                         /\ scanned \/ retryable \/ row.status = "scanning"
  <2>1. CASE admitted /\ row.seq > seq
    BY <1>3, <2>1 DEF ResumeScan
  <2>2. CASE ~(admitted /\ row.seq > seq) /\ (~admitted \/ row.seq # seq)
    BY <1>2, <2>2 DEF ResumeScan
  <2>3. CASE ~(admitted /\ row.seq > seq) /\ ~(~admitted \/ row.seq # seq)
    BY <1>4, <2>3 DEF ResumeScan
  <2>4. QED
    BY <2>1, <2>2, <2>3

-----------------------------------------------------------------------------
(* The steps of an import *)

\* An execution goes on with its import under a row that asks for one.
LEMMA ImportFine ==
  ASSUME Inv, Held, row' \in Row, NEW e \in DOMAIN flow,
         NEW pc \in Importing \ {"read"}, MovesTo(e, pc), Onward,
         Current(e) \/ (row' = row /\ Running(e, Importing \ {"read"})),
         Current(e) => row'.status \in ImportStatuses, Named(e)'
  PROVE  Held'
<1>1. row \in Row /\ e \in Executions /\ row.rev \in Nat /\ row'.rev \in Nat /\ Fine(e)
  BY DEF Inv, TypeOK, Row, Held
<1>2. AskedAt(e) \in Nat
  BY <1>1 DEF Executions, AskedAt
<1>3. (Exists' <=> Exists) /\ (Current(e)' <=> Current(e))
  BY DEF Onward, Exists, Current
<1>4. Late(e)'
  <2>1. CASE Current(e)
    BY <1>1, <1>2, <1>3, <2>1, CurrentAsked DEF Late, Onward
  <2>2. CASE row' = row /\ Running(e, Importing \ {"read"})
    BY <1>1, <1>3, <2>2 DEF Late, Fine, AtWork
  <2>3. QED
    BY <2>1, <2>2
<1>5. Untouched(e)'
  BY DEF Untouched, Running, MovesTo, Importing
<1>6. OneWriter(e)'
  BY <1>1 DEF Fine, OneWriter, MovesTo
<1>7. Imports(e)'
  BY <1>3 DEF Imports
<1>8. Fine(e)'
  BY <1>4, <1>5, <1>6, <1>7 DEF Fine
<1>9. QED
  BY <1>1, <1>8, OthersFine, SameIsMild DEF MovesTo

LEMMA NotInside ==
  ASSUME NEW e, NEW pc, MovesTo(e, pc),
         pc \notin {"scan", "copying", "insert", "documents", "verify", "settle"}
  PROVE  Named(e)'
BY DEF Named, Inside, At, Running, MovesTo

LEMMA CurrentImports ==
  ASSUME Held, NEW e \in DOMAIN flow, NEW pc \in Importing \ {"read"},
         Running(e, {pc}), Current(e)
  PROVE  row.status \in ImportStatuses
BY DEF Held, Fine, Imports, Running

LEMMA ReadsHold ==
  ASSUME Inv, Held, NEW e \in DOMAIN flow, StartImport(e) \/ ReadAttempt(e)
  PROVE  Held'
<1>1. row \in Row /\ flow[e] \in Flows /\ row' = row
  BY DEF Inv, Held, StartImport, ReadAttempt
<1>2. CASE StartImport(e)
  <2>1. "read" \in Pcs
    BY DEF Pcs, Live, Importing
  <2>2. MovesTo(e, "read")
    BY <1>1, <1>2, <2>1, GotoMoves DEF StartImport
  <2>3. QED
    BY <1>1, <2>1, <2>2, LeavesFine, SameIsMild DEF Mild, Gentle
<1>3. CASE ReadAttempt(e) /\ Exits(e, "fatal")
  BY <1>1, <1>3, FatalFine
<1>4. CASE /\ Current(e) /\ row.status \in {"migrating", "succeeded"}
           /\ Goto(e, IF flow[e].next = "prepare" THEN "prepare" ELSE "begin")
  <2>1. PICK pc \in {"prepare", "begin"} : Goto(e, pc)
    BY <1>4
  <2>2. pc \in Pcs /\ pc \in Importing \ {"read"}
    BY <2>1 DEF Pcs, Live, Importing
  <2>3. MovesTo(e, pc)
    BY <1>1, <2>1, <2>2, GotoMoves
  <2>4. Named(e)'
    BY <2>1, <2>3, NotInside
  <2>5. QED
    BY <1>1, <1>4, <2>2, <2>3, <2>4, ImportFine, SameIsMild
    DEF Mild, Gentle, ImportStatuses
<1>5. QED
  BY <1>2, <1>3, <1>4 DEF ReadAttempt

LEMMA BegunOnward ==
  ASSUME row \in Row, NEW e \in Executions, row' = Begun(e) \/ row' = Settled
  PROVE  /\ row' \in Row /\ Onward /\ row'.status = row.status
         /\ row'.cleanup = row.cleanup /\ row'.scanned = row.scanned
BY DEF Row, Begun, Settled, Onward

LEMMA PreparationHolds ==
  ASSUME Inv, Held, NEW e \in DOMAIN flow, BeginPreparation(e) \/ SettlePreparation(e)
  PROVE  Held'
<1>1. row \in Row /\ flow[e] \in Flows /\ e \in Executions
  BY DEF Inv, TypeOK, Held
<1>2. CASE row' = row /\ Exits(e, "fatal")
  BY <1>2, FatalFine
<1>3. CASE /\ BeginPreparation(e) /\ Current(e)
           /\ Goto(e, "preparing") /\ row' = Begun(e)
  <2>1. "preparing" \in Pcs /\ "preparing" \in Importing \ {"read"}
        /\ "prepare" \in Importing \ {"read"}
    BY DEF Pcs, Live, Importing
  <2>2. MovesTo(e, "preparing")
    BY <1>1, <1>3, <2>1, GotoMoves
  <2>3. Named(e)'
    BY <2>2, NotInside
  <2>4. row.status \in ImportStatuses
    BY <1>3, <2>1, CurrentImports DEF BeginPreparation
  <2>5. QED
    BY <1>1, <1>3, <2>1, <2>2, <2>3, <2>4, BegunOnward, ImportFine
<1>4. CASE /\ SettlePreparation(e) /\ Current(e) /\ row' = Settled
           /\ flow' = [flow EXCEPT ![e].pc = "begin", ![e].next = "hidden"]
  <2>1. "begin" \in Pcs /\ "begin" \in Importing \ {"read"}
        /\ "preparing" \in Importing \ {"read"} /\ "hidden" \in Nexts
    BY DEF Pcs, Live, Importing, Nexts
  <2>2. flow'[e] = [flow[e] EXCEPT !.pc = "begin", !.next = "hidden"]
    BY <1>4
  <2>3. /\ flow'[e] \in Flows /\ flow'[e].pc = "begin"
        /\ flow'[e].unit = flow[e].unit
    BY <1>1, <2>1, <2>2 DEF Flows
  <2>4. MovesTo(e, "begin")
    BY <1>4, <2>3 DEF MovesTo, Alone
  <2>5. Named(e)'
    BY <2>4, NotInside
  <2>6. row.status \in ImportStatuses
    BY <1>4, <2>1, CurrentImports DEF SettlePreparation
  <2>7. QED
    BY <1>1, <1>4, <2>1, <2>4, <2>5, <2>6, BegunOnward, ImportFine
<1>5. QED
  BY <1>2, <1>3, <1>4
  DEF BeginPreparation, SettlePreparation, BeginAccepted, SettleAccepted

LEMMA BeginImportHolds ==
  ASSUME Inv, Held, NEW e \in DOMAIN flow, BeginImport(e)
  PROVE  Held'
<1>1. row \in Row /\ flow[e] \in Flows /\ e \in Executions
  BY DEF Inv, TypeOK, Held
<1>2. CASE ~BeginAccepted(e)
  BY <1>2, FatalFine DEF BeginImport
<1>3. CASE BeginAccepted(e)
  <2>1. Goto(e, flow[e].next) /\ row' = Begun(e) /\ Current(e)
    BY <1>3 DEF BeginImport, BeginAccepted
  <2>2. /\ flow[e].next \in Pcs /\ flow[e].next \in Importing \ {"read"}
        /\ "begin" \in Importing \ {"read"}
    BY <1>1 DEF Flows, Nexts, Pcs, Live, Importing
  <2>3. MovesTo(e, flow[e].next)
    BY <1>1, <2>1, <2>2, GotoMoves
  <2>4. row.status \in ImportStatuses
    BY <2>1, <2>2, CurrentImports DEF BeginImport
  <2>5. row' \in Row /\ Onward /\ row'.status = row.status /\ row'.cleanup = row.cleanup
    BY <1>1, <2>1, BegunOnward
  <2>6. row.status = "succeeded" \/ row'.writes = e
    <3>1. CASE row.writes = None /\ Rewrites
      BY <2>4, <3>1 DEF Rewrites, ImportStatuses
    <3>2. CASE ~(row.writes = None /\ Rewrites)
      BY <1>1, <2>1, <3>2 DEF Begun, Row
    <3>3. QED
      BY <3>1, <3>2
  <2>7. Named(e)'
    BY <1>3, <2>5, <2>6 DEF Named, BeginAccepted, Free
  <2>8. QED
    BY <2>1, <2>2, <2>3, <2>4, <2>5, <2>7, ImportFine
<1>4. QED
  BY <1>2, <1>3

\* What goes on without a word to the row, or with its destination reserved.
LEMMA MaterializeHolds ==
  ASSUME Inv, Held, NEW e \in DOMAIN flow,
         \/ EnsureHiddenProject(e) \/ CopyAttachment(e) \/ AttachmentSent(e)
         \/ InsertAttachment(e) \/ WriteHiddenDocuments(e)
         \/ VerifyHiddenMaterialization(e)
  PROVE  Held'
<1>1. row \in Row /\ flow[e] \in Flows /\ e \in Executions /\ Fine(e)
  BY DEF Inv, TypeOK, Held
<1>2. CASE row' = row /\ Exits(e, "fatal")
  BY <1>2, FatalFine
<1>3. CASE EnsureHiddenProject(e) /\ ~(row' = row /\ Exits(e, "fatal"))
  <2>1. /\ Returned(e, "copy") /\ row' = [row EXCEPT !.dest = TRUE] /\ Migrating(e)
        /\ "copy" \in Nexts /\ "copy" \in Importing \ {"read"}
    BY <1>3 DEF EnsureHiddenProject, Nexts, Importing
  <2>2. row' \in Row /\ Onward /\ row'.status = "migrating" /\ Current(e)
    <3>1. row' \in Row /\ row'.rev = row.rev /\ row'.exec = row.exec
          /\ row'.status = row.status
      BY <1>1, <2>1 DEF Row
    <3>2. row.rev \in Nat
      BY <1>1 DEF Row
    <3>3. QED
      BY <2>1, <3>1, <3>2 DEF Onward, Migrating
  <2>3. MovesTo(e, "copy")
    BY <1>1, <2>1, ReturnedMoves
  <2>4. Named(e)'
    BY <2>3, NotInside
  <2>5. QED
    BY <2>1, <2>2, <2>3, <2>4, ImportFine DEF ImportStatuses
<1>4. CASE CopyAttachment(e) /\ ~(row' = row /\ Exits(e, "fatal"))
  <2>1. PICK pc \in {"insert", "copying"} : Goto(e, pc)
    BY <1>4 DEF CopyAttachment
  <2>2. /\ CopyAdmitted(e) /\ row' = row /\ Running(e, Importing \ {"read"})
        /\ pc \in Pcs /\ pc \in Importing \ {"read"}
    BY <1>4, <2>1 DEF CopyAttachment, Running, Importing, Pcs, Live
  <2>3. MovesTo(e, pc)
    BY <1>1, <2>1, <2>2, GotoMoves
  <2>4. Named(e)'
    BY <2>2 DEF Named, CopyAdmitted, Migrating, Free
  <2>5. QED
    BY <1>1, <2>2, <2>3, <2>4, ImportFine, SameIsMild
    DEF Mild, Gentle, ImportStatuses, CopyAdmitted, Migrating
<1>5. CASE /\ \/ AttachmentSent(e) \/ InsertAttachment(e) \/ WriteHiddenDocuments(e)
              \/ VerifyHiddenMaterialization(e)
           /\ ~(row' = row /\ Exits(e, "fatal"))
  <2>1. /\ row' = row
        /\ Running(e, {"copying", "insert", "documents", "verify"})
    BY <1>5 DEF AttachmentSent, InsertAttachment, WriteHiddenDocuments,
                VerifyHiddenMaterialization, Running
  <2>2. /\ Running(e, Importing \ {"read"}) /\ Inside(e)
    BY <2>1 DEF Running, Importing, Inside
  <2>3. \E pc \in {"insert", "documents", "verify", "settle"} : MovesTo(e, pc)
    <3>1. {"insert", "documents", "verify", "settle"} \subseteq Pcs
          /\ {"documents", "verify", "settle"} \subseteq Nexts
      BY DEF Pcs, Live, Importing, Nexts
    <3>2. \/ Goto(e, "insert")
          \/ \E next \in {"documents", "verify", "settle"} : Returned(e, next)
      BY <1>5 DEF AttachmentSent, InsertAttachment, WriteHiddenDocuments,
                  VerifyHiddenMaterialization
    <3>3. QED
      BY <1>1, <3>1, <3>2, GotoMoves, ReturnedMoves
  <2>4. PICK pc \in {"insert", "documents", "verify", "settle"} : MovesTo(e, pc)
    BY <2>3
  <2>5. pc \in Importing \ {"read"}
    BY <2>4 DEF Importing
  <2>6. Named(e)'
    BY <1>1, <2>1, <2>2 DEF Fine, Named, Current, Exists, Free
  <2>7. Current(e) => row'.status \in ImportStatuses
    BY <1>1, <2>1, <2>2 DEF Fine, Imports
  <2>8. QED
    BY <1>1, <2>1, <2>2, <2>4, <2>5, <2>6, <2>7, ImportFine, SameIsMild
    DEF Mild, Gentle
<1>6. QED
  BY <1>2, <1>3, <1>4, <1>5

LEMMA SettleImportHolds ==
  ASSUME Inv, Held, NEW e \in DOMAIN flow, SettleImport(e)
  PROVE  Held'
<1>1. row \in Row /\ flow[e] \in Flows /\ e \in Executions
  BY DEF Inv, TypeOK, Held
<1>2. CASE ~SettleAccepted(e)
  BY <1>2, FatalFine DEF SettleImport
<1>3. CASE SettleAccepted(e)
  <2>1. /\ flow' = [flow EXCEPT ![e].pc = "ready", ![e].stage = "publish"]
        /\ row' = Settled /\ Current(e)
    BY <1>3 DEF SettleImport, SettleAccepted
  <2>2. "ready" \in Pcs /\ "ready" \in Importing \ {"read"}
        /\ "settle" \in Importing \ {"read"} /\ "publish" \in Stages
    BY DEF Pcs, Live, Importing, Stages
  <2>3. flow'[e] = [flow[e] EXCEPT !.pc = "ready", !.stage = "publish"]
    BY <2>1
  <2>4. /\ flow'[e] \in Flows /\ flow'[e].pc = "ready"
        /\ flow'[e].unit = flow[e].unit
    BY <1>1, <2>2, <2>3 DEF Flows
  <2>5. MovesTo(e, "ready")
    BY <2>1, <2>4 DEF MovesTo, Alone
  <2>6. Named(e)'
    BY <2>5, NotInside
  <2>7. row.status \in ImportStatuses
    BY <2>1, <2>2, CurrentImports DEF SettleImport
  <2>8. QED
    BY <1>1, <2>1, <2>2, <2>5, <2>6, <2>7, BegunOnward, ImportFine
<1>4. QED
  BY <1>2, <1>3

LEMMA PublishHolds ==
  ASSUME Inv, Held, row' \in Row, NEW e \in DOMAIN flow, NEW lost \in BOOLEAN,
         PublishJiraMigrationAtomically(e, lost)
  PROVE  Held'
<1>1. row \in Row /\ flow[e] \in Flows
  BY DEF Inv, Held
<1>2. Onward /\ (Current(e) \/ row' = row)
  <2>1. CASE row' = row
    BY <1>1, <2>1, SameIsMild DEF Mild, Gentle
  <2>2. CASE row' # row
    <3>1. /\ Publishable(e)
          /\ row' = [Bumped EXCEPT !.status = "succeeded", !.retryable = FALSE]
      BY <2>2 DEF PublishJiraMigrationAtomically
    <3>2. Current(e) /\ row.status = "migrating"
      BY <3>1 DEF Publishable, Migrating
    <3>3. row'.rev = Bumped.rev /\ row'.exec = Bumped.exec /\ row'.status = "succeeded"
      BY <1>1, <3>1, BumpedMore DEF Row
    <3>4. QED
      BY <1>1, <3>2, <3>3, BumpedMore DEF Onward
  <2>3. QED
    BY <2>1, <2>2
<1>3. PICK pc \in {"importFailing", "read", "closing"} :
        \/ Goto(e, pc)
        \/ pc = "closing" /\ \E exit \in {"success", "fatal"} : Exits(e, exit)
  BY DEF PublishJiraMigrationAtomically
<1>4. pc \in Pcs \ {"start", "install", "scan"} /\ pc \notin Importing \ {"read"}
  BY <1>3 DEF Pcs, Live, Importing
<1>5. MovesTo(e, pc)
  BY <1>1, <1>3, <1>4, GotoMoves, ExitsMoves
<1>6. QED
  BY <1>2, <1>4, <1>5, LeavesFine

LEMMA ImportFailureHolds ==
  ASSUME JiraAssumption, Inv, Held, NEW e \in DOMAIN flow, NEW outcome \in Outcomes,
         NEW lost \in BOOLEAN, RecordImportFailure(e, outcome, lost)
  PROVE  Held'
<1> DEFINE stage    == flow[e].stage
           receipt  == row.receipt[stage]
           accepted == /\ Current(e) /\ Free /\ row.scanned
                       /\ row.status \notin Final
                       /\ receipt # 0 \/ row.status = "migrating"
           seq      == IF receipt # 0 THEN receipt ELSE row.seq + 1
<1>1. /\ row \in Row /\ flow[e] \in Flows /\ stage \in Units \cup Stages
      /\ outcome \in {"failed", "reconnect_required"}
  BY DEF Inv, Held, Flows, JiraAssumption
<1>2. PICK s \in Nat : s = seq
  BY <1>1 DEF Row
<1>3. CASE ~accepted
  <2>1. row' = row /\ Exits(e, "fatal")
    BY <1>3 DEF RecordImportFailure
  <2>2. QED
    BY <2>1, FatalFine
<1>4. CASE accepted
  <2>1. row' \in Row /\ Onward
    <3>1. CASE row' = row
      BY <1>1, <3>1, SameIsMild DEF Mild, Gentle
    <3>2. CASE row' = [Receipt(stage, s) EXCEPT
                         !.gate = Gate("Retry", "import", s), !.seq = s,
                         !.status = outcome, !.retryable = TRUE]
      <4> DEFINE r == Receipt(stage, s)
      <4>1. r \in Row /\ r.rev = Bumped.rev /\ r.exec = Bumped.exec
        BY <1>1, ReceiptMore
      <4>2. row' = [r EXCEPT !.gate = Gate("Retry", "import", s), !.seq = s,
                             !.status = outcome, !.retryable = TRUE]
        BY <3>2
      <4>3. Gate("Retry", "import", s) \in Gates /\ outcome \in Statuses
        BY <1>1 DEF Gate, Gates, Statuses
      <4> HIDE DEF r
      <4>4. /\ row' \in Row /\ row'.rev = Bumped.rev /\ row'.exec = Bumped.exec
            /\ row'.status = outcome
        BY <4>1, <4>2, <4>3 DEF Row
      <4>5. QED
        BY <1>1, <1>4, <4>4, BumpedMore DEF Onward, Current, Exists
    <3>3. QED
      BY <1>2, <1>4, <3>1, <3>2 DEF RecordImportFailure
  <2>2. "read" \in Pcs /\ "importWaiting" \in Pcs /\ "importWaiting" \notin Importing
    BY DEF Pcs, Live, Importing
  <2>3. CASE lost
    <3>1. MovesTo(e, "read")
      BY <1>1, <1>4, <2>2, <2>3, GotoMoves DEF RecordImportFailure
    <3>2. QED
      BY <1>4, <2>1, <2>2, <3>1, LeavesFine
  <2>4. CASE ~lost
    <3>1. flow' = [flow EXCEPT ![e].pc = "importWaiting", ![e].seq = s]
      BY <1>2, <1>4, <2>4 DEF RecordImportFailure
    <3>2. flow'[e] = [flow[e] EXCEPT !.pc = "importWaiting", !.seq = s]
      BY <3>1
    <3>3. /\ flow'[e] \in Flows /\ flow'[e].pc = "importWaiting"
          /\ flow'[e].unit = flow[e].unit
      BY <1>1, <2>2, <3>2 DEF Flows
    <3>4. MovesTo(e, "importWaiting")
      BY <3>1, <3>3 DEF MovesTo, Alone
    <3>5. QED
      BY <1>4, <2>1, <2>2, <3>4, LeavesFine
  <2>5. QED
    BY <2>3, <2>4
<1>5. QED
  BY <1>3, <1>4

LEMMA ResumeImportHolds ==
  ASSUME Inv, Held, NEW e \in DOMAIN flow, ResumeImport(e)
  PROVE  Held'
<1> DEFINE admitted == /\ Current(e) /\ Free /\ row.scanned
                       /\ row.status \in Failed \union {"migrating"}
           stage    == flow[e].stage
           resumed  == /\ admitted /\ row.seq = flow[e].seq
                       /\ row.status = "migrating"
<1>1. /\ row \in Row /\ flow[e] \in Flows /\ stage \in Stages /\ row.seq \in Nat
      /\ flow[e].seq \in Nat
  BY DEF Inv, Held, Flows, Row
<1>2. "read" \in Pcs /\ "importWaiting" \in Pcs /\ "importWaiting" \notin Importing
      /\ "ready" \in Pcs /\ "ready" \in Importing \ {"read"}
  BY DEF Pcs, Live, Importing
<1>3. CASE admitted /\ row.seq > flow[e].seq
  <2>1. flow' = [flow EXCEPT ![e].seq = row.seq] /\ flow[e].pc = "importWaiting"
    <3>1. flow[e].pc = "importWaiting"
      BY DEF ResumeImport, Running
    <3>2. ~resumed
      BY <1>1, <1>3
    <3>3. QED
      BY <1>3, <3>1, <3>2 DEF ResumeImport
  <2>2. row' = row
    BY <1>1, <1>3 DEF ResumeImport
  <2>3. flow'[e] = [flow[e] EXCEPT !.seq = row.seq]
    BY <2>1
  <2>4. /\ flow'[e] \in Flows /\ flow'[e].pc = "importWaiting"
        /\ flow'[e].unit = flow[e].unit
    BY <1>1, <2>1, <2>3 DEF Flows
  <2>5. MovesTo(e, "importWaiting")
    BY <2>1, <2>4 DEF MovesTo, Alone
  <2>6. QED
    BY <1>1, <1>2, <2>2, <2>5, LeavesFine, SameIsMild DEF Mild, Gentle
<1>4. CASE resumed
  <2>1. row' = [row EXCEPT !.receipt[stage] = 0] /\ ~(row.seq > flow[e].seq)
    BY <1>1, <1>4 DEF ResumeImport
  <2>2. [row.receipt EXCEPT ![stage] = 0] \in [Units \union Stages -> Nat]
    BY <1>1 DEF Row
  <2>3. row' \in Row /\ Onward /\ row'.status = "migrating"
    BY <1>1, <1>4, <2>1, <2>2 DEF Row, Onward
  <2>4. CASE stage = "materialize"
    <3>1. flow' = [flow EXCEPT ![e].pc = "read", ![e].next = "prepare"]
      BY <1>4, <2>1, <2>4 DEF ResumeImport
    <3>2. flow'[e] = [flow[e] EXCEPT !.pc = "read", !.next = "prepare"]
          /\ "prepare" \in Nexts
      BY <3>1 DEF Nexts
    <3>3. /\ flow'[e] \in Flows /\ flow'[e].pc = "read"
          /\ flow'[e].unit = flow[e].unit
      BY <1>1, <1>2, <3>2 DEF Flows
    <3>4. MovesTo(e, "read")
      BY <3>1, <3>3 DEF MovesTo, Alone
    <3>5. QED
      BY <1>2, <1>4, <2>3, <3>4, LeavesFine
  <2>5. CASE stage = "publish"
    <3>1. Goto(e, "ready")
      BY <1>4, <2>1, <2>5 DEF ResumeImport
    <3>2. MovesTo(e, "ready")
      BY <1>1, <1>2, <3>1, GotoMoves
    <3>3. Named(e)'
      BY <3>2, NotInside
    <3>4. QED
      BY <1>2, <1>4, <2>3, <3>2, <3>3, ImportFine DEF ImportStatuses
  <2>6. QED
    BY <1>1, <2>4, <2>5 DEF Stages
<1>5. CASE ~(admitted /\ row.seq > flow[e].seq) /\ ~resumed
  <2>1. row' = row /\ Exits(e, "fatal")
    BY <1>5 DEF ResumeImport
  <2>2. QED
    BY <2>1, FatalFine
<1>6. QED
  BY <1>3, <1>4, <1>5

-----------------------------------------------------------------------------
(* The end of an execution, and its start *)

LEMMA CancelledOnward ==
  ASSUME row \in Row, row' = Cancelled, row.status = "cancelling"
  PROVE  row' \in Row /\ Mild
<1>1. "cancelled" \in Statuses
  BY DEF Statuses
<1>2. /\ row' \in Row /\ row'.rev = Bumped.rev /\ row'.exec = Bumped.exec
      /\ row'.scanned = Bumped.scanned /\ row'.cleanup = Bumped.cleanup
      /\ row'.writes = Bumped.writes /\ row'.status = "cancelled"
  BY <1>1, BumpedMore DEF Cancelled, Row
<1>3. Gentle
  BY <1>2, EditedGently
<1>4. QED
  BY <1>2, <1>3 DEF Mild, ImportStatuses

LEMMA EndsHold ==
  ASSUME Inv, Held, row' \in Row, NEW e \in DOMAIN flow,
         \/ Finalize(e) \/ RecordFailure(e) \/ FinalizerFails(e) \/ ImportFails(e)
  PROVE  Held'
<1>1. row \in Row /\ flow[e] \in Flows
  BY DEF Inv, Held
<1>2. PICK pc \in {"recording", "ended", "importFailing"} : Goto(e, pc)
  BY DEF Finalize, RecordFailure, FinalizerFails, ImportFails
<1>3. pc \in Pcs \ {"start", "install", "scan"} /\ pc \notin Importing
  BY <1>2 DEF Pcs, Live, Importing
<1>4. MovesTo(e, pc)
  BY <1>1, <1>2, <1>3, GotoMoves
<1>5. Onward /\ (Current(e) \/ row' = row)
  <2>1. CASE row' = row
    BY <1>1, <2>1, SameIsMild DEF Mild, Gentle
  <2>2. CASE Finalize(e) /\ row' # row
    <3>1. Cancelling(e) /\ row' = Cancelled
      BY <2>2 DEF Finalize
    <3>2. QED
      BY <1>1, <3>1, CancelledOnward DEF Cancelling, Mild, Gentle
  <2>3. CASE RecordFailure(e) /\ row' # row
    <3> DEFINE gate == IF row.scanned /\ ~row.accepted THEN Bumped.gate
                       ELSE Gate("Retry", IF row.scanned THEN "import" ELSE "scan",
                                 row.seq + 1)
    <3>1. /\ Current(e) /\ row.status \notin Final \union Failed
          /\ row' = [Bumped EXCEPT
                       !.status = "failed", !.seq = row.seq + 1,
                       !.retryable = (flow[e].exit = "retryable"), !.gate = gate]
      BY <2>3 DEF RecordFailure
    <3> HIDE DEF gate
    <3>2. row'.rev = Bumped.rev /\ row'.exec = Bumped.exec /\ row'.status = "failed"
      BY <1>1, <3>1, BumpedMore DEF Row
    <3>3. QED
      BY <1>1, <3>1, <3>2, BumpedMore DEF Onward, Current, Exists
  <2>4. CASE FinalizerFails(e) \/ ImportFails(e)
    BY <1>1, <2>4, SameIsMild DEF FinalizerFails, ImportFails, Mild, Gentle
  <2>5. QED
    BY <2>1, <2>2, <2>3, <2>4
<1>6. QED
  BY <1>3, <1>4, <1>5, LeavesFine

\* An execution that begins its scan has written nothing yet.
LEMMA BeginsFine ==
  ASSUME NEW e \in DOMAIN flow, Fine(e), Running(e, {"start", "install"}),
         NEW pc \in {"start", "install", "scan", "closing"}, e \in DOMAIN flow',
         flow'[e].pc = pc, flow'[e].unit = flow[e].unit
  PROVE  Fine(e)'
<1>1. \A u \in Units : flow'[e].unit[u].at # "writing"
  BY DEF Fine, Untouched
<1>2. pc \notin Importing
  BY DEF Importing
<1>3. QED
  BY <1>1, <1>2, RestsFine DEF OneWriter

LEMMA StartCreateHolds ==
  ASSUME JiraAssumption, Inv, Held, row' \in Row, CreatedOverNobody,
         NEW e \in DOMAIN flow, NEW lost \in BOOLEAN, StartCreate(e, lost)
  PROVE  Held'
<1>1. /\ row \in Row /\ flow[e] \in Flows /\ Fine(e) /\ e = Create
      /\ Running(e, {"start", "install"})
  BY DEF Inv, Held, StartCreate, Running
<1>2. PICK pc \in {"start", "scan"} : Goto(e, pc)
  BY DEF StartCreate
<1>3. pc \in Pcs
  BY <1>2 DEF Pcs, Live
<1>4. MovesTo(e, pc)
  BY <1>1, <1>2, <1>3, GotoMoves
<1>5. Fine(e)'
  BY <1>1, <1>4, BeginsFine DEF MovesTo, Alone
<1>6. CASE Exists
  <2>1. Mild
    BY <1>1, <1>6, SameIsMild DEF StartCreate
  <2>2. QED
    BY <1>4, <1>5, <2>1, OthersFine DEF MovesTo, Mild, Gentle
<1>7. CASE ~Exists
  <2>1. row' = [NoRow EXCEPT !.status = "scanning", !.exec = e]
    BY <1>7 DEF StartCreate
  <2>2. row'.exec = e /\ row'.status = "scanning" /\ e # <<0, 0>>
    BY <1>1, <2>1 DEF NoRow, Create
  <2>3. ASSUME NEW x \in DOMAIN flow, x # e
        PROVE  Fine(x)'
    <3>1. flow'[x] = flow[x] /\ Fine(x) /\ x \in DOMAIN flow'
      BY <1>4, <2>3 DEF Held, MovesTo, Alone
    <3>2. ~AtWork(x)
      BY <1>7, <2>2, <2>3 DEF CreatedOverNobody, Exists
    <3>3. ~AtWork(x)'
      BY <2>3, <3>1, <3>2 DEF AtWork, At, Running
    <3>4. ~Current(x)'
      BY <2>2, <2>3 DEF Current
    <3>5. Late(x)' /\ Imports(x)' /\ Named(x)'
      BY <3>3, <3>4 DEF Late, Imports, Named
    <3>6. Untouched(x)' /\ OneWriter(x)'
      BY <2>3, <3>1 DEF Fine, Untouched, OneWriter, Running
    <3>7. QED
      BY <3>5, <3>6 DEF Fine
  <2>4. Asked'
    BY <1>1, <2>2 DEF Asked
  <2>5. QED
    BY <1>4, <1>5, <2>3, <2>4 DEF Held, MovesTo, Alone
<1>8. QED
  BY <1>6, <1>7

\* What an execution that takes over leaves of the others: it asks them to stop.
LEMMA TakesOverIs ==
  ASSUME Inv, Held, NEW e \in DOMAIN flow, TakesOver(e)
  PROVE  /\ DOMAIN flow' = DOMAIN flow
         /\ flow'[e] \in Flows /\ flow'[e].unit = flow[e].unit /\ flow'[e].pc = "scan"
         /\ \A x \in DOMAIN flow : x # e =>
              /\ flow'[x] \in Flows
              /\ flow'[x].pc = flow[x].pc /\ flow'[x].unit = flow[x].unit
<1>1. DOMAIN flow \subseteq Executions /\ \A x \in DOMAIN flow : flow[x] \in Flows
  BY DEF Inv, TypeOK, Held
<1>2. DOMAIN flow' = DOMAIN flow
  BY DEF TakesOver
<1>3. ASSUME NEW x \in DOMAIN flow, x # e
      PROVE  /\ flow'[x] \in Flows
             /\ flow'[x].pc = flow[x].pc /\ flow'[x].unit = flow[x].unit
  <2>1. flow'[x] = flow[x] \/ flow'[x] = [flow[x] EXCEPT !.stop = TRUE]
    BY <1>3 DEF TakesOver
  <2>2. CASE flow'[x] = flow[x]
    BY <1>1, <2>2
  <2>3. CASE flow'[x] = [flow[x] EXCEPT !.stop = TRUE]
    BY <1>1, <2>3 DEF Flows
  <2>4. QED
    BY <2>1, <2>2, <2>3
<1>4. flow'[e] \in Flows /\ flow'[e].unit = flow[e].unit /\ flow'[e].pc = "scan"
  <2>1. flow'[e] = [flow[e] EXCEPT !.pc = "scan"]
    <3>1. Attempt(e) \in Nat
      BY <1>1 DEF Attempt, Executions
    <3>2. e \notin Superseded(e)
      BY <3>1 DEF Superseded, StillAsked
    <3>3. QED
      BY <3>2 DEF TakesOver
  <2>2. "scan" \in Pcs
    BY DEF Pcs, Live
  <2>3. QED
    BY <1>1, <2>1, <2>2 DEF Flows
<1>5. QED
  BY <1>2, <1>3, <1>4

\* The row stays, one execution takes a step outside of the import, the others are asked
\* to stop at most.
LEMMA TakingHolds ==
  ASSUME Inv, Held, NEW e \in DOMAIN flow, row' = row, DOMAIN flow' = DOMAIN flow,
         flow'[e] \in Flows, Fine(e)',
         \A x \in DOMAIN flow : x # e =>
           /\ flow'[x] \in Flows
           /\ flow'[x].pc = flow[x].pc /\ flow'[x].unit = flow[x].unit
  PROVE  Held'
<1>1. /\ row \in Row /\ DOMAIN flow \subseteq Executions
      /\ \A x \in DOMAIN flow : flow[x] \in Flows /\ Fine(x)
  BY DEF Inv, TypeOK, Held
<1>2. Mild
  BY <1>1, SameIsMild
<1>3. ASSUME NEW x \in DOMAIN flow, x # e
      PROVE  Fine(x)'
  BY <1>1, <1>2, <1>3, StaysFine DEF Row
<1>4. Asked'
  BY DEF Held, Asked, Exists
<1>5. QED
  BY <1>3, <1>4 DEF Held

LEMMA RescanReadsHolds ==
  ASSUME Inv, Held, NEW e \in DOMAIN flow, RescanReads(e)
  PROVE  Held'
<1>1. /\ row \in Row /\ flow[e] \in Flows /\ Fine(e) /\ row' = row
      /\ Running(e, {"start", "install"})
  BY DEF Inv, Held, RescanReads, Running
<1>2. CASE Exits(e, "fatal")
  BY <1>1, <1>2, FatalFine
<1>3. CASE Goto(e, "install")
  <2>1. "install" \in Pcs
    BY DEF Pcs, Live
  <2>2. MovesTo(e, "install")
    BY <1>1, <1>3, <2>1, GotoMoves
  <2>3. Fine(e)'
    BY <1>1, <2>2, BeginsFine DEF MovesTo, Alone
  <2>4. QED
    BY <1>1, <2>2, <2>3, SameIsMild, OthersFine DEF MovesTo, Mild, Gentle
<1>4. CASE TakesOver(e)
  <2>1. Fine(e)'
    BY <1>1, <1>4, TakesOverIs, BeginsFine
  <2>2. QED
    BY <1>1, <1>4, <2>1, TakesOverIs, TakingHolds
<1>5. QED
  BY <1>2, <1>3, <1>4 DEF RescanReads

LEMMA InstalledMore ==
  ASSUME row \in Row, NEW e \in Executions, row' = Installed(e)
  PROVE  /\ row' \in Row /\ row'.status = "scanning" /\ row'.exec = e
         /\ row'.rev = row.rev + 1
<1>1. /\ row' \in Row /\ row'.status = "scanning" /\ row'.exec = e
  BY InstalledFields
<1>2. row'.rev = row.rev + 1
  BY BumpedMore DEF Installed, Row
<1>3. QED
  BY <1>1, <1>2

\* A new attempt takes the row over: nobody is at work for it.
LEMMA InstalledHolds ==
  ASSUME Inv, Held, NEW e \in DOMAIN flow, row' = Installed(e), Exists,
         row.rev = AskedAt(e), Attempt(e) = Attempt(row.exec) + 1,
         DOMAIN flow' = DOMAIN flow, ~AtWork(e)',
         \A x \in DOMAIN flow : flow'[x] \in Flows,
         \A x \in DOMAIN flow :
           \/ x # e /\ flow'[x].pc = flow[x].pc /\ flow'[x].unit = flow[x].unit
           \/ x = e /\ Untouched(x)' /\ OneWriter(x)'
  PROVE  Held'
<1>1. /\ row \in Row /\ DOMAIN flow \subseteq Executions /\ row.rev \in Nat
      /\ row.exec \in Executions /\ e \in Executions
  BY DEF Inv, TypeOK, Row, Held, Asked
<1>2. /\ row' \in Row /\ row'.status = "scanning" /\ row'.exec = e
      /\ row'.rev = row.rev + 1
  BY <1>1, InstalledMore
<1>3. e # Create /\ e # <<0, 0>>
  BY <1>1 DEF Attempt, Executions, Create
<1>4. Asked'
  BY <1>1, <1>2, <1>3 DEF Asked
<1>5. ASSUME NEW x \in DOMAIN flow, x # e
      PROVE  Fine(x)'
  <2>1. Fine(x) /\ flow'[x].pc = flow[x].pc /\ flow'[x].unit = flow[x].unit
    BY <1>5 DEF Held
  <2>2. AtWork(x)' <=> AtWork(x)
    BY <1>5, <2>1 DEF AtWork, At, Running
  <2>3. ~Current(x)'
    BY <1>2, <1>5 DEF Current
  <2>4. AskedAt(x) \in Nat
    BY <1>1 DEF Executions, AskedAt
  <2>5. Late(x)'
    BY <1>1, <1>2, <2>1, <2>2, <2>4 DEF Fine, Late
  <2>6. Untouched(x)' /\ OneWriter(x)'
    BY <1>5, <2>1 DEF Fine, Untouched, OneWriter, Running
  <2>7. QED
    BY <2>3, <2>5, <2>6 DEF Fine, Imports, Named
<1>6. Fine(e)'
  <2>1. ~Inside(e)' /\ ~Running(e, Importing \ {"read"})'
    BY DEF AtWork, Inside, Running, At, Importing
  <2>2. QED
    BY <2>1 DEF Fine, Late, Imports, Named
<1>7. QED
  BY <1>4, <1>5, <1>6 DEF Held

LEMMA RescanInstallsHolds ==
  ASSUME Inv, Held, NEW e \in DOMAIN flow, RescanInstalls(e)
  PROVE  Held'
<1>1. /\ row \in Row /\ flow[e] \in Flows /\ Fine(e)
      /\ Running(e, {"start", "install"})
  BY DEF Inv, Held, RescanInstalls, Running
<1>2. CASE TakesOver(e)
  <2>1. Fine(e)' /\ (\A u \in Units : flow'[e].unit[u].at # "writing")
    BY <1>1, <1>2, TakesOverIs, BeginsFine DEF Fine, Untouched
  <2>2. CASE StillAsked(e)
    <3>1. row' = Installed(e) /\ Exists
      BY <2>2 DEF RescanInstalls, StillAsked, Rescannable, Exists
    <3>2. ~AtWork(e)'
      BY <1>2, <2>1, TakesOverIs DEF AtWork, At, Running, Importing
    <3>3. Untouched(e)' /\ OneWriter(e)'
      BY <2>1 DEF Fine
    <3>4. QED
      BY <1>2, <2>2, <3>1, <3>2, <3>3, TakesOverIs, InstalledHolds DEF StillAsked
  <2>3. CASE ~StillAsked(e)
    <3>1. row' = row
      BY <2>3 DEF RescanInstalls
    <3>2. QED
      BY <1>2, <2>1, <3>1, TakesOverIs, TakingHolds
  <2>4. QED
    BY <2>2, <2>3
<1>3. CASE ~StillAsked(e) /\ Exits(e, "fatal")
  <2>1. row' = row
    BY <1>3 DEF RescanInstalls
  <2>2. QED
    BY <1>1, <1>3, <2>1, FatalFine
<1>4. QED
  BY <1>2, <1>3 DEF RescanInstalls

-----------------------------------------------------------------------------
(* The commands, the handlers, the cleanup and a restart *)

LEMMA QuietHolds ==
  ASSUME Inv, Held, row' \in Row, Mild, DOMAIN flow' = DOMAIN flow,
         \A x \in DOMAIN flow :
           /\ flow'[x] \in Flows
           /\ flow'[x].pc = flow[x].pc /\ flow'[x].unit = flow[x].unit
  PROVE  Held'
<1>1. /\ row \in Row /\ DOMAIN flow \subseteq Executions /\ row.rev \in Nat
      /\ row'.rev \in Nat /\ row.exec \in Executions \cup {<<0, 0>>}
  BY DEF Inv, TypeOK, Row
<1>2. ASSUME NEW x \in DOMAIN flow
      PROVE  Fine(x)'
  BY <1>1, StaysFine DEF Held
<1>3. Asked'
  <2>1. Exists => row.exec \in Executions
    BY <1>1 DEF Held, Asked
  <2>2. \A x \in Executions : AskedAt(x) \in Nat
    BY DEF Executions, AskedAt
  <2>3. QED
    BY <1>1, <2>1, <2>2 DEF Held, Asked, Mild, Gentle, Onward, Exists
<1>4. QED
  BY <1>2, <1>3 DEF Held

LEMMA SameFlowHolds ==
  ASSUME Inv, Held, row' \in Row, Mild, flow' = flow
  PROVE  Held'
BY QuietHolds DEF Held

LEMMA StartedHolds ==
  ASSUME JiraAssumption, Inv, Held, NEW e \in Executions, row' = row,
         flow' = Executed(e)
  PROVE  Held'
<1>1. row \in Row
  BY DEF Inv
<1>2. CASE e \in DOMAIN flow
  BY <1>1, <1>2, SameIsMild, SameFlowHolds DEF Executed
<1>3. CASE e \notin DOMAIN flow
  <2>1. /\ DOMAIN flow' = DOMAIN flow \cup {e} /\ flow'[e] = NewFlow
        /\ \A x \in DOMAIN flow : flow'[x] = flow[x]
    BY <1>3 DEF Executed
  <2>2. NewFlow \in Flows
    BY DEF NewFlow, Flows, Pcs, Live, Ats, Nexts, Stages
  <2>3. /\ NewFlow.pc = "start"
        /\ \A u \in Units : NewFlow.unit[u].at # "writing"
    BY DEF NewFlow
  <2>4. "start" \notin Importing
    BY DEF Importing
  <2>5. Fine(e)'
    BY <2>1, <2>3, <2>4, RestsFine DEF OneWriter
  <2>6. \A x \in DOMAIN flow : Fine(x)'
    <3>1. DOMAIN flow \subseteq Executions /\ row.rev \in Nat /\ row'.rev \in Nat /\ Mild
      BY <1>1, SameIsMild DEF Inv, TypeOK
    <3>2. QED
      BY <2>1, <3>1, StaysFine DEF Held
  <2>7. Asked'
    BY DEF Held, Asked, Exists
  <2>8. QED
    BY <2>1, <2>2, <2>5, <2>6, <2>7 DEF Held
<1>4. QED
  BY <1>2, <1>3

LEMMA InterruptedSame ==
  ASSUME Held, NEW e, flow' = Interrupted(flow, e)
  PROVE  /\ DOMAIN flow' = DOMAIN flow
         /\ \A x \in DOMAIN flow :
              /\ flow'[x] \in Flows
              /\ flow'[x].pc = flow[x].pc /\ flow'[x].unit = flow[x].unit
<1>1. \A x \in DOMAIN flow : flow[x] \in Flows
  BY DEF Held
<1>2. CASE flow' = flow
  BY <1>1, <1>2
<1>3. CASE e \in DOMAIN flow /\ flow' = [flow EXCEPT ![e].stop = TRUE]
  <2>1. flow'[e] = [flow[e] EXCEPT !.stop = TRUE]
    BY <1>3
  <2>2. /\ flow'[e] \in Flows
        /\ flow'[e].pc = flow[e].pc /\ flow'[e].unit = flow[e].unit
    BY <1>1, <1>3, <2>1 DEF Flows
  <2>3. DOMAIN flow' = DOMAIN flow /\ \A x \in DOMAIN flow : x # e => flow'[x] = flow[x]
    BY <1>3
  <2>4. QED
    BY <1>1, <2>2, <2>3
<1>4. QED
  BY <1>2, <1>3 DEF Interrupted

LEMMA RescanBeginsHolds ==
  ASSUME Inv, Held, RescanBegins
  PROVE  Held'
<1>1. /\ row \in Row /\ DOMAIN flow \subseteq Executions
      /\ \A x \in DOMAIN flow : flow[x] \in Flows /\ Fine(x)
  BY DEF Inv, TypeOK, Held
<1>2. /\ DOMAIN flow' = DOMAIN flow
      /\ \A x \in DOMAIN flow :
           /\ flow'[x] \in Flows
           /\ flow'[x].pc = flow[x].pc /\ flow'[x].unit = flow[x].unit
  BY <1>1, InterruptedSame DEF RescanBegins
<1>3. CASE row' = row
  BY <1>1, <1>2, <1>3, SameIsMild, QuietHolds
<1>4. CASE row' # row
  <2>0. PICK k \in DOMAIN flow : k = rescan.key
    BY DEF Inv, RescanTyped, RescanBegins
  <2>1. row' = Installed(k) /\ RescanAdmitted(k)
    BY <1>4, <2>0 DEF RescanBegins
  <2>2. k # Create
    <3>1. row.exec \in Executions
      BY <1>1, <2>1 DEF Row, Held, Asked, RescanAdmitted
    <3>2. QED
      BY <2>1, <3>1 DEF RescanAdmitted, Attempt, Executions, Create
  <2>3. ~AtWork(k)
    <3>1. Late(k) /\ AskedAt(k) \in Nat
      BY <1>1 DEF Fine, Executions, AskedAt
    <3>2. QED
      BY <2>1, <2>2, <3>1 DEF Late, RescanAdmitted
  <2>4. ~AtWork(k)'
    BY <1>1, <1>2, <2>3 DEF AtWork, At, Running
  <2>5. Untouched(k)' /\ OneWriter(k)'
    BY <1>1, <1>2 DEF Fine, Untouched, OneWriter, Running
  <2>6. QED
    BY <1>1, <1>2, <2>1, <2>4, <2>5, InstalledHolds DEF RescanAdmitted
<1>5. QED
  BY <1>3, <1>4

LEMMA HandlersHold ==
  ASSUME JiraAssumption, Inv, Held, HandlerStep
  PROVE  Held'
<1>1. row \in Row
  BY DEF Inv
<1>2. ASSUME NEW c \in closing, CancelInterrupts(c)
      PROVE  Held'
  BY <1>1, <1>2, InterruptedSame, SameIsMild, QuietHolds DEF CancelInterrupts
<1>3. ASSUME NEW c \in closing, CancelFinalizes(c)
      PROVE  Held'
  <2>1. row' \in Row /\ Mild
    BY <1>1, <1>3, SameIsMild, CancelledOnward DEF CancelFinalizes, Cancelling
  <2>2. QED
    BY <1>3, <2>1, SameFlowHolds DEF CancelFinalizes
<1>4. CASE ResetAwaited
  <2>1. CASE flow' = flow
    BY <1>1, <1>4, <2>1, SameIsMild, SameFlowHolds DEF ResetAwaited
  <2>2. CASE flow' # flow
    <3>1. flow' = Executed(NextExecution) /\ Current(rescan.exec) /\ row' = row
      BY <1>4, <2>2 DEF ResetAwaited
    <3>2. NextExecution \in Executions
      BY <1>1, <1>4, <3>1, NextExecutionTyped DEF ResetAwaited, RescanTyped, Inv, Current
    <3>3. QED
      BY <3>1, <3>2, StartedHolds
  <2>3. QED
    BY <2>1, <2>2
<1>5. QED
  BY <1>2, <1>3, <1>4, RescanBeginsHolds DEF HandlerStep

LEMMA RunMild ==
  ASSUME row \in Row, Run
  PROVE  Mild
<1> DEFINE scanRetry == IF row.gate.tag = "Retry" THEN row.gate.phase = "scan"
                        ELSE ~row.scanned
           status    == IF scanRetry THEN "scanning" ELSE "migrating"
           accepted  == Bumped.accepted \/ ~scanRetry
<1>1. row' = [Bumped EXCEPT !.status = status, !.accepted = accepted,
                            !.retryable = FALSE]
  BY DEF Run
<1>2. status \in {"scanning", "migrating"}
  OBVIOUS
<1> HIDE DEF status, accepted
<1>3. /\ row'.rev = Bumped.rev /\ row'.exec = Bumped.exec
      /\ row'.scanned = Bumped.scanned /\ row'.cleanup = Bumped.cleanup
      /\ row'.writes = Bumped.writes /\ row'.status = status
  BY <1>1, BumpedMore DEF Row
<1>4. row.status \in {"ready", "reconnect_required", "failed"}
  BY DEF Run, CanRun
<1>5. QED
  BY <1>2, <1>3, <1>4, EditedGently DEF Mild, ImportStatuses

LEMMA ConfigureMild ==
  ASSUME row \in Row, NEW complete \in BOOLEAN, Configure(complete)
  PROVE  Mild
<1> DEFINE status == IF complete THEN "ready" ELSE "needs_configuration"
<1>1. row' = [Bumped EXCEPT !.config = complete, !.retryable = FALSE,
                            !.status = status]
  BY DEF Configure
<1>2. status \in {"ready", "needs_configuration"}
  OBVIOUS
<1> HIDE DEF status
<1>3. /\ row'.rev = Bumped.rev /\ row'.exec = Bumped.exec
      /\ row'.scanned = Bumped.scanned /\ row'.cleanup = Bumped.cleanup
      /\ row'.writes = Bumped.writes /\ row'.status = status
  BY <1>1, BumpedMore DEF Row
<1>4. row.status \in {"needs_configuration", "ready", "failed"}
  BY DEF Configure, CanConfigure
<1>5. QED
  BY <1>2, <1>3, <1>4, EditedGently DEF Mild, ImportStatuses

LEMMA CancelMild ==
  ASSUME row \in Row, Cancel
  PROVE  Mild
<1> DEFINE status == IF Bumped.status \in {"scanning", "migrating", "cancelling"}
                     THEN "cancelling" ELSE "cancelled"
<1>1. row' = [Bumped EXCEPT !.status = status]
  BY DEF Cancel
<1>2. status \in {"cancelling", "cancelled"}
  OBVIOUS
<1> HIDE DEF status
<1>3. /\ row'.rev = Bumped.rev /\ row'.exec = Bumped.exec
      /\ row'.scanned = Bumped.scanned /\ row'.cleanup = Bumped.cleanup
      /\ row'.writes = Bumped.writes /\ row'.status = status
  BY <1>1, BumpedMore DEF Row
<1>4. row.status \notin {"none", "cancelled", "succeeded"}
  BY DEF Cancel, CanCancel
<1>5. QED
  BY <1>2, <1>3, <1>4, EditedGently DEF Mild, ImportStatuses

LEMMA CommandsHold ==
  ASSUME JiraAssumption, Inv, Held, row' \in Row, Command
  PROVE  Held'
<1>1. row \in Row
  BY DEF Inv
<1>2. CASE Run
  BY <1>1, <1>2, RunMild, SameFlowHolds DEF Run
<1>3. CASE Cancel
  BY <1>1, <1>3, CancelMild, SameFlowHolds DEF Cancel
<1>4. ASSUME NEW full \in BOOLEAN, Configure(full)
      PROVE  Held'
  <2>1. Mild
    BY <1>1, <1>4, ConfigureMild
  <2>2. flow' = flow
    BY <1>4 DEF Configure
  <2>3. QED
    BY <2>1, <2>2, SameFlowHolds
<1>5. CASE RetainPublished \/ \E mode \in Removals : Remove(mode)
  BY <1>1, <1>5, SameIsMild, SameFlowHolds DEF RetainPublished, Remove
<1>6. CASE Rescan
  <2>1. CASE row.dest
    BY <1>1, <1>6, <2>1, SameIsMild, SameFlowHolds DEF Rescan
  <2>2. CASE ~row.dest
    <3>1. NextExecution \in Executions
      BY <1>1, <1>6, NextExecutionTyped DEF Rescan
    <3>2. QED
      BY <1>6, <2>2, <3>1, StartedHolds DEF Rescan
  <2>3. QED
    BY <2>1, <2>2
<1>7. QED
  BY <1>2, <1>3, <1>4, <1>5, <1>6 DEF Command

\* A cleanup claims a row only when nobody holds it.
LEMMA ClaimHolds ==
  ASSUME JiraAssumption, Inv, Held, row' \in Row, NEW k \in DOMAIN cleaning,
         NEW lost \in BOOLEAN, ClaimCleanup(k, lost)
  PROVE  Held'
<1>1. /\ row \in Row /\ DOMAIN flow \subseteq Executions /\ flow' = flow
      /\ None \notin Executions /\ row.rev \in Nat
      /\ row.exec \in Executions \cup {<<0, 0>>}
  BY DEF Inv, TypeOK, ClaimCleanup, Row, JiraAssumption
<1>2. CASE row' = row
  BY <1>1, <1>2, SameIsMild, SameFlowHolds
<1>3. CASE row' # row
  <2>1. row' = [Bumped EXCEPT !.cleanup = k] /\ Claimable(k)
    BY <1>3 DEF ClaimCleanup
  <2>2. /\ row'.rev = row.rev + 1 /\ row'.exec = row.exec
        /\ row'.scanned = row.scanned /\ row'.writes = row.writes
        /\ row'.status = row.status
    BY <1>1, <2>1, BumpedMore DEF Row
  <2>3. ASSUME NEW x \in DOMAIN flow
        PROVE  Fine(x)'
    <3>1. Fine(x) /\ x \in Executions /\ AskedAt(x) \in Nat
      BY <1>1 DEF Held, Executions, AskedAt
    <3>2. (Exists' <=> Exists) /\ (Current(x)' <=> Current(x))
      BY <2>2 DEF Exists, Current
    <3>3. (AtWork(x)' <=> AtWork(x)) /\ (Inside(x)' <=> Inside(x))
      BY <1>1, <2>2 DEF AtWork, Inside, At, Running
    <3>4. Late(x)'
      BY <1>1, <2>2, <3>1, <3>2, <3>3 DEF Fine, Late
    <3>5. Untouched(x)' /\ OneWriter(x)'
      BY <1>1, <3>1 DEF Fine, Untouched, OneWriter, Running
    <3>6. Imports(x)'
      BY <1>1, <2>2, <3>1, <3>2 DEF Fine, Imports, Running
    <3>7. Named(x)'
      BY <1>1, <2>1, <2>2, <3>1, <3>2, <3>3 DEF Fine, Named, Claimable
    <3>8. QED
      BY <3>4, <3>5, <3>6, <3>7 DEF Fine
  <2>4. Asked'
    <3>1. \A x \in Executions : AskedAt(x) \in Nat
      BY DEF Executions, AskedAt
    <3>2. QED
      BY <1>1, <2>2, <3>1 DEF Held, Asked, Exists
  <2>5. QED
    BY <1>1, <2>3, <2>4 DEF Held
<1>4. QED
  BY <1>2, <1>3

LEMMA RemovedHolds ==
  ASSUME Held, flow' = flow, ~Exists'
  PROVE  Held'
<1>1. ASSUME NEW x \in DOMAIN flow
      PROVE  Fine(x)'
  <2>1. Fine(x)
    BY DEF Held
  <2>2. ~Current(x)'
    BY DEF Current
  <2>3. Late(x)' /\ Imports(x)' /\ Named(x)'
    BY <2>2 DEF Late, Imports, Named
  <2>4. Untouched(x)' /\ OneWriter(x)'
    BY <2>1 DEF Fine, Untouched, OneWriter, Running
  <2>5. QED
    BY <2>3, <2>4 DEF Fine
<1>2. QED
  BY <1>1 DEF Held, Asked

LEMMA CompleteHolds ==
  ASSUME Inv, Held, row' \in Row, NEW k \in DOMAIN cleaning, NEW lost \in BOOLEAN,
         CompleteCleanup(k, lost)
  PROVE  Held'
<1>1. row \in Row /\ flow' = flow
  BY DEF Inv, CompleteCleanup
<1>2. CASE row' = row
  BY <1>1, <1>2, SameIsMild, SameFlowHolds
<1>3. CASE row' = NoRow
  BY <1>1, <1>3, RemovedHolds DEF NoRow, Exists
<1>4. CASE \/ row' = [Bumped EXCEPT !.dest = FALSE, !.cleanup = None]
           \/ row' = [Bumped EXCEPT !.cleaned = TRUE, !.cleanup = None]
  <2>1. /\ row'.rev = Bumped.rev /\ row'.exec = Bumped.exec
        /\ row'.scanned = Bumped.scanned /\ row'.cleanup = None
        /\ row'.writes = Bumped.writes /\ row'.status = Bumped.status
    BY <1>1, <1>4, BumpedMore DEF Row
  <2>2. Mild
    BY <1>1, <2>1, BumpedMore DEF Mild, Gentle, Onward
  <2>3. QED
    BY <1>1, <2>2, SameFlowHolds
<1>5. QED
  BY <1>2, <1>3, <1>4 DEF CompleteCleanup

LEMMA CleanupsHold ==
  ASSUME JiraAssumption, Inv, Held, row' \in Row, NEW k \in DOMAIN cleaning,
         CleanupStep(k)
  PROVE  Held'
<1>1. row \in Row
  BY DEF Inv
<1>2. ASSUME NEW lost \in BOOLEAN, ClaimCleanup(k, lost) \/ CompleteCleanup(k, lost)
      PROVE  Held'
  BY <1>2, ClaimHolds, CompleteHolds
<1>3. CASE ReleaseCleanup(k)
  <2>1. CASE row' = row
    BY <1>1, <1>3, <2>1, SameIsMild, SameFlowHolds DEF ReleaseCleanup
  <2>2. CASE row' = [Bumped EXCEPT !.cleanup = None]
    <3>1. /\ row'.rev = Bumped.rev /\ row'.exec = Bumped.exec
          /\ row'.scanned = Bumped.scanned /\ row'.cleanup = None
          /\ row'.writes = Bumped.writes /\ row'.status = Bumped.status
      BY <1>1, <2>2, BumpedMore DEF Row
    <3>2. Mild
      BY <1>1, <3>1, BumpedMore DEF Mild, Gentle, Onward
    <3>3. QED
      BY <1>3, <3>2, SameFlowHolds DEF ReleaseCleanup
  <2>3. QED
    BY <1>3, <2>1, <2>2 DEF ReleaseCleanup
<1>4. CASE row' = row /\ flow' = flow
  BY <1>1, <1>4, SameIsMild, SameFlowHolds
<1>5. CASE \/ DeleteCopiedObjects(k) \/ DeletePendingAttachments(k)
           \/ DeleteHiddenDocuments(k) \/ DeleteHiddenProject(k)
           \/ VerifyPermanentArchive(k) \/ DeletePrivateStaging(k)
           \/ CleanupFails(k) \/ ReleaseFails(k)
  BY <1>4, <1>5
  DEF DeleteCopiedObjects, DeletePendingAttachments, DeleteHiddenDocuments,
      DeleteHiddenProject, VerifyPermanentArchive, DeletePrivateStaging,
      CleanupFails, ReleaseFails
<1>6. QED
  BY <1>2, <1>3, <1>5 DEF CleanupStep

LEMMA CrashHolds ==
  ASSUME Inv, Held, Crash
  PROVE  Held'
<1>1. /\ row \in Row /\ row' = row
      /\ \A x \in DOMAIN flow : flow[x] \in Flows /\ Fine(x)
  BY DEF Inv, Held, Crash
<1>2. flow' = [x \in DOMAIN flow |-> Restarted(flow[x])]
  BY DEF Crash
<1>3. ASSUME NEW x \in DOMAIN flow
      PROVE  /\ flow'[x] \in Flows /\ flow'[x].pc \notin Importing \ {"read"}
             /\ \A u \in Units : flow'[x].unit[u].at # "writing"
  <2> DEFINE f    == flow[x]
             pc   == CASE f.pc = "install" -> "start"
                       [] f.pc \in Importing -> "read"
                       [] f.pc = "recording" -> "closing"
                       [] OTHER -> f.pc
             stage == IF f.pc \in Importing THEN "materialize" ELSE f.stage
             unit == [u \in Units |-> IF f.unit[u].at \in {"writing", "stored"}
                                      THEN [at |-> "todo", seq |-> 0] ELSE f.unit[u]]
  <2>1. f \in Flows /\ f.unit \in [Units -> [at : Ats, seq : Nat]]
    BY <1>1 DEF Flows
  <2>2. unit \in [Units -> [at : Ats, seq : Nat]]
        /\ \A u \in Units : unit[u].at # "writing"
    BY <2>1 DEF Ats
  <2>3. pc \in Pcs /\ pc \notin Importing \ {"read"}
    <3>1. f.pc \in Pcs
      BY <2>1 DEF Flows
    <3>2. "read" \in Importing /\ {"start", "read", "closing"} \subseteq Pcs
          /\ "start" \notin Importing /\ "closing" \notin Importing
          /\ "install" \notin Importing /\ "recording" \notin Importing
      BY DEF Pcs, Live, Importing
    <3>3. CASE f.pc = "install"
      BY <3>2, <3>3
    <3>4. CASE f.pc \in Importing
      BY <3>2, <3>4
    <3>5. CASE f.pc = "recording"
      BY <3>2, <3>5
    <3>6. CASE f.pc \notin Importing \cup {"install", "recording"}
      BY <3>1, <3>6
    <3>7. QED
      BY <3>3, <3>4, <3>5, <3>6
  <2>4. stage \in Stages
    BY <2>1 DEF Flows, Stages
  <2>5. flow'[x] = [f EXCEPT !.pc = pc, !.stage = stage, !.unit = unit]
    <3>1. flow'[x] = Restarted(flow[x])
      BY <1>2
    <3>2. QED
      BY <3>1 DEF Restarted
  <2> HIDE DEF f, pc, stage, unit
  <2>6. flow'[x] \in Flows /\ flow'[x].pc = pc /\ flow'[x].unit = unit
    BY <2>1, <2>2, <2>3, <2>4, <2>5 DEF Flows
  <2>7. QED
    BY <2>2, <2>3, <2>6
<1>4. ASSUME NEW x \in DOMAIN flow
      PROVE  Fine(x)'
  <2>1. x \in DOMAIN flow'
    BY <1>2
  <2>2. OneWriter(x)'
    BY <1>3 DEF OneWriter
  <2>3. QED
    BY <1>3, <2>1, <2>2, RestsFine
<1>5. Asked'
  BY <1>1 DEF Held, Asked, Exists
<1>6. QED
  BY <1>2, <1>3, <1>4, <1>5 DEF Held

LEMMA FlowHolds ==
  ASSUME JiraAssumption, Inv, Held, row' \in Row, CreatedOverNobody,
         NEW e \in DOMAIN flow, FlowStep(e)
  PROVE  Held'
<1>1. CASE \E u \in Units : UnitStep(e, u)
  BY <1>1, BeginUnitHolds, SettleUnitHolds, UnitFailsHolds, ResumeScanHolds,
     ProgressHolds, ScanFailureHolds DEF UnitStep
<1>2. CASE \/ \E lost \in BOOLEAN :
                \/ StartCreate(e, lost) \/ CompleteScan(e, lost)
                \/ PublishJiraMigrationAtomically(e, lost)
                \/ \E outcome \in Outcomes : RecordImportFailure(e, outcome, lost)
           \/ RescanReads(e) \/ RescanInstalls(e)
  BY <1>2, StartCreateHolds, CompleteScanHolds, PublishHolds, ImportFailureHolds,
     RescanReadsHolds, RescanInstallsHolds
<1>3. CASE \/ StartImport(e) \/ ReadAttempt(e) \/ BeginPreparation(e)
           \/ SettlePreparation(e) \/ BeginImport(e) \/ EnsureHiddenProject(e)
           \/ CopyAttachment(e) \/ AttachmentSent(e) \/ InsertAttachment(e)
           \/ WriteHiddenDocuments(e) \/ VerifyHiddenMaterialization(e)
           \/ SettleImport(e) \/ ResumeImport(e)
  BY <1>3, ReadsHold, PreparationHolds, BeginImportHolds, MaterializeHolds,
     SettleImportHolds, ResumeImportHolds
<1>4. CASE \/ ImportFails(e) \/ Finalize(e) \/ RecordFailure(e) \/ FinalizerFails(e)
  BY <1>4, EndsHold
<1>5. CASE ObserveInterrupt(e) \/ \E exit \in {"fatal", "retryable"} : Breaks(e, exit)
  BY <1>5, FatalFine DEF ObserveInterrupt, Breaks
<1>6. QED
  BY <1>1, <1>2, <1>3, <1>4, <1>5 DEF FlowStep

LEMMA NextHolds ==
  ASSUME JiraAssumption, Inv, Held, row' \in Row, CreatedOverNobody, Next
  PROVE  Held'
<1>1. CASE Lands
  BY <1>1, SameIsMild, SameFlowHolds DEF Lands, PutLands, Inv
<1>2. QED
  BY <1>1, FlowHolds, CleanupsHold, HandlersHold, CommandsHold, CrashHolds DEF Next

LEMMA InitHeld ==
  ASSUME JiraAssumption, Init
  PROVE  Held
<1>1. flow = [e \in {Create} |-> NewFlow] /\ ~Exists
  BY DEF Init, NoRow, Exists
<1>2. NewFlow \in Flows
  BY DEF NewFlow, Flows, Pcs, Live, Ats, Nexts, Stages
<1>3. /\ NewFlow.pc = "start"
      /\ \A u \in Units : NewFlow.unit[u].at # "writing"
  BY DEF NewFlow
<1>4. \A e \in DOMAIN flow : Fine(e)
  BY <1>1, <1>3 DEF Fine, Late, Untouched, OneWriter, Imports, Named, Current, Running
<1>5. QED
  BY <1>1, <1>2, <1>4 DEF Held, Asked

\* As long as rows are created under no execution that is at work, whoever is
\* inside a write of its scan or inside its import holds the row by its intent,
\* and no cleanup does: what is written is not deleted under its writer, however
\* commands, failures, rescans, removals and restarts come in between.
THEOREM WritersAreNamed == Spec /\ [][CreatedOverNobody]_vars => []WritersHoldTheRow
<1>1. Init => Held
  BY JiraAssumption, InitHeld
<1>2. Inv /\ Inv' /\ Held /\ [Next]_vars /\ [CreatedOverNobody]_vars => Held'
  <2>1. ASSUME Inv, Inv', Held, Next, CreatedOverNobody
        PROVE  Held'
    BY <2>1, JiraAssumption, NextHolds DEF Inv
  <2>2. ASSUME Inv, Held, UNCHANGED vars
        PROVE  Held'
    <3>1. row' = row /\ flow' = flow
      BY <2>2 DEF vars
    <3>2. QED
      BY <2>2, <3>1, SameIsMild, SameFlowHolds DEF Inv
  <2>3. QED
    BY <2>1, <2>2
<1>3. Held => WritersHoldTheRow
  BY DEF Held, Fine, Named, WritersHoldTheRow
<1>4. QED
  BY <1>1, <1>2, <1>3, Invariance, PTL DEF Spec
=============================================================================
