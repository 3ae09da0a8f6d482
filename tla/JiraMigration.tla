----------------------------- MODULE JiraMigration -----------------------------
(***************************************************************************)
(* The durable migration of a Jira project: the row of jira_migration that *)
(* every party reads and fences itself by, the executions of the migration *)
(* workflow (one per attempt, the older ones superseded by a rescan), the  *)
(* executions of the cleanup workflow, the commands of the user, and the   *)
(* remote writes that a stopped execution may still have under way.        *)
(*                                                                         *)
(* The workflow engine is external: what an activity returned is durable,  *)
(* an activity whose result was not recorded runs again after a crash, an  *)
(* interruption is observed between two steps, an execution is identified  *)
(* by its idempotency key and a finished key is never run again.           *)
(***************************************************************************)
EXTENDS Naturals, FiniteSets

CONSTANTS
  Pages,        \* the pages of the scan, fetched and stored concurrently
  Manifest,     \* the unit that closes the scan, once every page is stored
  Prepared,     \* the prepared publication, stored before the import
  Attachment,   \* the attachment that the import copies
  Outcomes,     \* the statuses a retryable failure may leave
  Removals,     \* the cleanups that remove a migration: by the user, by age
  MaxAttempts,  \* bound: attempts of the migration (the first and its rescans)
  MaxCommands,  \* bound: accepted commands of the user and of the retention
  MaxFailures,  \* bound: failures and crashes
  None

Units    == Pages \union {Manifest}
Remote   == Units \union {Prepared, Attachment}
Stages   == {"materialize", "publish"}
Statuses == {"none", "scanning", "needs_configuration", "ready", "migrating",
             "cancelling", "cancelled", "failed", "reconnect_required",
             "succeeded"}
Modes    == {"reset_import", "discard", "expire", "post_success"}

\* The key of an execution: its attempt and the revision it was asked at. The
\* key of a cleanup: its mode and the revision that its claim installs.
Executions == (1..MaxAttempts) \X Nat
Cleanups   == Modes \X Nat

ASSUME JiraAssumption ==
  /\ IsFiniteSet(Pages)
  /\ {Manifest, Prepared, Attachment, None} \cap Pages = {}
  /\ Manifest # Prepared /\ Manifest # Attachment /\ Prepared # Attachment
  /\ None \notin {Manifest, Prepared, Attachment}
  /\ None \notin Executions /\ None \notin Cleanups
  /\ Outcomes \subseteq {"failed", "reconnect_required"} /\ Outcomes # {}
  /\ Removals \subseteq {"discard", "expire"}
  /\ MaxAttempts \in Nat \ {0} /\ MaxCommands \in Nat /\ MaxFailures \in Nat

VARIABLES
  row,       \* the row of jira_migration
  project,   \* the row of project_index: "none", "hidden" or "published"
  docs,      \* are the documents of the project on disk?
  upload,    \* the row of the attachment: "none", "pending" or "live"
  stored,    \* the remote objects that exist
  flying,    \* the remote writes that may still land, with their execution
  flow,      \* the executions of the migration workflow, by idempotency key
  signal,    \* the completed deferreds: an execution and its gate
  cleaning,  \* the executions of the cleanup workflow, by idempotency key
  rescan,    \* the handler of a rescan
  closing,   \* the handlers of accepted cancellations, with what is left
  commands, failures

vars == <<row, project, docs, upload, stored, flying, flow, signal, cleaning,
          rescan, closing, commands, failures>>

Create     == <<1, 0>>

Gate(tag, phase, seq) == [tag |-> tag, phase |-> phase, seq |-> seq]
NoGate          == Gate("None", "none", 0)
StartImportGate == Gate("StartImport", "none", 0)

\* No row of that id: not created yet, or deleted by a cleanup. receipt holds
\* the failure that was recorded for the current try of an operation.
NoRow ==
  [status |-> "none", rev |-> 0, exec |-> <<0, 0>>, scanned |-> FALSE,
   dest |-> FALSE, config |-> FALSE, accepted |-> FALSE, gate |-> NoGate,
   seq |-> 0, retryable |-> FALSE,
   receipt |-> [op \in Units \union Stages |-> 0], counted |-> {},
   writes |-> None, cleaned |-> FALSE, cleanup |-> None]

NewFlow ==
  [pc |-> "start", unit |-> [u \in Units |-> [at |-> "todo", seq |-> 0]],
   next |-> "prepare", stage |-> "materialize", seq |-> 0,
   exit |-> "none", stop |-> FALSE]

Idle == [pc |-> "idle", key |-> None, exec |-> None]

Init ==
  /\ row = NoRow /\ project = "none" /\ docs = FALSE /\ upload = "none"
  /\ stored = {} /\ flying = {} /\ signal = {}
  /\ flow = [e \in {Create} |-> NewFlow]
  /\ cleaning = [k \in {} |-> "failed"]
  /\ rescan = Idle
  /\ closing = {} /\ commands = 0 /\ failures = 0

--------------------------------------------------------------------------------
(* What the row admits *)

Exists     == row.status # "none"
Current(e) == Exists /\ row.exec = e
Free       == row.cleanup = None
Attempt(e) == e[1]
AskedAt(e) == e[2]

CanConfigure ==
  /\ Free /\ row.status \in {"needs_configuration", "ready", "failed"}
  /\ row.status = "failed" => row.scanned
CanRun ==
  /\ Free /\ row.status \in {"ready", "reconnect_required", "failed"}
  /\ row.status = "failed" => row.retryable
Rescannable == {"needs_configuration", "ready", "failed", "reconnect_required",
                "cancelled"}
CanRescan == Free /\ row.writes = None /\ row.status \in Rescannable
\* Fault: a published migration can still be cancelled.
CanCancelAnything == Free /\ row.status \notin {"none", "cancelled"}
CanCancel  == Free /\ row.status \notin {"none", "cancelled", "succeeded"}
CanDiscard ==
  Free /\ row.writes = None /\ row.status \in {"failed", "cancelled"}

CleanupStatusesFor(mode) ==
  CASE mode = "reset_import" -> Rescannable
    [] mode = "post_success" -> {"succeeded"}
    [] OTHER -> {"failed", "cancelled"}

\* Every write of the row but the intent and the hidden project bumps this.
Bumped == [row EXCEPT !.rev = @ + 1]

Goto(e, pc) == flow' = [flow EXCEPT ![e].pc = pc]
Running(e, pcs) == e \in DOMAIN flow /\ flow[e].pc \in pcs
Exits(e, exit) == flow' = [flow EXCEPT ![e].pc = "closing", ![e].exit = exit]
Failing == failures < MaxFailures /\ failures' = failures + 1
Commanded == commands < MaxCommands /\ commands' = commands + 1

\* An execution is started once per key: a key that has run is only joined.
Executed(e) == IF e \in DOMAIN flow THEN flow
               ELSE [x \in DOMAIN flow \union {e} |->
                      IF x = e THEN NewFlow ELSE flow[x]]
CleanupExecuted(k) == IF k \in DOMAIN cleaning THEN cleaning
                      ELSE [x \in DOMAIN cleaning \union {k} |->
                             IF x = k THEN "claim" ELSE cleaning[x]]
Interrupted(f, e) == IF e \in DOMAIN f /\ f[e].pc # "ended"
                     THEN [f EXCEPT ![e].stop = TRUE] ELSE f

handlers == <<signal, cleaning, rescan, closing>>
data == <<project, docs, upload>>
bounds == <<commands, failures>>

--------------------------------------------------------------------------------
(* The intent that is recorded before a remote write and cleared after it *)

\* A scan that is complete, or a publication, is only written again as it was.
Rewrites ==
  \/ row.scanned /\ row.status \in {"needs_configuration", "ready"}
  \/ row.status = "succeeded"
BeginAccepted(e) ==
  /\ Current(e) /\ Free /\ row.status \notin {"cancelling", "cancelled"}
  /\ \/ row.writes = e
     \/ /\ row.writes = None
        /\ \/ Rewrites
           \/ row.status \in {"scanning", "migrating"}
           \/ ~row.scanned /\ row.status \in {"failed", "reconnect_required"}
Begun(e) == IF row.writes = None /\ Rewrites THEN row
            ELSE [row EXCEPT !.writes = e]

SettleAccepted(e) == Current(e) /\ row.writes \in {None, e}
Settled == [row EXCEPT !.writes = None]

\* The put of an object: it lands before its caller goes on, or, when the
\* caller is stopped or gives up, later or never.
PutLands(w) ==
  /\ w \in flying
  /\ flying' = flying \ {w} /\ stored' = stored \union {w[2]}
  /\ UNCHANGED <<row, data, flow, handlers, bounds>>

\* What may still land of the writes that nobody waits for any more.
LeftOver(gone) == {flying, flying \ gone}

--------------------------------------------------------------------------------
(* The start of an execution: the first attempt, and a rescan *)

StartCreate(e, lost) ==
  /\ Running(e, {"start"}) /\ e = Create
  /\ row' = IF Exists THEN row
            ELSE [NoRow EXCEPT !.status = "scanning", !.exec = e]
  /\ Goto(e, IF lost THEN "start" ELSE "scan")
  /\ IF lost THEN Failing ELSE UNCHANGED failures
  /\ UNCHANGED <<data, stored, flying, handlers, commands>>

RescanAdmitted(e) ==
  /\ Exists /\ row.rev = AskedAt(e) /\ Attempt(e) = Attempt(row.exec) + 1
  /\ CanRescan
\* The second statement of beginRescan compares the revision and the status
\* again, and not the intent of remote writes, which moves without them.
StillAsked(e) ==
  /\ row.rev = AskedAt(e) /\ Attempt(e) = Attempt(row.exec) + 1
  /\ Free /\ row.status \in Rescannable
Installed(e) ==
  [Bumped EXCEPT
     !.exec = e, !.status = "scanning", !.scanned = FALSE, !.config = FALSE,
     !.accepted = FALSE, !.gate = NoGate, !.retryable = FALSE,
     !.receipt = NoRow.receipt, !.counted = {}, !.writes = None]

\* The execution that the rescan was asked to supersede.
Superseded(e) ==
  IF StillAsked(e) THEN {row.exec}
  ELSE {x \in DOMAIN flow : Attempt(x) = Attempt(e) - 1}

\* Once the row names the execution, also if it did so before, it goes on, and the one
\* that it supersedes is interrupted.
TakesOver(e) ==
  flow' = [x \in DOMAIN flow |->
    CASE x = e -> [flow[e] EXCEPT !.pc = "scan"]
      [] x \in Superseded(e) -> [flow[x] EXCEPT !.stop = TRUE]
      [] OTHER -> flow[x]]

RescanReads(e) ==
  /\ Running(e, {"start"}) /\ e # Create
  /\ IF Current(e) THEN TakesOver(e)
     ELSE IF RescanAdmitted(e) THEN Goto(e, "install") ELSE Exits(e, "fatal")
  /\ UNCHANGED <<row, data, stored, flying, handlers, bounds>>

RescanInstalls(e) ==
  /\ Running(e, {"install"})
  /\ row' = IF StillAsked(e) THEN Installed(e) ELSE row
  /\ IF Current(e) \/ StillAsked(e) THEN TakesOver(e) ELSE Exits(e, "fatal")
  /\ UNCHANGED <<data, stored, flying, handlers, bounds>>

--------------------------------------------------------------------------------
(* The units of the scan *)

At(e, u, at) == Running(e, {"scan"}) /\ flow[e].unit[u].at = at
UnitTo(e, u, at, seq) ==
  flow' = [flow EXCEPT ![e].unit[u] = [at |-> at, seq |-> seq]]

\* The semaphore of the artifacts of an execution: one writer at a time.
WriterFree(e) == \A u \in Units : flow[e].unit[u].at # "writing"

BeginUnit(e, u) ==
  /\ At(e, u, "todo") /\ WriterFree(e)
  /\ u = Manifest => \A p \in Pages : flow[e].unit[p].at = "done"
  /\ IF BeginAccepted(e)
     THEN /\ UnitTo(e, u, "writing", 0) /\ row' = Begun(e)
          /\ flying' = flying \union {<<e, u>>}
     ELSE UnitTo(e, u, "failing", 0) /\ UNCHANGED <<row, flying>>
  /\ UNCHANGED <<data, stored, handlers, bounds>>

SettleUnit(e, u) ==
  /\ At(e, u, "writing") /\ <<e, u>> \notin flying
  /\ IF SettleAccepted(e)
     THEN UnitTo(e, u, "stored", 0) /\ row' = Settled
     ELSE UnitTo(e, u, "failing", 0) /\ UNCHANGED row
  /\ UNCHANGED <<data, stored, flying, handlers, bounds>>

\* Fault: progress is recorded for whoever stored the page.
ProgressByAnyone(e) ==
  Exists /\ Free /\ row.status \in {"scanning", "failed", "reconnect_required"}
ProgressAccepted(e) ==
  Current(e) /\ Free /\ row.status \in {"scanning", "failed",
                                        "reconnect_required"}
RecordScanProgress(e, u, lost) ==
  /\ u \in Pages /\ At(e, u, "stored")
  /\ row' = IF ProgressAccepted(e) /\ u \notin row.counted
            THEN [Bumped EXCEPT !.counted = @ \union {u}] ELSE row
  /\ IF ProgressAccepted(e)
     THEN UnitTo(e, u, IF lost THEN "todo" ELSE "done", 0)
     ELSE Exits(e, "fatal")
  /\ IF lost THEN Failing ELSE UNCHANGED failures
  /\ UNCHANGED <<data, stored, flying, handlers, commands>>

\* A scan that was completed before is only confirmed.
Confirmed(e) ==
  /\ Current(e) /\ Free /\ row.scanned
  /\ row.status \in {"needs_configuration", "ready", "migrating"}
Completes(e) == Current(e) /\ Free /\ row.status = "scanning"
CompleteScan(e, lost) ==
  /\ At(e, Manifest, "stored")
  /\ row' = IF ~Confirmed(e) /\ Completes(e)
            THEN [Bumped EXCEPT !.status = "needs_configuration",
                                !.scanned = TRUE, !.gate = StartImportGate]
            ELSE row
  /\ IF ~Confirmed(e) /\ ~Completes(e) THEN Exits(e, "fatal")
     ELSE flow' = [flow EXCEPT
            ![e].pc = IF lost THEN "scan" ELSE "gate",
            ![e].unit[Manifest].at = IF lost THEN "todo" ELSE "done"]
  /\ IF lost THEN Failing ELSE UNCHANGED failures
  /\ UNCHANGED <<data, stored, flying, handlers, commands>>

\* A call of Jira, of the storage or of the database that fails, and that may
\* be tried again.
UnitFails(e, u) ==
  /\ At(e, u, "todo") \/ At(e, u, "writing") \/ At(e, u, "stored")
  /\ u = Manifest => \A p \in Pages : flow[e].unit[p].at = "done"
  /\ Failing /\ UnitTo(e, u, "failing", 0) /\ flying' \in LeftOver({<<e, u>>})
  /\ UNCHANGED <<row, data, stored, handlers, commands>>

\* Fault: a failure that another unit left pending is recorded over.
FailedLogin == {"reconnect_required"}
Failed == {"failed", "reconnect_required"}
Final  == {"succeeded", "cancelled", "cancelling"}
Receipt(op, seq) == [Bumped EXCEPT !.receipt[op] = seq]

RecordScanFailure(e, u, outcome, lost) ==
  /\ At(e, u, "failing")
  /\ LET accepted == Current(e) /\ Free /\ row.status \notin Final
         receipt  == row.receipt[u]
         seq == IF receipt # 0 THEN receipt
                ELSE IF row.status \in Failed THEN row.seq ELSE row.seq + 1
     IN  /\ row' = IF ~accepted \/ receipt # 0 THEN row
                   ELSE IF row.status \in Failed THEN Receipt(u, seq)
                   ELSE [Receipt(u, seq) EXCEPT
                          !.gate = Gate("Retry", "scan", seq), !.seq = seq,
                          !.status = outcome, !.retryable = TRUE]
         /\ IF ~accepted THEN Exits(e, "fatal")
            ELSE IF lost THEN UNCHANGED flow ELSE UnitTo(e, u, "waiting", seq)
  /\ IF lost THEN Failing ELSE UNCHANGED failures
  /\ UNCHANGED <<data, stored, flying, handlers, commands>>

\* A wait goes on when its failure was answered, unless a newer one is pending.
ResumeScan(e, u) ==
  /\ At(e, u, "waiting") /\ <<e, flow[e].unit[u].seq>> \in signal
  /\ LET seq == flow[e].unit[u].seq
         scanned == row.scanned /\ row.status \in {"needs_configuration",
                                                   "ready", "migrating"}
         retryable == ~row.scanned /\ row.retryable /\ row.status \in Failed
         admitted == /\ Current(e) /\ Free
                     /\ scanned \/ retryable \/ row.status = "scanning"
     IN  IF admitted /\ row.seq > seq
         THEN UnitTo(e, u, "waiting", row.seq) /\ UNCHANGED row
         ELSE IF ~admitted \/ row.seq # seq
         THEN Exits(e, "fatal") /\ UNCHANGED row
         ELSE /\ UnitTo(e, u, "todo", 0)
              /\ row' = IF scanned \/ row.status = "scanning"
                        THEN [row EXCEPT !.receipt[u] = 0]
                        ELSE [Bumped EXCEPT !.receipt[u] = 0,
                                !.status = "scanning", !.retryable = FALSE]
  /\ UNCHANGED <<data, stored, flying, handlers, bounds>>

--------------------------------------------------------------------------------
(* The import: materialization under one intent, then publication *)

StartImport(e) ==
  /\ Running(e, {"gate"}) /\ <<e, 0>> \in signal /\ Goto(e, "read")
  /\ UNCHANGED <<row, data, stored, flying, handlers, bounds>>

\* What a stale attempt finds: every write of the import is fenced by this.
Migrating(e) == Current(e) /\ Free /\ row.status = "migrating"

\* Not an activity: it is read again each time the execution is replayed.
ReadAttempt(e) ==
  /\ Running(e, {"read"})
  /\ IF /\ Current(e) /\ row.status \in {"migrating", "succeeded"}
        /\ row.scanned /\ row.accepted
     THEN Goto(e, IF flow[e].next = "prepare" THEN "prepare" ELSE "begin")
     ELSE Exits(e, "fatal")
  /\ UNCHANGED <<row, data, stored, flying, handlers, bounds>>

\* What an activity returned is kept: a replay goes on at what comes next.
Returned(e, next) == flow' = [flow EXCEPT ![e].pc = next, ![e].next = next]

BeginPreparation(e) ==
  /\ Running(e, {"prepare"})
  /\ IF BeginAccepted(e)
     THEN /\ Goto(e, "preparing") /\ row' = Begun(e)
          /\ flying' = flying \union {<<e, Prepared>>}
     ELSE Exits(e, "fatal") /\ UNCHANGED <<row, flying>>
  /\ UNCHANGED <<data, stored, handlers, bounds>>

SettlePreparation(e) ==
  /\ Running(e, {"preparing"}) /\ <<e, Prepared>> \notin flying
  /\ IF SettleAccepted(e)
     THEN /\ flow' = [flow EXCEPT ![e].pc = "begin", ![e].next = "hidden"]
          /\ row' = Settled
     ELSE Exits(e, "fatal") /\ UNCHANGED row
  /\ UNCHANGED <<data, stored, flying, handlers, bounds>>

BeginImport(e) ==
  /\ Running(e, {"begin"})
  /\ IF BeginAccepted(e) THEN Goto(e, flow[e].next) /\ row' = Begun(e)
     ELSE Exits(e, "fatal") /\ UNCHANGED row
  /\ UNCHANGED <<data, stored, flying, handlers, bounds>>

\* Fault: the hidden project is made before the row reserves its destination.
EnsureUnreserved(e) ==
  /\ Running(e, {"hidden"})
  /\ IF Migrating(e) /\ project # "published"
     THEN Returned(e, "copy") /\ project' = "hidden"
     ELSE Exits(e, "fatal") /\ UNCHANGED project
  /\ UNCHANGED <<row, docs, upload, stored, flying, handlers, bounds>>

EnsureHiddenProject(e) ==
  /\ Running(e, {"hidden"})
  /\ IF Migrating(e) /\ project # "published"
     THEN /\ Returned(e, "copy") /\ project' = "hidden"
          /\ row' = [row EXCEPT !.dest = TRUE]
     ELSE Exits(e, "fatal") /\ UNCHANGED <<row, project>>
  /\ UNCHANGED <<docs, upload, stored, flying, handlers, bounds>>

CopyAdmitted(e) == Migrating(e) /\ project = "hidden" /\ row.writes = e

\* An object that is there is not sent again.
CopyAttachment(e) ==
  /\ Running(e, {"copy"})
  /\ IF ~CopyAdmitted(e) THEN Exits(e, "fatal") /\ UNCHANGED flying
     ELSE IF Attachment \in stored THEN Goto(e, "insert") /\ UNCHANGED flying
     ELSE Goto(e, "copying") /\ flying' = flying \union {<<e, Attachment>>}
  /\ UNCHANGED <<row, data, stored, handlers, bounds>>

AttachmentSent(e) ==
  /\ Running(e, {"copying"}) /\ <<e, Attachment>> \notin flying
  /\ Goto(e, "insert")
  /\ UNCHANGED <<row, data, stored, flying, handlers, bounds>>

InsertAttachment(e) ==
  /\ Running(e, {"insert"})
  /\ IF CopyAdmitted(e) /\ upload # "live"
     THEN Returned(e, "documents") /\ upload' = "pending"
     ELSE Exits(e, "fatal") /\ UNCHANGED upload
  /\ UNCHANGED <<row, project, docs, stored, flying, handlers, bounds>>

WriteHiddenDocuments(e) ==
  /\ Running(e, {"documents"})
  /\ IF Migrating(e) /\ project = "hidden"
     THEN Returned(e, "verify") /\ docs' = TRUE
     ELSE Exits(e, "fatal") /\ UNCHANGED docs
  /\ UNCHANGED <<row, project, upload, stored, flying, handlers, bounds>>

VerifyHiddenMaterialization(e) ==
  /\ Running(e, {"verify"})
  /\ IF CopyAdmitted(e) /\ docs /\ upload = "pending" /\ Attachment \in stored
     THEN Returned(e, "settle") ELSE Exits(e, "fatal")
  /\ UNCHANGED <<row, data, stored, flying, handlers, bounds>>

SettleImport(e) ==
  /\ Running(e, {"settle"})
  /\ IF SettleAccepted(e)
     THEN /\ flow' = [flow EXCEPT ![e].pc = "ready", ![e].stage = "publish"]
          /\ row' = Settled
     ELSE Exits(e, "fatal") /\ UNCHANGED row
  /\ UNCHANGED <<data, stored, flying, handlers, bounds>>

\* Fault: the publication asks who holds the row, and not what was asked of it.
PublishableByHolder(e) ==
  /\ Current(e) /\ Free /\ row.writes = None
  /\ project = "hidden" /\ upload = "pending"
Publishable(e) ==
  /\ Migrating(e) /\ row.writes = None
  /\ project = "hidden" /\ upload = "pending"
PublishJiraMigrationAtomically(e, lost) ==
  /\ Running(e, {"ready"})
  /\ LET readable == Prepared \in stored
         replayed == Current(e) /\ row.status = "succeeded"
     IN  /\ IF readable /\ Publishable(e)
            THEN /\ row' = [Bumped EXCEPT !.status = "succeeded",
                                          !.retryable = FALSE]
                 /\ project' = "published" /\ upload' = "live"
            ELSE UNCHANGED <<row, project, upload>>
         /\ CASE Current(e) /\ ~readable -> Goto(e, "importFailing")
              [] Current(e) /\ readable /\ (Publishable(e) \/ replayed) ->
                   IF lost THEN Goto(e, "read") ELSE Exits(e, "success")
              [] OTHER -> Exits(e, "fatal")
  /\ IF lost THEN Failing ELSE UNCHANGED failures
  /\ UNCHANGED <<docs, stored, flying, handlers, commands>>

Importing == {"read", "prepare", "preparing", "begin", "hidden", "copy",
              "copying", "insert", "documents", "verify", "settle", "ready"}

\* A failure inside the intent leaves it: there may be a write under way.
ImportFails(e) ==
  /\ Running(e, Importing) /\ Failing
  /\ Goto(e, "importFailing")
  /\ flying' \in LeftOver({<<e, Prepared>>, <<e, Attachment>>})
  /\ UNCHANGED <<row, data, stored, handlers, commands>>

\* When its answer is lost, the replay begins at the attempt, now failed.
RecordImportFailure(e, outcome, lost) ==
  /\ Running(e, {"importFailing"})
  /\ LET stage    == flow[e].stage
         receipt  == row.receipt[stage]
         accepted == /\ Current(e) /\ Free /\ row.scanned
                     /\ row.status \notin Final
                     /\ receipt # 0 \/ row.status = "migrating"
         seq == IF receipt # 0 THEN receipt ELSE row.seq + 1
     IN  /\ row' = IF ~accepted \/ receipt # 0 THEN row
                   ELSE [Receipt(stage, seq) EXCEPT
                           !.gate = Gate("Retry", "import", seq), !.seq = seq,
                           !.status = outcome, !.retryable = TRUE]
         /\ IF ~accepted THEN Exits(e, "fatal")
            ELSE IF lost THEN Goto(e, "read")
            ELSE flow' = [flow EXCEPT ![e].pc = "importWaiting", ![e].seq = seq]
  /\ IF lost THEN Failing ELSE UNCHANGED failures
  /\ UNCHANGED <<data, stored, flying, handlers, commands>>

\* The next try has activities of its own; the publication keeps what the
\* materialization returned.
ResumeImport(e) ==
  /\ Running(e, {"importWaiting"}) /\ <<e, flow[e].seq>> \in signal
  /\ LET admitted == /\ Current(e) /\ Free /\ row.scanned
                     /\ row.status \in Failed \union {"migrating"}
         stage == flow[e].stage
         resumed == admitted /\ row.seq = flow[e].seq /\ row.status = "migrating"
     IN  /\ CASE admitted /\ row.seq > flow[e].seq ->
                   flow' = [flow EXCEPT ![e].seq = row.seq]
              [] resumed /\ stage = "materialize" ->
                   flow' = [flow EXCEPT ![e].pc = "read", ![e].next = "prepare"]
              [] resumed /\ stage = "publish" -> Goto(e, "ready")
              [] OTHER -> Exits(e, "fatal")
         /\ row' = IF resumed THEN [row EXCEPT !.receipt[stage] = 0] ELSE row
  /\ UNCHANGED <<data, stored, flying, handlers, bounds>>

--------------------------------------------------------------------------------
(* The end of an execution *)

Live == {"start", "install", "scan", "gate", "importFailing", "importWaiting"}
          \union Importing

\* A failure that no retry answers, or one of the recording of failures.
Breaks(e, exit) ==
  /\ Running(e, Live) /\ Failing /\ Exits(e, exit)
  /\ flying' \in LeftOver({w \in flying : w[1] = e})
  /\ UNCHANGED <<row, data, stored, handlers, commands>>

ObserveInterrupt(e) ==
  /\ Running(e, Live) /\ flow[e].stop /\ Exits(e, "interrupted")
  /\ flying' \in LeftOver({w \in flying : w[1] = e})
  /\ UNCHANGED <<row, data, stored, handlers, bounds>>

Cancelling(e) == Current(e) /\ Free /\ row.status = "cancelling"
Cancelled == [Bumped EXCEPT !.status = "cancelled"]

\* The finalizer: after a success the cleanup, else the end of a cancellation,
\* else the record of the failure unless the execution was interrupted.
Finalize(e) ==
  /\ Running(e, {"closing"})
  /\ LET failed == flow[e].exit # "success"
     IN  /\ cleaning' = IF Current(e) /\ ~failed /\ row.status = "succeeded"
                        THEN CleanupExecuted(<<"post_success", row.rev + 1>>)
                        ELSE cleaning
         /\ row' = IF failed /\ Cancelling(e) THEN Cancelled ELSE row
         /\ IF /\ Current(e) /\ failed /\ ~Cancelling(e)
               /\ flow[e].exit # "interrupted"
            THEN Goto(e, "recording") ELSE Goto(e, "ended")
  /\ UNCHANGED <<data, stored, flying, signal, rescan, closing, bounds>>

RecordFailure(e) ==
  /\ Running(e, {"recording"}) /\ Goto(e, "ended")
  /\ LET seq == row.seq + 1
         phase == IF row.scanned THEN "import" ELSE "scan"
     IN  row' = IF Current(e) /\ Free /\ row.status \notin Final \union Failed
                THEN [Bumped EXCEPT
                        !.status = "failed", !.seq = seq,
                        !.retryable = (flow[e].exit = "retryable"),
                        !.gate = IF row.scanned /\ ~row.accepted THEN @
                                 ELSE Gate("Retry", phase, seq)]
                ELSE row
  /\ UNCHANGED <<data, stored, flying, handlers, bounds>>

\* The failure of the finalizer is logged and not tried again.
FinalizerFails(e) ==
  /\ Running(e, {"closing", "recording"}) /\ Failing /\ Goto(e, "ended")
  /\ UNCHANGED <<row, data, stored, flying, handlers, commands>>

--------------------------------------------------------------------------------
(* The commands of the user *)

Run ==
  /\ Commanded /\ CanRun /\ row.gate # NoGate
  /\ row.gate.tag = "Retry" => row.gate.seq = row.seq
  /\ LET scanRetry == IF row.gate.tag = "Retry" THEN row.gate.phase = "scan"
                      ELSE ~row.scanned
     IN  /\ scanRetry \/ (row.config /\ row.scanned)
         /\ row' = [Bumped EXCEPT
              !.status = IF scanRetry THEN "scanning" ELSE "migrating",
              !.accepted = @ \/ ~scanRetry, !.retryable = FALSE]
  /\ signal' = signal \union {<<row.exec, row.gate.seq>>}
  /\ UNCHANGED <<data, stored, flying, flow, cleaning, rescan, closing, failures>>

\* Once a destination is reserved only a correction of what was accepted is.
Configure(complete) ==
  /\ Commanded /\ CanConfigure /\ row.scanned
  /\ row.dest => row.accepted
  /\ row' = [Bumped EXCEPT
       !.config = complete, !.retryable = FALSE,
       !.status = IF complete THEN "ready" ELSE "needs_configuration"]
  /\ UNCHANGED <<data, stored, flying, flow, handlers, failures>>

Cancel ==
  /\ Commanded /\ CanCancel
  /\ row' = [Bumped EXCEPT !.status =
               IF @ \in {"scanning", "migrating", "cancelling"}
               THEN "cancelling" ELSE "cancelled"]
  /\ closing' = closing \union {[exec |-> row.exec, left |-> "interrupt"]}
  /\ UNCHANGED <<data, stored, flying, flow, signal, cleaning, rescan, failures>>

CancelInterrupts(c) ==
  /\ c \in closing /\ c.left = "interrupt"
  /\ flow' = Interrupted(flow, c.exec)
  /\ closing' = (closing \ {c}) \union {[c EXCEPT !.left = "finalize"]}
  /\ UNCHANGED <<row, data, stored, flying, signal, cleaning, rescan, bounds>>

CancelFinalizes(c) ==
  /\ c \in closing /\ c.left = "finalize"
  /\ row' = IF Cancelling(c.exec) THEN Cancelled ELSE row
  /\ closing' = closing \ {c}
  /\ UNCHANGED <<data, stored, flying, flow, signal, cleaning, rescan, bounds>>

\* Fault: the attempt is counted once more than the executions are.
SkippedExecution == <<Attempt(row.exec) + 2, row.rev>>
NextExecution == <<Attempt(row.exec) + 1, row.rev>>

\* A rescan after an import first awaits the cleanup of what was materialized.
Rescan ==
  /\ rescan = Idle /\ Commanded /\ CanRescan
  /\ Attempt(row.exec) < MaxAttempts
  /\ LET reset == <<"reset_import", row.rev + 1>>
     IN  IF row.dest
         THEN /\ cleaning' = CleanupExecuted(reset)
              /\ rescan' = [pc |-> "reset", key |-> reset, exec |-> row.exec]
              /\ UNCHANGED flow
         ELSE /\ flow' = Executed(NextExecution)
              /\ rescan' = [pc |-> "begin", key |-> NextExecution,
                            exec |-> row.exec]
              /\ UNCHANGED cleaning
  /\ UNCHANGED <<row, data, stored, flying, signal, closing, failures>>

ResetAwaited ==
  /\ rescan.pc = "reset" /\ cleaning[rescan.key] \in {"done", "failed"}
  /\ IF /\ cleaning[rescan.key] = "done"
        /\ Current(rescan.exec) /\ Free /\ ~row.dest
        /\ row.rev >= rescan.key[2] + 1
     THEN /\ flow' = Executed(NextExecution)
          /\ rescan' = [rescan EXCEPT !.pc = "begin", !.key = NextExecution]
     ELSE rescan' = Idle /\ UNCHANGED flow
  /\ UNCHANGED <<row, data, stored, flying, signal, cleaning, closing, bounds>>

\* The handler makes the same call as the execution that it started, whose two
\* statements are told apart there.
RescanBegins ==
  /\ rescan.pc = "begin" /\ rescan' = Idle
  /\ LET e == rescan.key
     IN  /\ row' = IF ~Current(e) /\ RescanAdmitted(e) THEN Installed(e) ELSE row
         /\ flow' = IF Current(e) \/ RescanAdmitted(e)
                    THEN Interrupted(flow, rescan.exec) ELSE flow
  /\ UNCHANGED <<data, stored, flying, signal, cleaning, closing, bounds>>

\* The discard of the user, the retention once the time is over.
Remove(mode) ==
  /\ Commanded /\ CanDiscard
  /\ cleaning' = CleanupExecuted(<<mode, row.rev + 1>>)
  /\ UNCHANGED <<row, data, stored, flying, flow, signal, rescan, closing,
                 failures>>

RetainPublished ==
  /\ Commanded /\ row.status = "succeeded" /\ Free /\ ~row.cleaned
  /\ row.writes = None
  /\ cleaning' = CleanupExecuted(<<"post_success", row.rev + 1>>)
  /\ UNCHANGED <<row, data, stored, flying, flow, signal, rescan, closing,
                 failures>>

--------------------------------------------------------------------------------
(* The cleanup: claim the row, delete in order, complete or release the claim *)

Cleaning(k, at) == k \in DOMAIN cleaning /\ cleaning[k] = at
CleanTo(k, at) == cleaning' = [cleaning EXCEPT ![k] = at]
Mode(k) == k[1]
Generation(k) == k[2]
\* Fault: a cleanup claims a row whose writes have not been settled.
ClaimableOverWrites(k) ==
  /\ Exists /\ row.rev = Generation(k) - 1 /\ Free
  /\ Mode(k) = "reset_import" => row.dest
  /\ row.status \in CleanupStatusesFor(Mode(k))
Claimable(k) ==
  /\ Exists /\ row.rev = Generation(k) - 1 /\ Free /\ row.writes = None
  /\ Mode(k) = "reset_import" => row.dest
  /\ row.status \in CleanupStatusesFor(Mode(k))
Claimed(k) == row.cleanup = k /\ row.status \in CleanupStatusesFor(Mode(k))

ClaimCleanup(k, lost) ==
  /\ Cleaning(k, "claim")
  /\ row' = IF Claimable(k) THEN [Bumped EXCEPT !.cleanup = k] ELSE row
  /\ CleanTo(k, IF ~Claimable(k) /\ ~Claimed(k) THEN "release"
                ELSE IF lost THEN "claim"
                ELSE IF Mode(k) = "post_success" THEN "archive" ELSE "objects")
  /\ IF lost THEN Failing ELSE UNCHANGED failures
  /\ UNCHANGED <<data, stored, flying, flow, signal, rescan, closing, commands>>

\* What every stage reads again before it deletes.
Holds(k) == Exists /\ row.cleanup = k /\ row.rev >= Generation(k)
            /\ row.writes = None
Unpublished(k) == Holds(k) /\ (row.dest => project # "published")

DeleteCopiedObjects(k) ==
  /\ Cleaning(k, "objects")
  /\ CleanTo(k, IF Unpublished(k) THEN "rows" ELSE "release")
  /\ stored' = IF Unpublished(k) /\ row.dest /\ upload = "pending"
               THEN stored \ {Attachment} ELSE stored
  /\ UNCHANGED <<row, data, flying, flow, signal, rescan, closing, bounds>>

DeletePendingAttachments(k) ==
  /\ Cleaning(k, "rows")
  /\ CleanTo(k, IF Unpublished(k) THEN "documents" ELSE "release")
  /\ upload' = IF Unpublished(k) /\ row.dest /\ upload = "pending"
               THEN "none" ELSE upload
  /\ UNCHANGED <<row, project, docs, stored, flying, flow, signal, rescan,
                 closing, bounds>>

DeleteHiddenDocuments(k) ==
  /\ Cleaning(k, "documents")
  /\ CleanTo(k, IF Unpublished(k) THEN "project" ELSE "release")
  /\ docs' = (docs /\ ~(Unpublished(k) /\ row.dest))
  /\ UNCHANGED <<row, project, upload, stored, flying, flow, signal, rescan,
                 closing, bounds>>

DeleteHiddenProject(k) ==
  /\ Cleaning(k, "project")
  /\ CleanTo(k, IF ~Unpublished(k) THEN "release"
                ELSE IF Mode(k) = "reset_import" THEN "complete" ELSE "staging")
  /\ project' = IF Unpublished(k) /\ row.dest /\ project = "hidden"
                THEN "none" ELSE project
  /\ UNCHANGED <<row, docs, upload, stored, flying, flow, signal, rescan,
                 closing, bounds>>

VerifyPermanentArchive(k) ==
  /\ Cleaning(k, "archive")
  /\ CleanTo(k, IF /\ Holds(k) /\ row.status = "succeeded" /\ row.dest
                   /\ project = "published" /\ docs
                THEN "staging" ELSE "release")
  /\ UNCHANGED <<row, data, stored, flying, flow, signal, rescan, closing,
                 bounds>>

DeletePrivateStaging(k) ==
  /\ Cleaning(k, "staging")
  /\ CleanTo(k, IF Holds(k) THEN "complete" ELSE "release")
  /\ stored' = IF Holds(k) THEN stored \intersect {Attachment} ELSE stored
  /\ UNCHANGED <<row, data, flying, flow, signal, rescan, closing, bounds>>

\* A removal deletes the row; a reset and a success clear the claim.
Completable(k) ==
  /\ Holds(k) /\ row.status \in CleanupStatusesFor(Mode(k))
  /\ Mode(k) = "reset_import" => ~(row.dest /\ project # "none")
CompleteCleanup(k, lost) ==
  /\ Cleaning(k, "complete")
  /\ LET removed == Mode(k) \in Removals
         ends == Completable(k) \/ (removed /\ ~Exists)
     IN  /\ row' = IF ~Completable(k) THEN row
                   ELSE IF removed THEN NoRow
                   ELSE IF Mode(k) = "reset_import"
                   THEN [Bumped EXCEPT !.dest = FALSE, !.cleanup = None]
                   ELSE [Bumped EXCEPT !.cleaned = TRUE, !.cleanup = None]
         /\ CleanTo(k, IF ~ends THEN "release"
                       ELSE IF lost THEN "complete" ELSE "done")
  /\ IF lost THEN Failing ELSE UNCHANGED failures
  /\ UNCHANGED <<data, stored, flying, flow, signal, rescan, closing, commands>>

Deleting == {"objects", "rows", "documents", "project", "archive", "staging",
             "complete"}
CleanupFails(k) ==
  /\ k \in DOMAIN cleaning /\ cleaning[k] \in Deleting \union {"claim"}
  /\ Failing /\ CleanTo(k, "release")
  /\ UNCHANGED <<row, data, stored, flying, flow, signal, rescan, closing,
                 commands>>

ReleaseCleanup(k) ==
  /\ Cleaning(k, "release") /\ CleanTo(k, "failed")
  /\ row' = IF Exists /\ Claimed(k) THEN [Bumped EXCEPT !.cleanup = None]
            ELSE row
  /\ UNCHANGED <<data, stored, flying, flow, signal, rescan, closing, bounds>>

\* The failure of a release is logged and not tried again.
ReleaseFails(k) ==
  /\ Cleaning(k, "release") /\ Failing /\ CleanTo(k, "failed")
  /\ UNCHANGED <<row, data, stored, flying, flow, signal, rescan, closing,
                 commands>>

--------------------------------------------------------------------------------
(* The process stops and starts again: the handlers are gone, and every        *)
(* activity that had not returned runs again from its start                    *)

Restarted(f) ==
  [f EXCEPT
     !.pc = CASE @ = "install" -> "start"
              [] @ \in Importing -> "read"
              [] @ = "recording" -> "closing"
              [] OTHER -> @,
     !.stage = IF f.pc \in Importing THEN "materialize" ELSE @,
     !.unit = [u \in Units |-> IF @[u].at \in {"writing", "stored"}
                               THEN [at |-> "todo", seq |-> 0] ELSE @[u]]]

Crash ==
  /\ Failing
  /\ flow' = [e \in DOMAIN flow |-> Restarted(flow[e])]
  /\ rescan' = Idle /\ closing' = {} /\ flying' \in {flying, {}}
  /\ UNCHANGED <<row, data, stored, signal, cleaning, commands>>

--------------------------------------------------------------------------------
UnitStep(e, u) ==
  \/ BeginUnit(e, u) \/ SettleUnit(e, u) \/ UnitFails(e, u) \/ ResumeScan(e, u)
  \/ \E lost \in BOOLEAN : RecordScanProgress(e, u, lost)
  \/ \E outcome \in Outcomes, lost \in BOOLEAN :
       RecordScanFailure(e, u, outcome, lost)

FlowStep(e) ==
  \/ \E lost \in BOOLEAN :
       \/ StartCreate(e, lost) \/ CompleteScan(e, lost)
       \/ PublishJiraMigrationAtomically(e, lost)
       \/ \E outcome \in Outcomes : RecordImportFailure(e, outcome, lost)
  \/ RescanReads(e) \/ RescanInstalls(e)
  \/ \E u \in Units : UnitStep(e, u)
  \/ StartImport(e) \/ ReadAttempt(e) \/ BeginPreparation(e)
  \/ SettlePreparation(e) \/ BeginImport(e) \/ EnsureHiddenProject(e)
  \/ CopyAttachment(e) \/ AttachmentSent(e) \/ InsertAttachment(e)
  \/ WriteHiddenDocuments(e) \/ VerifyHiddenMaterialization(e)
  \/ SettleImport(e) \/ ImportFails(e) \/ ResumeImport(e)
  \/ \E exit \in {"fatal", "retryable"} : Breaks(e, exit)
  \/ ObserveInterrupt(e) \/ Finalize(e) \/ RecordFailure(e)
  \/ FinalizerFails(e)

CleanupStep(k) ==
  \/ \E lost \in BOOLEAN : ClaimCleanup(k, lost) \/ CompleteCleanup(k, lost)
  \/ DeleteCopiedObjects(k) \/ DeletePendingAttachments(k)
  \/ DeleteHiddenDocuments(k) \/ DeleteHiddenProject(k)
  \/ VerifyPermanentArchive(k) \/ DeletePrivateStaging(k)
  \/ CleanupFails(k) \/ ReleaseCleanup(k) \/ ReleaseFails(k)

HandlerStep ==
  \/ \E c \in closing : CancelInterrupts(c) \/ CancelFinalizes(c)
  \/ ResetAwaited \/ RescanBegins

Command ==
  \/ Run \/ Cancel \/ Rescan \/ RetainPublished
  \/ \E complete \in BOOLEAN : Configure(complete)
  \/ \E mode \in Removals : Remove(mode)

Lands == \E w \in flying : PutLands(w)

Next ==
  \/ \E e \in DOMAIN flow : FlowStep(e)
  \/ \E k \in DOMAIN cleaning : CleanupStep(k)
  \/ HandlerStep \/ Command \/ Lands \/ Crash

Spec == Init /\ [][Next]_vars

\* The engine goes on with the executions that can, and a put ends.
FairSpec ==
  /\ Spec /\ WF_vars(Lands)
  /\ \A n \in 1..MaxAttempts :
       WF_vars(\E e \in DOMAIN flow : Attempt(e) = n /\ FlowStep(e))

--------------------------------------------------------------------------------
(* Properties *)

\* The shape of the state.
TypeOK ==
  /\ row.status \in Statuses /\ row.rev \in Nat /\ row.seq \in Nat
  /\ row.exec \in Executions \union {<<0, 0>>}
  /\ row.writes \in Executions \union {None}
  /\ row.cleanup \in Cleanups \union {None}
  /\ row.counted \subseteq Pages
  /\ project \in {"none", "hidden", "published"} /\ docs \in BOOLEAN
  /\ upload \in {"none", "pending", "live"}
  /\ stored \subseteq Remote
  /\ \A w \in flying : w[1] \in DOMAIN flow /\ w[2] \in Remote
  /\ DOMAIN flow \subseteq Executions /\ DOMAIN cleaning \subseteq Cleanups

\* The project of a migration is visible exactly when its row says that it
\* succeeded: the one transaction that publishes it wins against every cancel,
\* failure, rescan and cleanup, or is refused.
VisibleIffSucceeded ==
  /\ project = "published" <=> row.status = "succeeded"
  /\ upload = "live" => project = "published"

\* A cancellation that was accepted is not undone by what its execution still
\* records, fails or publishes: only a new attempt leaves it.
CancelSticks ==
  [][row.status \in {"cancelling", "cancelled"} =>
       \/ row'.status \in {"cancelling", "cancelled", "none"}
       \/ row'.exec # row.exec]_vars

\* Once the row of a migration is gone there is nothing of it left that only
\* the row could have led to: project, documents and rows of attachments.
NothingLeftBehind ==
  ~Exists => project = "none" /\ ~docs /\ upload = "none"

\* While the current execution is inside a write of its scan, or in its import,
\* the row says so and no cleanup holds it: nothing is deleted under it.
Inside(e) ==
  \/ ~row.scanned /\ \E u \in Units : At(e, u, "writing")
  \/ Running(e, {"copying", "insert", "documents", "verify", "settle"})
WritersHoldTheRow ==
  \A e \in DOMAIN flow :
    Current(e) /\ Inside(e) =>
      row.status = "succeeded" \/ (Free /\ row.writes = e)

\* What a superseded execution still does changes neither the row of the
\* migration nor the project, the documents or the attachment.
SupersededIsPowerless ==
  [][\A e \in DOMAIN flow :
       (~Current(e) /\ flow'[e] # flow[e]
          /\ flow[e].pc \notin {"start", "install"} /\ UNCHANGED rescan)
         => UNCHANGED <<row, project, docs, upload>>]_vars

\* A migration that is scanning or migrating while its execution is alive is
\* served: it gets on, fails or ends, whatever failed and was retried before.
\* No answer to a failure is lost between the units that wait.
Alive(e) == e \in DOMAIN flow /\ flow[e].pc \notin {"ended"}
Served(e) ==
  ~(row.exec = e /\ row.status \in {"scanning", "migrating"} /\ Alive(e))
RunIsServed ==
  \A n \in 1..MaxAttempts :
    (\E e \in DOMAIN flow : Attempt(e) = n /\ ~Served(e))
      ~> (\A e \in DOMAIN flow : Attempt(e) = n => Served(e))
================================================================================
