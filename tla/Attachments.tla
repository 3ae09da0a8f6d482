------------------------------ MODULE Attachments ------------------------------
(***************************************************************************)
(* The attachments of one project: rows in Postgres, objects in the bucket *)
(* of the organization, and what refers to them (packages/server-core/src/ *)
(* attachments, projects/projectImageReferences.ts).                       *)
(*                                                                         *)
(* A client prepares a row, puts the object and commits the row.  Writers  *)
(* of tickets keep the references in step with the bodies and say which    *)
(* attachments nobody refers to any more.  An hourly loop lets attachments *)
(* with the same content share one object and deletes what was pending or  *)
(* orphaned for long.  PMs delete attachments and change the banner.  No   *)
(* lock and no transaction spans the statements of any of them; a          *)
(* statement, or one call to the bucket, is a step.                        *)
(***************************************************************************)
EXTENDS Naturals, FiniteSets

CONSTANTS
  Files,       \* attachments, numbered in the order in which they are prepared
  Content,     \* what is in each (in the code: hash and size)
  Pictures,    \* those that are uploaded for the project and not for a ticket
  Tickets,
  Callers,     \* requests that may run at a time, besides the writers of the tickets
  Repeats,     \* may a commit be asked for again while, or after, another was answered
  MaxCalls,    \* bound: requests
  MaxWrites,   \* bound: writes of tickets
  MaxFailures, \* bound: statements and calls to the bucket that fail, crashes
  None

ASSUME AttachmentsAssumption ==
  /\ Files \subseteq Nat
  /\ Pictures \subseteq Files
  /\ Files \subseteq DOMAIN Content
  /\ Repeats \in BOOLEAN
  /\ {MaxCalls, MaxWrites, MaxFailures} \subseteq Nat
  /\ None \notin Files

VARIABLES
  row,      \* attachment_index
  object,   \* the objects in the bucket, each named after the file it was put for
  wrong,    \* those of another size or type than the file may have
  refs,     \* attachment_reference
  banner,   \* project_image_reference: the banner of the project
  project,  \* is the project there; the attachments its removal has still to orphan
  body,     \* the attachments that each ticket mentions
  writer,   \* the reconciliation in the write of each ticket (one at a time: it is locked)
  call,     \* the requests
  loop,     \* the hourly loop
  late,     \* history: attachments that took an object when its end was decided
  cut,      \* history: references whose reconciliation failed half way
  spent     \* calls, writes and failures so far

vars == <<row, object, wrong, refs, banner, project, body, writer, call, loop, late, cut, spent>>

-------------------------------------------------------------------------------
Statuses == {"none", "pending", "live", "orphaned", "gone"}
Stored(a) == row[a].status \in {"pending", "live", "orphaned"}
Committed(a) == row[a].status \in {"live", "orphaned"}
Referenced(a) == (\E t \in Tickets : <<t, a>> \in refs) \/ banner = a

\* due: the row has been pending for an hour, or orphaned for seven days.
Rows == [status : Statuses, key : Files, hashed : BOOLEAN, due : BOOLEAN]

NoCall == [at |-> "idle", on |-> None, key |-> None, to |-> None]
NoLoop == [at |-> "dedupe", todo |-> {}, key |-> None]
NoWriter == [at |-> "idle", add |-> {}, remove |-> {}, live |-> {}, orphan |-> {}]

Init ==
  /\ row = [a \in Files |-> [status |-> "none", key |-> a, hashed |-> FALSE, due |-> FALSE]]
  /\ object = {}
  /\ wrong = {}
  /\ refs = {}
  /\ banner = None
  /\ project = [there |-> TRUE, orphaning |-> {}]
  /\ body = [t \in Tickets |-> {}]
  /\ writer = [t \in Tickets |-> NoWriter]
  /\ call = [c \in Callers |-> NoCall]
  /\ loop = NoLoop
  /\ late = {}
  /\ cut = {}
  /\ spent = [calls |-> 0, writes |-> 0, failures |-> 0]

-------------------------------------------------------------------------------
Begin ==
  /\ spent.calls < MaxCalls
  /\ spent' = [spent EXCEPT !.calls = @ + 1]

Failure ==
  /\ spent.failures < MaxFailures
  /\ spent' = [spent EXCEPT !.failures = @ + 1]

SetStatus(as, s) ==
  row' = [a \in Files |-> IF a \in as THEN [row[a] EXCEPT !.status = s, !.due = FALSE]
                                      ELSE row[a]]

\* A row that is deleted takes the references to it along.
DeleteRow(a) ==
  /\ row' = [row EXCEPT ![a].status = "gone", ![a].due = FALSE]
  /\ refs' = {r \in refs : r[2] # a}

Goto(c, at) == call' = [call EXCEPT ![c].at = at]
Return(c) == call' = [call EXCEPT ![c] = NoCall]

\* Some process has found that no row points at k and is about to delete the object.
Deciding(k) ==
  \/ \E c \in Callers : call[c].at = "drop" /\ call[c].key = k
  \/ loop.at \in {"dedupe drop", "reap drop"} /\ loop.key = k

\* An attachment is made to point at an object.
Takes(a, k) == late' = IF k \notin object \/ Deciding(k) THEN late \cup {a} ELSE late

-------------------------------------------------------------------------------
(* Upload.                                                                   *)

Prepare(a) ==
  /\ row[a].status = "none"
  /\ \A b \in Files : b < a => row[b].status # "none"
  /\ project.there
  /\ SetStatus({a}, "pending")
  /\ UNCHANGED <<object, wrong, refs, banner, project, body, writer, call, loop, late, cut, spent>>

\* The client puts the object, once and in time: the upload URL is good for 15 minutes.
PutObject(a, bad) ==
  /\ row[a].status = "pending"
  /\ ~row[a].due
  /\ a \notin object
  /\ \A c \in Callers : call[c].on # a
  /\ object' = object \cup {a}
  /\ wrong' = IF bad THEN wrong \cup {a} ELSE wrong
  /\ UNCHANGED <<row, refs, banner, project, body, writer, call, loop, late, cut, spent>>

\* commit reads the row; it answers at once if the row is live.
Commit(c, a) ==
  /\ call[c].at = "idle"
  /\ Repeats \/ (row[a].status = "pending" /\ \A d \in Callers : call[d].on # a)
  /\ Begin
  /\ project.there
  /\ row[a].status \in {"pending", "orphaned"}
  /\ call' = [call EXCEPT ![c] = [at |-> "head", on |-> a, key |-> row[a].key, to |-> None]]
  /\ UNCHANGED <<row, object, wrong, refs, banner, project, body, writer, loop, late, cut>>

HeadObject(c) ==
  /\ call[c].at = "head"
  /\ IF call[c].key \notin object
     THEN Return(c) /\ UNCHANGED <<object, wrong>>
     ELSE IF call[c].key \in wrong
     THEN /\ object' = object \ {call[c].key}
          /\ wrong' = wrong \ {call[c].key}
          /\ Goto(c, "reject")
     ELSE Goto(c, "twin") /\ UNCHANGED <<object, wrong>>
  /\ UNCHANGED <<row, refs, banner, project, body, writer, loop, late, cut, spent>>

\* The row of an upload that is refused goes after its object; that of an image stays.
Reject(c) ==
  /\ call[c].at = "reject"
  /\ IF banner = call[c].on THEN UNCHANGED <<row, refs>> ELSE DeleteRow(call[c].on)
  /\ Return(c)
  /\ UNCHANGED <<object, wrong, banner, project, body, writer, loop, late, cut, spent>>

\* Committed attachments with the same content, whose object is there to be shared.
Twins(a) ==
  {b \in Files : /\ Committed(b) /\ row[b].hashed
                 /\ Content[b] = Content[a]
                 /\ row[b].key \in object}

\* Fault: a commit shares the object of a twin without looking whether there is one.
FindTwinBlindly(c, told) ==
  /\ call[c].at = "twin"
  /\ call' = [call EXCEPT ![c].at = "hashed", ![c].to = IF told THEN None ELSE call[c].key]
  /\ UNCHANGED <<row, object, wrong, refs, banner, project, body, writer, loop, late, cut, spent>>

\* The bucket may tell no hash, and looking for the object of the twin may fail.
FindTwin(c, told) ==
  /\ call[c].at = "twin"
  /\ \E k \in {call[c].key} \cup {row[b].key : b \in {b \in Twins(call[c].on) : told}} :
       call' = [call EXCEPT ![c].at = IF told THEN "hashed" ELSE "unhashed", ![c].to = k]
  /\ UNCHANGED <<row, object, wrong, refs, banner, project, body, writer, loop, late, cut, spent>>

\* An upload for a ticket is live, one for the project orphaned until it is the banner.
\* The own object of what shares another goes, also if the row went meanwhile.
CommitRow(c) ==
  LET a == call[c].on IN
  /\ call[c].at \in {"hashed", "unhashed"}
  /\ IF Stored(a)
     THEN /\ row' = [row EXCEPT ![a] =
                       [status |-> IF a \in Pictures THEN "orphaned" ELSE "live",
                        key |-> call[c].to, hashed |-> call[c].at = "hashed", due |-> FALSE]]
          /\ Takes(a, call[c].to)
     ELSE UNCHANGED <<row, late>>
  /\ IF call[c].to = call[c].key THEN Return(c) ELSE Goto(c, "drop")
  /\ UNCHANGED <<object, wrong, refs, banner, project, body, writer, loop, cut, spent>>

-------------------------------------------------------------------------------
(* The end of an object: of a request that deletes, or commits to share one.  *)

\* Fault: an orphan, which is still served, does not count as a sharer.
SharedByLive(k) == \E b \in Files : row[b].status = "live" /\ row[b].key = k

\* deleteObjectIfUnshared: look for a row that points at the object, delete the object.
Shared(k) == \E b \in Files : Stored(b) /\ row[b].key = k

CheckSharers(c) ==
  /\ call[c].at = "check"
  /\ IF Shared(call[c].key) THEN Return(c) ELSE Goto(c, "drop")
  /\ UNCHANGED <<row, object, wrong, refs, banner, project, body, writer, loop, late, cut, spent>>

DeleteObject(c) ==
  /\ call[c].at = "drop"
  /\ object' = object \ {call[c].key}
  /\ Return(c)
  /\ UNCHANGED <<row, wrong, refs, banner, project, body, writer, loop, late, cut, spent>>

\* deleteForOrg: neither a pending attachment nor an image.
Delete(c, a) ==
  /\ call[c].at = "idle"
  /\ Begin
  /\ Committed(a)
  /\ banner # a
  /\ call' = [call EXCEPT ![c] = [at |-> "claim", on |-> a, key |-> row[a].key, to |-> None]]
  /\ UNCHANGED <<row, object, wrong, refs, banner, project, body, writer, loop, late, cut>>

\* Whoever deletes the row takes the object; the database keeps the row of an image.
Claim(c) ==
  /\ call[c].at = "claim"
  /\ IF Committed(call[c].on) /\ banner # call[c].on
     THEN DeleteRow(call[c].on) /\ Goto(c, "check")
     ELSE Return(c) /\ UNCHANGED <<row, refs>>
  /\ UNCHANGED <<object, wrong, banner, project, body, writer, loop, late, cut, spent>>

\* A statement or a call to the bucket fails, and with it the request.
CallFails(c) ==
  /\ call[c].at # "idle"
  /\ Failure
  /\ Return(c)
  /\ UNCHANGED <<row, object, wrong, refs, banner, project, body, writer, loop, late, cut>>

-------------------------------------------------------------------------------
(* The banner, and the end of the project.                                   *)

\* update reads what the banner is (key), then sets it to an attachment or to none.
SetBanner(c, a) ==
  /\ call[c].at = "idle"
  /\ Begin
  /\ project.there
  /\ call' = [call EXCEPT ![c] = [at |-> "banner", on |-> a, key |-> banner, to |-> None]]
  /\ UNCHANGED <<row, object, wrong, refs, banner, project, body, writer, loop, late, cut>>

\* A missing or pending attachment is not found.
ReferToImage(c) ==
  LET a == call[c].on IN
  /\ call[c].at = "banner"
  /\ IF ~project.there \/ (a # None /\ ~Committed(a))
     THEN Return(c) /\ UNCHANGED banner
     ELSE banner' = a /\ Goto(c, IF a = None THEN "old banner" ELSE "new banner")
  /\ UNCHANGED <<row, object, wrong, refs, project, body, writer, loop, late, cut, spent>>

ImageIsLive(c) ==
  /\ call[c].at = "new banner"
  /\ Goto(c, "old banner")
  /\ IF Stored(call[c].on) THEN SetStatus({call[c].on}, "live") ELSE UNCHANGED row
  /\ UNCHANGED <<object, wrong, refs, banner, project, body, writer, loop, late, cut, spent>>

OrphanOldImage(c) ==
  LET a == call[c].key IN
  /\ call[c].at = "old banner"
  /\ IF a \notin {None, call[c].on} /\ Stored(a) /\ ~Referenced(a)
     THEN SetStatus({a}, "orphaned")
     ELSE UNCHANGED row
  /\ Return(c)
  /\ UNCHANGED <<object, wrong, refs, banner, project, body, writer, loop, late, cut, spent>>

\* orphanProject: the references go with the project, in one transaction ...
RemoveProject ==
  /\ Begin
  /\ project.there
  /\ project' = [there |-> FALSE, orphaning |-> {a \in Files : Stored(a)}]
  /\ refs' = {}
  /\ banner' = None
  /\ UNCHANGED <<row, object, wrong, body, writer, call, loop, late, cut>>

\* ... and its attachments are orphaned after it.
OrphanUnreferenced ==
  /\ project.orphaning # {}
  /\ SetStatus({a \in project.orphaning : row[a].status = "live" /\ ~Referenced(a)}, "orphaned")
  /\ project' = [project EXCEPT !.orphaning = {}]
  /\ UNCHANGED <<object, wrong, refs, banner, body, writer, call, loop, late, cut, spent>>

OrphaningFails ==
  /\ project.orphaning # {}
  /\ Failure
  /\ project' = [project EXCEPT !.orphaning = {}]
  /\ UNCHANGED <<row, object, wrong, refs, banner, body, writer, call, loop, late, cut>>

-------------------------------------------------------------------------------
(* The write of a ticket, and the reconciliation of what it refers to.       *)

Continue(t, w) == writer' = [writer EXCEPT ![t] = w]
Touched(t) == writer[t].add \cup writer[t].remove

\* An update, a creation, or a removal, which mentions nothing.
WriteBody(t, as) ==
  /\ writer[t].at = "idle"
  /\ spent.writes < MaxWrites
  /\ spent' = [spent EXCEPT !.writes = @ + 1]
  /\ project.there
  /\ as # body[t]
  /\ \A a \in as \ body[t] : row[a].status # "none"
  /\ body' = [body EXCEPT ![t] = as]
  /\ Continue(t, [NoWriter EXCEPT !.at = "plan"])
  /\ UNCHANGED <<row, object, wrong, refs, banner, project, call, loop, late, cut>>

\* planReferences, of the references there are and the mentioned rows there are.
PlanReferences(t) ==
  LET existing == {a \in Files : <<t, a>> \in refs}
      known == {a \in body[t] : Stored(a)}
  IN
  /\ writer[t].at = "plan"
  /\ project.there
  /\ Continue(t, IF known = existing THEN NoWriter
                 ELSE [NoWriter EXCEPT !.at = IF existing \subseteq known THEN "add" ELSE "remove",
                                       !.add = known \ existing, !.remove = existing \ known])
  /\ UNCHANGED <<row, object, wrong, refs, banner, project, body, call, loop, late, cut, spent>>

RemoveReferences(t) ==
  /\ writer[t].at = "remove"
  /\ refs' = refs \ ({t} \X writer[t].remove)
  /\ Continue(t, [writer[t] EXCEPT !.at = IF writer[t].add = {} THEN "statuses" ELSE "add"])
  /\ UNCHANGED <<row, object, wrong, banner, project, body, call, loop, late, cut, spent>>

\* One statement inserts them all, if every row is still there.
AddReferences(t) ==
  /\ writer[t].at = "add"
  /\ project.there
  /\ \A a \in writer[t].add : Stored(a)
  /\ refs' = refs \cup ({t} \X writer[t].add)
  /\ cut' = cut \ ({t} \X Touched(t))
  /\ Continue(t, [writer[t] EXCEPT !.at = "statuses"])
  /\ UNCHANGED <<row, object, wrong, banner, project, body, call, loop, late, spent>>

\* planStatuses, of the touched rows and the references of tickets to them.
PlanStatuses(t) ==
  LET mentioned == {a \in Files : \E u \in Tickets : <<u, a>> \in refs}
      live == {a \in Touched(t) \cap mentioned : row[a].status = "orphaned"}
      orphan == {a \in Touched(t) \ mentioned : row[a].status = "live"}
  IN
  /\ writer[t].at = "statuses"
  /\ Continue(t, IF live \cup orphan = {} THEN NoWriter
                 ELSE [writer[t] EXCEPT !.at = IF orphan = {} THEN "live" ELSE "orphan",
                                        !.live = live, !.orphan = orphan])
  /\ UNCHANGED <<row, object, wrong, refs, banner, project, body, call, loop, late, cut, spent>>

\* Fault: the reconciliation trusts what it counted.
AsCounted(a) == TRUE

StillUnreferenced(a) == ~Referenced(a)

OrphanTouched(t) ==
  /\ writer[t].at = "orphan"
  /\ SetStatus({a \in writer[t].orphan : row[a].status = "live" /\ StillUnreferenced(a)},
               "orphaned")
  /\ Continue(t, IF writer[t].live = {} THEN NoWriter ELSE [writer[t] EXCEPT !.at = "live"])
  /\ UNCHANGED <<object, wrong, refs, banner, project, body, call, loop, late, cut, spent>>

ReviveTouched(t) ==
  /\ writer[t].at = "live"
  /\ SetStatus({a \in writer[t].live : row[a].status = "orphaned" /\ Referenced(a)}, "live")
  /\ Continue(t, NoWriter)
  /\ UNCHANGED <<object, wrong, refs, banner, project, body, call, loop, late, cut, spent>>

\* The references whose status a writer that stops here leaves behind.
HalfDone(t) == IF writer[t].at \in {"statuses", "orphan", "live"} THEN {t} \X Touched(t) ELSE {}

\* A statement fails, or has to: the ticket stays written, the error is logged.
ReconcileFails(t) ==
  /\ writer[t].at # "idle"
  /\ \/ Failure
     \/ /\ \/ writer[t].at \in {"plan", "add"} /\ ~project.there
           \/ writer[t].at = "add" /\ ~\A a \in writer[t].add : Stored(a)
        /\ UNCHANGED spent
  /\ cut' = cut \cup HalfDone(t)
  /\ Continue(t, NoWriter)
  /\ UNCHANGED <<row, object, wrong, refs, banner, project, body, call, loop, late>>

-------------------------------------------------------------------------------
(* The hourly loop: dedupeOnce, then reapOnce.                               *)

\* Time passes for a row, as far as the loop cares.
Ages(a) ==
  /\ row[a].status \in {"pending", "orphaned"}
  /\ ~row[a].due
  /\ row' = [row EXCEPT ![a].due = TRUE]
  /\ UNCHANGED <<object, wrong, refs, banner, project, body, writer, call, loop, late, cut, spent>>

Loop(at, todo, key) == loop' = [at |-> at, todo |-> todo, key |-> key]

\* The hash of a row that has none, from the bucket.
Hash(a) ==
  /\ loop.at = "dedupe"
  /\ Committed(a)
  /\ ~row[a].hashed
  /\ row[a].key \in object
  /\ row' = [row EXCEPT ![a].hashed = TRUE]
  /\ UNCHANGED <<object, wrong, refs, banner, project, body, writer, call, loop, late, cut, spent>>

\* planDedupe: attachments with the same content go to the object of the first of them.
Alike(a) == {b \in Files : Committed(b) /\ row[b].hashed /\ Content[b] = Content[a]}
First(as) == CHOOSE a \in as : \A b \in as : a <= b
Repoints ==
  {[on |-> a, status |-> "none", key |-> row[a].key, to |-> row[First(Alike(a))].key] :
     a \in {a \in Files : Committed(a) /\ row[a].hashed /\ row[a].key # row[First(Alike(a))].key}}

PlanDedupe ==
  /\ loop.at = "dedupe"
  /\ Loop("repoint", Repoints, None)
  /\ UNCHANGED <<row, object, wrong, refs, banner, project, body, writer, call, late, cut, spent>>

Repoint(p) ==
  /\ loop.at = "repoint"
  /\ p \in loop.todo
  /\ IF Stored(p.on) THEN row' = [row EXCEPT ![p.on].key = p.to] /\ Takes(p.on, p.to)
                     ELSE UNCHANGED <<row, late>>
  /\ Loop("dedupe check", loop.todo \ {p}, p.key)
  /\ UNCHANGED <<object, wrong, refs, banner, project, body, writer, call, cut, spent>>

\* Fault: uploads that were never committed are not looked for.
ReapableOrphans ==
  {[on |-> a, status |-> row[a].status, key |-> row[a].key, to |-> None] :
     a \in {a \in Files : row[a].status = "orphaned" /\ row[a].due}}

\* planReap: what has been pending or orphaned for long.
Reapable ==
  {[on |-> a, status |-> row[a].status, key |-> row[a].key, to |-> None] :
     a \in {a \in Files : row[a].status \in {"pending", "orphaned"} /\ row[a].due}}

PlanReap ==
  /\ loop.at = "repoint"
  /\ loop.todo = {}
  /\ IF Reapable = {} THEN loop' = NoLoop ELSE Loop("reap", Reapable, None)
  /\ UNCHANGED <<row, object, wrong, refs, banner, project, body, writer, call, late, cut, spent>>

\* The row goes if its status is what it was and it is no image.
Claimable(p) == row[p.on].status = p.status /\ banner # p.on

Reap(p) ==
  /\ loop.at = "reap"
  /\ p \in loop.todo
  /\ IF Claimable(p)
     THEN DeleteRow(p.on) /\ Loop("reap check", loop.todo \ {p}, p.key)
     ELSE Loop("reap", loop.todo \ {p}, None) /\ UNCHANGED <<row, refs>>
  /\ UNCHANGED <<object, wrong, banner, project, body, writer, call, late, cut, spent>>

EndReap ==
  /\ loop.at = "reap"
  /\ loop.todo = {}
  /\ loop' = NoLoop
  /\ UNCHANGED <<row, object, wrong, refs, banner, project, body, writer, call, late, cut, spent>>

LoopChecksSharers ==
  /\ \/ /\ loop.at = "dedupe check"
        /\ Loop(IF Shared(loop.key) THEN "repoint" ELSE "dedupe drop", loop.todo, loop.key)
     \/ /\ loop.at = "reap check"
        /\ Loop(IF Shared(loop.key) THEN "reap" ELSE "reap drop", loop.todo, loop.key)
  /\ UNCHANGED <<row, object, wrong, refs, banner, project, body, writer, call, late, cut, spent>>

\* A deletion that fails is logged, and the loop goes on.
LoopDeletesObject ==
  /\ loop.at \in {"dedupe drop", "reap drop"}
  /\ \/ object' = object \ {loop.key} /\ UNCHANGED spent
     \/ Failure /\ UNCHANGED object
  /\ Loop(IF loop.at = "dedupe drop" THEN "repoint" ELSE "reap", loop.todo, None)
  /\ UNCHANGED <<row, wrong, refs, banner, project, body, writer, call, late, cut>>

\* A statement fails: the dedupe or the reap is over.
LoopFails ==
  /\ Failure
  /\ IF loop.at \in {"dedupe", "repoint", "dedupe check"}
     THEN Loop("repoint", {}, None)
     ELSE loop' = NoLoop
  /\ UNCHANGED <<row, object, wrong, refs, banner, project, body, writer, call, late, cut>>

-------------------------------------------------------------------------------
\* The process ends and starts again.
Crash ==
  /\ Failure
  /\ writer' = [t \in Tickets |-> NoWriter]
  /\ call' = [c \in Callers |-> NoCall]
  /\ loop' = NoLoop
  /\ project' = [project EXCEPT !.orphaning = {}]
  /\ cut' = cut \cup UNION {HalfDone(t) : t \in Tickets}
  /\ UNCHANGED <<row, object, wrong, refs, banner, body, late>>

Request(c) ==
  \/ \E a \in Files : Commit(c, a) \/ Delete(c, a) \/ SetBanner(c, a)
  \/ SetBanner(c, None)
  \/ HeadObject(c) \/ Reject(c) \/ (\E told \in BOOLEAN : FindTwin(c, told)) \/ CommitRow(c)
  \/ Claim(c) \/ CheckSharers(c) \/ DeleteObject(c)
  \/ ReferToImage(c) \/ ImageIsLive(c) \/ OrphanOldImage(c)
  \/ CallFails(c)

Reconcile(t) ==
  \/ PlanReferences(t) \/ RemoveReferences(t) \/ AddReferences(t) \/ PlanStatuses(t)
  \/ OrphanTouched(t) \/ ReviveTouched(t)

Hourly ==
  \/ (\E a \in Files : Hash(a)) \/ PlanDedupe \/ (\E p \in loop.todo : Repoint(p))
  \/ PlanReap \/ (\E p \in loop.todo : Reap(p)) \/ EndReap
  \/ LoopChecksSharers \/ LoopDeletesObject

Next ==
  \/ \E a \in Files : Prepare(a) \/ Ages(a) \/ (\E bad \in BOOLEAN : PutObject(a, bad))
  \/ \E c \in Callers : Request(c)
  \/ RemoveProject \/ OrphanUnreferenced \/ OrphaningFails
  \/ \E t \in Tickets : \/ \E as \in SUBSET Files : WriteBody(t, as)
                        \/ Reconcile(t) \/ ReconcileFails(t)
  \/ Hourly \/ LoopFails
  \/ Crash

Spec == Init /\ [][Next]_vars

(* Time passes, the loop comes round, and what has begun goes on, unless it fails. *)
(* Nobody need upload, commit, delete or write anything.                           *)
FairSpec ==
  /\ Spec
  /\ \A a \in Files : WF_vars(Ages(a))
  /\ WF_vars(Hourly)
  /\ \A c \in Callers : WF_vars(call[c].at # "idle" /\ Request(c))
  /\ \A t \in Tickets : WF_vars(Reconcile(t))

-------------------------------------------------------------------------------
(* Properties.                                                               *)

Places == {"idle", "head", "reject", "twin", "hashed", "unhashed", "claim", "check", "drop",
           "banner", "new banner", "old banner"}
Hours == {"dedupe", "repoint", "dedupe check", "dedupe drop", "reap", "reap check",
          "reap drop"}
Steps == {"idle", "plan", "remove", "add", "statuses", "orphan", "live"}
Todos == [on : Files, status : Statuses, key : Files, to : Files \cup {None}]

\* Every variable has its type.
TypeOK ==
  /\ row \in [Files -> Rows]
  /\ object \subseteq Files
  /\ wrong \subseteq Files
  /\ refs \subseteq Tickets \X Files
  /\ banner \in Files \cup {None}
  /\ project \in [there : BOOLEAN, orphaning : SUBSET Files]
  /\ body \in [Tickets -> SUBSET Files]
  /\ writer \in [Tickets -> [at : Steps, add : SUBSET Files, remove : SUBSET Files,
                             live : SUBSET Files, orphan : SUBSET Files]]
  /\ call \in [Callers -> [at : Places, on : Files \cup {None}, key : Files \cup {None},
                           to : Files \cup {None}]]
  /\ loop \in [at : Hours, todo : SUBSET Todos, key : Files \cup {None}]
  /\ late \subseteq Files
  /\ cut \subseteq Tickets \X Files
  /\ spent \in [calls : 0..MaxCalls, writes : 0..MaxWrites, failures : 0..MaxFailures]

\* What is served is there: a committed attachment has its object, unless it took the
\* object of a twin whose end was decided when it did.
CommittedHasObject == \A a \in Files \ late : Committed(a) => row[a].key \in object

\* An attachment of a ticket is not left to the loop while a ticket refers to it: with no
\* reconciliation under way or cut short, what is referred to is live, or yet to be committed.
ReferencedIsLive ==
  \A t \in Tickets, a \in Files \ Pictures :
    <<t, a>> \in refs \ cut /\ writer[t].at = "idle" => row[a].status # "orphaned"

\* Liveness: what nobody wants does not stay: a pending upload, or an orphan to which nothing
\* refers, is committed, referred to again, or deleted.
Unwanted(a) == row[a].status = "pending" \/ (row[a].status = "orphaned" /\ ~Referenced(a))
UnwantedGoes == \A a \in Files : Unwanted(a) ~> ~Unwanted(a)

===============================================================================
