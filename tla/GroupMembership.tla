---------------------------- MODULE GroupMembership ----------------------------
(***************************************************************************)
(* The tickets of the groups of one project, sprints and others, and the   *)
(* commands that change several files: groups/Groups.ts, and of            *)
(* tickets/TicketCommands.ts the bulk update, the split, the removal and   *)
(* the move within a group.                                                *)
(*                                                                         *)
(* A group lists its tickets in its own file.  All group files of a        *)
(* project are behind one lock, each ticket file behind one of its own     *)
(* (locks/KeyedLock.ts); a command takes them in turn, not all at once,    *)
(* and takes back what it did when a later step fails.  What the other     *)
(* lock of a ticket does is in TicketStore, what a torn group file does in *)
(* ActivityOutbox.                                                         *)
(*                                                                         *)
(* A list is a set here: the order of the tickets in a group is left out,  *)
(* as are epics, which sprints refuse, permissions, and what a removal     *)
(* does to the sub-tickets.  A split makes one new ticket.                 *)
(***************************************************************************)
EXTENDS Naturals, FiniteSets

CONSTANTS
  Tickets,     \* numbers, in the order in which a bulk update takes their locks
  Groups,
  Sprints,     \* the groups that are sprints, or will be when they are created
  Requests,
  Ops,         \* the operations that requests ask for
  Initially,   \* the groups that there may be at the start
  First,       \* the tickets that there are at the start
  Lists,       \* bound: the sets of tickets that requests name
  MaxFailures, \* bound: failures of a step, interruptions and crashes
  None

AllOps == {"create", "update", "updateTickets", "addTickets", "removeTickets", "complete",
           "removeGroup", "moveInGroup", "edit", "remove", "bulkUpdate", "split"}

GroupFiles == [status : {"none", "open", "completed"}, has : SUBSET Tickets]

\* The sprints of a ticket that are planned or active, in the group files f.
SprintsOf(f, t) == {g \in Sprints : f[g].status = "open" /\ t \in f[g].has}
InOne(f, t) == \A g, h \in SprintsOf(f, t) : g = h

ASSUME GroupsAssumption ==
  /\ Tickets \subseteq Nat
  /\ First \subseteq Tickets
  /\ Sprints \subseteq Groups
  /\ Ops \subseteq AllOps
  /\ \A f \in Initially : /\ f \in [Groups -> GroupFiles]
                          /\ \A t \in Tickets : InOne(f, t)
                          /\ \A g \in Groups : f[g].has \subseteq First
  /\ Lists \subseteq SUBSET Tickets
  /\ MaxFailures \in Nat
  /\ None \notin Groups \cup Tickets \cup Requests
  /\ {"any", "same"} \cap (Groups \cup {None}) = {}

VARIABLES
  file,        \* the tickets that have a file
  text,        \* what is in it: the requests whose change it holds
  born,        \* the numbers that had a ticket
  group,       \* the group files
  groupLock,   \* groupFiles: who holds the lock of all group files
  docLock,     \* ticketDocument: who holds the lock of each ticket
  req,         \* the requests
  plan,        \* the group files that the holder of their lock is going to write
  torn,        \* history: tickets that were left between two sprints
  relisted,    \* history: tickets that were listed again after a removal had cleared the lists
  haunted,     \* history: tickets that were taken away while somebody listed them or had looked
               \* for them to do so, or listed by a call that looks for nothing
  overwritten, \* history: tickets that the way back of a split wrote without their lock, or
               \* removed while somebody held it
  failures

vars == <<file, text, born, group, groupLock, docLock, req, plan, torn, relisted, haunted, overwritten,
          failures>>

-------------------------------------------------------------------------------
NoCall == [name |-> "none", g |-> None, ts |-> {}, from |-> "any"]
NoFile == [status |-> "none", has |-> {}]
NoFiles == [g \in Groups |-> NoFile]
NoPlan == [now |-> {}, next |-> {}, to |-> NoFiles, back |-> NoFiles]

\* ok and err: where a request goes on when the call of Groups that it makes, or the
\* taking of locks, is over.
Idle ==
  [op |-> "none", at |-> "idle", call |-> NoCall, ok |-> "done", err |-> "failed",
   ts |-> {}, sprint |-> None, from |-> None, newSprint |-> None, new |-> None,
   copy |-> [t \in Tickets |-> {}], todo |-> {}, done |-> {}, snap |-> {}, leave |-> {},
   cut |-> FALSE]

Init ==
  /\ file = First
  /\ text = [t \in Tickets |-> {}]
  /\ born = First
  /\ group \in Initially
  /\ groupLock = None
  /\ docLock = [t \in Tickets |-> None]
  /\ req = [r \in Requests |-> Idle]
  /\ plan = NoPlan
  /\ torn = {}
  /\ relisted = {}
  /\ haunted = {}
  /\ overwritten = {}
  /\ failures = 0

files == <<file, text, born, group>>
history == <<torn, relisted, haunted, overwritten>>

Held(t) == t \in file
Stored(t, d) == file' = file \cup {t} /\ text' = [text EXCEPT ![t] = d]
Deleted(t) == file' = file \ {t} /\ text' = [text EXCEPT ![t] = {}]
IsOpen(g) == g \in Sprints /\ group[g].status = "open"
HeldBy(r) == {t \in Tickets : docLock[t] = r}
At(r, at) == req[r].at = at
Set(r, q) == req' = [req EXCEPT ![r] = q]
Goto(r, at) == Set(r, [req[r] EXCEPT !.at = at])

\* What is left of a request that is over.
Over(q, outcome, cut) ==
  [Idle EXCEPT !.op = q.op, !.at = outcome, !.ts = q.ts, !.new = q.new, !.cut = cut]

\* Fault: a request keeps the locks of its tickets while it goes on to its group.
KeepLocks(r) == docLock
Unlocked(r) == [t \in Tickets |-> IF docLock[t] = r THEN None ELSE docLock[t]]

End(r, outcome, cut) ==
  /\ Set(r, Over(req[r], outcome, cut))
  /\ docLock' = Unlocked(r)
  /\ IF groupLock = r THEN groupLock' = None /\ plan' = NoPlan ELSE UNCHANGED <<groupLock, plan>>

Fails == failures < MaxFailures /\ failures' = failures + 1

\* A call of Groups, and where to go on.
Calls(q, name, g, ts, from, ok, err) ==
  [q EXCEPT !.at = "group", !.call = [name |-> name, g |-> g, ts |-> ts, from |-> from],
            !.ok = ok, !.err = err]

\* The locks of the tickets of the request, then ok.
Locks(q, ok) == [q EXCEPT !.at = "lock", !.ok = ok]

-------------------------------------------------------------------------------
(* Groups: under the lock of the group files, read them, refuse or plan, and  *)
(* write one file after the other.                                            *)

Calling(r, name) == At(r, "group") /\ req[r].call.name = name /\ groupLock = None

Went(q, at) == IF at \in {"done", "failed"} THEN Over(q, at, q.cut) ELSE [q EXCEPT !.at = at]

Refuse(r) == Set(r, Went(req[r], req[r].err)) /\ UNCHANGED <<groupLock, plan>>

\* First the files in now, then those in next; to says what becomes of each.
Planned(r, call, now, next, to) ==
  IF now \cup next = {}
  THEN Set(r, Went(req[r], req[r].ok)) /\ UNCHANGED <<groupLock, plan>>
  ELSE /\ Set(r, [req[r] EXCEPT !.at = "write", !.call = call])
       /\ groupLock' = r
       /\ plan' = [now |-> now, next |-> next, to |-> to, back |-> group]

\* Fault: a group is given tickets without a look at the other sprints.
EvictNobody(f, g, ts) == {}

\* planEvictions: the other open sprints that hold one of the tickets.
Evictions(f, g, ts) ==
  IF g \in Sprints
  THEN {h \in Sprints \ {g} : f[h].status = "open" /\ f[h].has \cap ts # {}}
  ELSE {}

\* The file of g becomes new, and all others lose ts.
Given(g, new, ts) ==
  [h \in Groups |-> IF h = g THEN new ELSE [group[h] EXCEPT !.has = @ \ ts]]

\* create: the new group, then the evictions.
CreateGroup(r) ==
  LET ts == req[r].call.ts IN
  /\ Calling(r, "create")
  /\ IF \A t \in ts : Held(t)
     THEN \E g \in Groups :
            /\ group[g].status = "none"
            /\ Planned(r, [req[r].call EXCEPT !.g = g], {g}, Evictions(group, g, ts),
                       Given(g, [status |-> "open", has |-> ts], ts))
     ELSE Refuse(r)
  /\ UNCHANGED <<files, docLock, history, failures>>

\* update: complete a group, or open it again; nobody is evicted.
UpdateGroup(r) ==
  LET g == req[r].call.g IN
  /\ Calling(r, "update")
  /\ IF group[g].status = "none" THEN Refuse(r)
     ELSE \E status \in {"open", "completed"} :
            Planned(r, req[r].call, {}, {g}, Given(g, [group[g] EXCEPT !.status = status], {}))
  /\ UNCHANGED <<files, docLock, history, failures>>

\* What updateTickets, addTickets and removeTickets make of the list of a group, and
\* the tickets they look for first.
NextTickets(call) ==
  CASE call.name = "updateTickets" -> call.ts
    [] call.name = "addTickets" -> group[call.g].has \cup call.ts
    [] OTHER -> group[call.g].has \ call.ts

\* Fault: a group is given tickets that nobody has looked for.
ValidatedNothing(call) == {}
Validated(call) == IF call.name = "updateTickets" THEN call.ts
                   ELSE NextTickets(call) \ group[call.g].has

\* updateTickets is written also when it gives the same tickets in another order.
Reordered(call) == call.name = "updateTickets" /\ Cardinality(call.ts) > 1

\* changeTickets: the evictions, then the group.
ChangeTickets(r) ==
  LET call == req[r].call
      g == call.g
      next == NextTickets(call)
  IN
  /\ \E name \in {"updateTickets", "addTickets", "removeTickets"} : Calling(r, name)
  /\ IF group[g].status # "open" \/ \E t \in Validated(call) : ~Held(t)
     THEN Refuse(r)
     ELSE \/ /\ next = group[g].has
             /\ Planned(r, call, {}, {}, group)
          \/ /\ next # group[g].has \/ Reordered(call)
             /\ Planned(r, call, Evictions(group, g, next), {g},
                        Given(g, [group[g] EXCEPT !.has = next], next))
  /\ UNCHANGED <<files, docLock, history, failures>>

\* complete: the unfinished tickets go to another sprint, or to none; that sprint is
\* written first.
Complete(r) ==
  LET g == req[r].call.g
      dest == req[r].call.from
  IN
  /\ Calling(r, "complete")
  /\ IF \/ ~IsOpen(g)
        \/ dest # None /\ (dest = g \/ ~IsOpen(dest))
        \/ \E t \in group[g].has : ~Held(t)
     THEN Refuse(r)
     ELSE \E carry \in SUBSET group[g].has :
            Planned(r, [req[r].call EXCEPT !.ts = carry],
                    IF dest = None \/ carry = {} THEN {} ELSE {dest}, {g},
                    [h \in Groups |->
                       CASE h = g -> [status |-> "completed", has |-> group[g].has \ carry]
                         [] h = dest -> [group[h] EXCEPT !.has = @ \cup carry]
                         [] OTHER -> group[h]])
  /\ UNCHANGED <<files, docLock, history, failures>>

RemoveGroup(r) ==
  LET g == req[r].call.g IN
  /\ Calling(r, "removeGroup")
  /\ IF group[g].status = "none" THEN Refuse(r)
     ELSE Planned(r, req[r].call, {}, {g}, Given(g, NoFile, {}))
  /\ UNCHANGED <<files, docLock, history, failures>>

\* updateTicketOrder writes the same tickets in another order; if the ticket also gets
\* another status, it is written first, under its lock, while the groups are locked.
UpdateTicketOrder(r) ==
  LET q == req[r] IN
  /\ Calling(r, "moveInGroup")
  /\ IF group[q.call.g].status # "open" \/ ~(q.ts \subseteq group[q.call.g].has)
     THEN Refuse(r)
     ELSE /\ \/ Goto(r, "write")
             \/ Set(r, Locks(q, "read"))
          /\ groupLock' = r
          /\ plan' = [now |-> {}, next |-> {q.call.g}, to |-> group, back |-> group]
  /\ UNCHANGED <<files, docLock, history, failures>>

\* setSprintMembership: the files of all open sprints that have to change, in the order
\* of the directory; where the ticket is, if that is asked, is the first that has it.
SetSprintMembership(r) ==
  LET call == req[r].call
      active == {h \in Groups : IsOpen(h)}
      current == {h \in active : call.ts \subseteq group[h].has}
  IN
  /\ Calling(r, "set")
  /\ \E found \in IF current = {} THEN {None} ELSE current :
       IF call.from \notin {"any", found}
       THEN Refuse(r)
       ELSE Planned(r, call,
                    {h \in active : (h = call.g) # (call.ts \subseteq group[h].has)}, {},
                    [h \in Groups |-> [group[h] EXCEPT
                       !.has = IF h = call.g THEN @ \cup call.ts ELSE @ \ call.ts]])
  /\ UNCHANGED <<files, docLock, history, failures>>

Listing(ts) == {h \in Groups : group[h].has \cap ts # {}}

RemoveTicketFromAllGroups(r) ==
  LET ts == req[r].call.ts IN
  /\ Calling(r, "strip")
  /\ Planned(r, req[r].call, Listing(ts), {}, Given(None, NoFile, ts))
  /\ UNCHANGED <<files, docLock, history, failures>>

\* A removal that has dealt with the groups and not yet with the file.
BeingRemoved(t) ==
  \E r \in Requests : req[r].op = "remove" /\ t \in req[r].ts /\ req[r].at \in {"unlinking", "unlink"}

Wave == IF plan.now # {} THEN plan.now ELSE plan.next
Remaining(g) == (plan.now \cup plan.next) \ {g}

\* Whatever is last written may be followed by an interruption.
WriteGroup(r, interrupted) ==
  /\ At(r, "write")
  /\ \E g \in Wave :
       LET f == [group EXCEPT ![g] = plan.to[g]]
           new == f[g].has \ group[g].has
           call == req[r].call
       IN
       /\ group' = f
       /\ relisted' = (relisted \cup {t \in new : BeingRemoved(t)})
                        \ (IF call.name = "strip" /\ Remaining(g) = {} THEN call.ts ELSE {})
       /\ haunted' = IF call.name = "set" THEN haunted \cup {t \in new : ~Held(t)} ELSE haunted
       /\ torn' = IF req[r].call.name = "update" THEN torn \cup {t \in Tickets : ~InOne(f, t)}
                  ELSE torn
       /\ IF Remaining(g) = {}
          THEN /\ groupLock' = None
               /\ plan' = NoPlan
               /\ Set(r, Went(req[r], IF interrupted THEN req[r].err ELSE req[r].ok))
               /\ IF interrupted
                  THEN Fails /\ req[r].call.name \notin {"create", "uncreate"}
                  ELSE UNCHANGED failures
          ELSE /\ plan' = [plan EXCEPT !.now = @ \ {g}, !.next = @ \ {g}]
               /\ ~interrupted
               /\ UNCHANGED <<groupLock, req, failures>>
  /\ UNCHANGED <<file, text, born, docLock, overwritten>>

\* Before the first file, or between two: nothing is taken back, ...
Unfinished(call) == IF call.name \in {"complete", "set"} THEN call.ts ELSE {}
Undoes(r) == req[r].call.name = "create" /\ plan.now = {}
GroupCallFails(r) ==
  /\ \/ At(r, "group")
     \/ At(r, "write") /\ ~Undoes(r) /\ req[r].call.name # "uncreate"
  /\ Fails
  /\ Set(r, Went(req[r], req[r].err))
  /\ torn' = IF At(r, "write") THEN torn \cup Unfinished(req[r].call) ELSE torn
  /\ IF At(r, "write") THEN groupLock' = None /\ plan' = NoPlan
                      ELSE UNCHANGED <<groupLock, plan>>
  /\ UNCHANGED <<files, docLock, relisted, haunted, overwritten>>

\* ... unless a new group fails to evict: it goes, and the others become what they were.
RollBackCreation(r) ==
  LET call == req[r].call IN
  /\ At(r, "write")
  /\ Undoes(r)
  /\ Fails
  /\ Set(r, [req[r] EXCEPT !.call.name = "uncreate", !.ok = "failed"])
  /\ plan' = [plan EXCEPT !.now = {call.g}, !.next = Evictions(plan.back, call.g, call.ts),
                          !.to = plan.back]
  /\ UNCHANGED <<files, groupLock, docLock, history>>

\* Each file that cannot be taken back is logged; such failures are not counted.
RollBackFails(r) ==
  /\ At(r, "write")
  /\ req[r].call.name = "uncreate"
  /\ torn' = torn \cup req[r].call.ts
  /\ \E g \in Wave :
       IF Remaining(g) = {}
       THEN groupLock' = None /\ plan' = NoPlan /\ Set(r, Went(req[r], req[r].err))
       ELSE /\ plan' = [plan EXCEPT !.now = @ \ {g}, !.next = @ \ {g}]
            /\ UNCHANGED <<groupLock, req>>
  /\ UNCHANGED <<files, docLock, relisted, haunted, overwritten, failures>>

-------------------------------------------------------------------------------
(* The beginning of a request: what it was asked for, and what it reads before *)
(* it takes a lock.                                                            *)

New(op, ts) == [Idle EXCEPT !.op = op, !.ts = ts]

\* ensureSprintAssignable
Assignable(g) == g \in Groups /\ IsOpen(g)

Named == {ts \in Lists : ts \subseteq born}

BeginGroup(r) ==
  \/ \E ts \in Named : "create" \in Ops
       /\ Set(r, Calls(New("create", {}), "create", None, ts, "any", "done", "failed"))
  \/ \E g \in Groups, op \in {"update", "removeGroup"} \cap Ops :
       /\ group[g].status # "none"
       /\ Set(r, Calls(New(op, {}), op, g, {}, "any", "done", "failed"))
  \/ \E g \in Groups, dest \in Groups \cup {None} : "complete" \in Ops
       /\ group[g].status # "none"
       /\ Set(r, Calls(New("complete", {}), "complete", g, {}, dest, "done", "failed"))
  \/ \E g \in Groups, ts \in Named,
        op \in {"updateTickets", "addTickets", "removeTickets"} \cap Ops :
       /\ group[g].status # "none"
       /\ Set(r, Calls(New(op, {}), op, g, ts, "any", "done", "failed"))
  \/ \E g \in Groups, t \in born : "moveInGroup" \in Ops
       /\ group[g].status # "none"
       /\ Set(r, Calls(New("moveInGroup", {t}), "moveInGroup", g, {}, "any", "done", "failed"))

BeginTicket(r) ==
  \E t \in born :
    \/ "edit" \in Ops /\ Set(r, Locks(New("edit", {t}), "read"))
    \/ "remove" \in Ops
       /\ Set(r, Calls(New("remove", {t}), "strip", None, {t}, "any", "unlinking", "failed"))

\* bulkUpdate notes the open sprints of its tickets.
BeginBulkUpdate(r) ==
  LET snap(ts) == {p \in Sprints \X ts : IsOpen(p[1]) /\ p[2] \in group[p[1]].has} IN
  /\ "bulkUpdate" \in Ops
  /\ \E ts \in Named \ {{}}, sprint \in Groups \cup {None, "same"} :
       /\ sprint \notin {None, "same"} => Assignable(sprint)
       /\ Set(r, Locks([New("bulkUpdate", ts) EXCEPT
                         !.sprint = sprint, !.snap = snap(ts), !.leave = {p[1] : p \in snap(ts)}],
                       "read"))

\* split notes the sprint of the ticket.
BeginSplit(r) ==
  /\ "split" \in Ops
  /\ \E t \in born, sprint, newSprint \in Groups \cup {None} :
       \E from \in IF SprintsOf(group, t) = {} THEN {None} ELSE SprintsOf(group, t) :
         /\ Held(t)
         /\ \A g \in {sprint, newSprint} \ {from, None} : Assignable(g)
         /\ Set(r, Locks([New("split", {t}) EXCEPT
                           !.sprint = sprint, !.newSprint = newSprint, !.from = from], "read"))

Begin(r) ==
  /\ At(r, "idle")
  /\ BeginGroup(r) \/ BeginTicket(r) \/ BeginBulkUpdate(r) \/ BeginSplit(r)
  /\ UNCHANGED <<files, groupLock, docLock, plan, history, failures>>

-------------------------------------------------------------------------------
(* Tickets.                                                                  *)

\* withTicketLocks: one lock after the other, in the order of the numbers.
Locking == {"lock", "unlinking", "relock", "recording"}
Afterwards(q) == CASE q.at = "unlinking" -> "unlink"
                   [] q.at = "relock" -> "revert"
                   [] q.at = "recording" -> "record"
                   [] OTHER -> q.ok
Missing(r) == req[r].ts \ HeldBy(r)
\* Fault: the locks are taken in the order in which the tickets were given.
AnyLock(r, t) == t \in Missing(r)
NextLock(r, t) == t \in Missing(r) /\ \A u \in Missing(r) : t <= u

LockTicket(r) ==
  /\ req[r].at \in Locking
  /\ \E t \in Tickets :
       /\ NextLock(r, t)
       /\ docLock[t] = None
       /\ docLock' = [docLock EXCEPT ![t] = r]
       /\ IF Missing(r) = {t} THEN Goto(r, Afterwards(req[r])) ELSE UNCHANGED req
  /\ UNCHANGED <<files, groupLock, plan, history, failures>>

\* update: under the lock, and the ticketWrite lock from the read to the write.
ReadTicket(r) ==
  /\ At(r, "read")
  /\ req[r].op \in {"edit", "moveInGroup"}
  /\ \E t \in req[r].ts :
       IF Held(t)
       THEN /\ Set(r, [req[r] EXCEPT !.at = "patch", !.copy[t] = text[t] \cup {r}])
            /\ UNCHANGED <<groupLock, docLock, plan>>
       ELSE End(r, "failed", FALSE)
  /\ UNCHANGED <<files, history, failures>>

Writing(t) == \E r \in Requests : At(r, "patch") /\ t \in req[r].ts

PatchTicket(r) ==
  /\ At(r, "patch")
  /\ \E t \in req[r].ts : Stored(t, req[r].copy[t])
  /\ IF req[r].op = "moveInGroup"
     THEN /\ Set(r, [req[r] EXCEPT !.at = "write", !.ok = "done"])
          /\ docLock' = Unlocked(r)
          /\ UNCHANGED <<groupLock, plan>>
     ELSE End(r, "done", FALSE)
  /\ UNCHANGED <<born, group, history, failures>>

\* Listed again, or about to be listed by whoever holds the lock and has looked for it.
ListedMeanwhile(t) ==
  \E g \in Groups : \/ t \in relisted /\ t \in group[g].has \cup plan.back[g].has
                    \/ t \in plan.to[g].has \ plan.back[g].has

\* remove: the file goes, once no group lists it.
Unlink(r) ==
  /\ At(r, "unlink")
  /\ \E t \in req[r].ts :
       IF Held(t)
       THEN /\ Deleted(t) /\ End(r, "done", FALSE)
            /\ haunted' = IF ListedMeanwhile(t) THEN haunted \cup {t} ELSE haunted
       ELSE UNCHANGED <<file, text, haunted>> /\ End(r, "failed", FALSE)
  /\ UNCHANGED <<born, group, torn, relisted, overwritten, failures>>

\* What was not begun need not be taken back; a split that fails to be recorded stays.
Stops(r) ==
  /\ \/ req[r].at \in {"lock", "unlinking", "recording", "read", "patch", "unlink", "record"}
     \/ At(r, "relock")
  /\ Fails
  /\ End(r, "failed", req[r].at \in {"relock", "recording", "record"})
  /\ UNCHANGED <<files, history>>

-------------------------------------------------------------------------------
(* bulkUpdate: all locks, all documents, then the sprint without the locks.  *)

ReadTickets(r) ==
  /\ At(r, "read")
  /\ req[r].op = "bulkUpdate"
  /\ IF \E t \in req[r].ts : ~Held(t)
     THEN End(r, "failed", FALSE)
     ELSE /\ \E changed \in SUBSET req[r].ts :
               Set(r, [req[r] EXCEPT !.at = "bulk", !.todo = changed,
                         !.copy = [t \in Tickets |-> IF t \in changed THEN text[t] \cup {r} ELSE {}]])
          /\ UNCHANGED <<groupLock, docLock, plan>>
  /\ UNCHANGED <<files, history, failures>>

\* An interruption after the write is not noted for the way back.
WriteNext(r, interrupted) ==
  /\ At(r, "bulk")
  /\ \E t \in req[r].todo :
       /\ Stored(t, req[r].copy[t])
       /\ IF interrupted
          THEN Fails /\ Set(r, [req[r] EXCEPT !.at = "revert", !.cut = TRUE])
          ELSE /\ Set(r, [req[r] EXCEPT !.todo = @ \ {t}, !.done = @ \cup {t}])
               /\ UNCHANGED failures
  /\ UNCHANGED <<born, group, groupLock, docLock, plan, history>>

BulkFails(r) ==
  /\ At(r, "bulk")
  /\ Fails
  /\ Goto(r, "revert")
  /\ UNCHANGED <<files, groupLock, docLock, plan, history>>

BulkWritten(r) ==
  LET q == req[r] IN
  /\ At(r, "bulk")
  /\ q.todo = {}
  /\ docLock' = Unlocked(r)
  /\ Set(r, CASE q.sprint = "same" -> Over(q, "done", q.cut)
              [] q.sprint = None -> [q EXCEPT !.at = "leave"]
              [] OTHER -> Calls(q, "addTickets", q.sprint, q.ts, "any", "done", "relock"))
  /\ UNCHANGED <<files, groupLock, plan, history, failures>>

\* One sprint after the other loses its tickets ...
LeaveSprint(r) ==
  LET q == req[r]
      rest == IF q.at = "left" THEN q.leave \ {q.call.g} ELSE q.leave
  IN
  /\ q.at \in {"leave", "left"}
  /\ IF rest = {} THEN Set(r, Over(q, "done", q.cut))
     ELSE \E g \in rest :
            Set(r, Calls([q EXCEPT !.leave = rest], "removeTickets", g,
                         {t \in q.ts : <<g, t>> \in q.snap}, "any", "left", "rejoin"))
  /\ UNCHANGED <<files, groupLock, docLock, plan, history, failures>>

\* ... and gets them back when a later one fails, unless they are elsewhere.
Rejoin(r) ==
  LET q == req[r]
      back == IF q.at = "rejoin" THEN {p \in q.snap : p[1] \notin q.leave} ELSE q.snap
  IN
  /\ q.at \in {"rejoin", "rejoined"}
  /\ IF back = {} THEN Goto(r, "relock")
     ELSE \E p \in back :
            Set(r, Calls([q EXCEPT !.snap = back \ {p}], "set", p[1], {p[2]}, None,
                         "rejoined", "rejoined"))
  /\ UNCHANGED <<files, groupLock, docLock, plan, history, failures>>

\* Fault: the way back stops at a ticket that was removed meanwhile.
RevertSome(r) == {t \in req[r].done : \A u \in Tickets : u < t => Held(u)}
ToRevert(r) == req[r].done

\* revertWritten: of each ticket that is still there, what the bulk update changed.
Revert(r) ==
  /\ At(r, "revert")
  /\ IF ToRevert(r) = {}
     THEN UNCHANGED <<file, text, failures>> /\ End(r, "failed", req[r].cut)
     ELSE /\ \E t \in ToRevert(r), fails \in BOOLEAN :
               /\ Set(r, [req[r] EXCEPT !.done = @ \ {t}, !.cut = @ \/ fails])
               /\ IF fails THEN Fails ELSE UNCHANGED failures
               /\ IF Held(t) /\ ~fails THEN Stored(t, text[t] \ {r}) ELSE UNCHANGED <<file, text>>
          /\ UNCHANGED <<groupLock, docLock, plan>>
  /\ UNCHANGED <<born, group, history>>

-------------------------------------------------------------------------------
(* split: the documents under the lock of the ticket, then their sprints.    *)

ReadSplit(r) ==
  /\ At(r, "read")
  /\ req[r].op = "split"
  /\ \E t \in req[r].ts :
       IF Held(t)
       THEN /\ Set(r, [req[r] EXCEPT !.at = "birth", !.copy[t] = text[t]])
            /\ UNCHANGED <<groupLock, docLock, plan>>
       ELSE End(r, "failed", FALSE)
  /\ UNCHANGED <<files, history, failures>>

WriteNew(r) ==
  /\ At(r, "birth")
  /\ \E n \in Tickets \ born :
       /\ \A m \in Tickets \ born : n <= m
       /\ Stored(n, {r})
       /\ born' = born \cup {n}
       /\ Set(r, [req[r] EXCEPT !.at = "retain", !.new = n])
  /\ UNCHANGED <<group, groupLock, docLock, plan, history, failures>>

Moves(q) == q.sprint # q.from

Retain(r) ==
  LET q == req[r] IN
  /\ At(r, "retain")
  /\ \E t \in q.ts : Stored(t, text[t] \cup {r})
  /\ docLock' = Unlocked(r)
  /\ Set(r, IF Moves(q) THEN Calls(q, "set", q.sprint, q.ts, q.from, "assign", "undo")
            ELSE [q EXCEPT !.at = "assign"])
  /\ UNCHANGED <<born, group, groupLock, plan, history, failures>>

SplitFails(r) ==
  /\ req[r].at \in {"birth", "retain"}
  /\ Fails
  /\ Goto(r, "discard")
  /\ UNCHANGED <<files, groupLock, docLock, plan, history>>

AssignNew(r) ==
  LET q == req[r] IN
  /\ At(r, "assign")
  /\ Set(r, Calls(q, "set", q.newSprint, {q.new}, None, "recording", "undo"))
  /\ UNCHANGED <<files, groupLock, docLock, plan, history, failures>>

Record(r) ==
  /\ At(r, "record")
  /\ End(r, "done", FALSE)
  /\ UNCHANGED <<files, history, failures>>

\* The way back: the sprints, as far as it goes; nobody is asked where the tickets are now.
UndoSprints(r) ==
  LET q == req[r]
      then == IF Moves(q) THEN "undo old" ELSE "discard"
  IN
  /\ \/ At(r, "undo") /\ Set(r, Calls(q, "set", None, {q.new}, "any", then, then))
     \/ At(r, "undo old") /\ Set(r, Calls(q, "set", q.from, q.ts, "any", "discard", "discard"))
  /\ UNCHANGED <<files, groupLock, docLock, plan, history, failures>>

\* discardSplitResult, whose failure is ignored; it waits for a writer of the ticket.
Discard(r, fails) ==
  LET n == req[r].new IN
  /\ At(r, "discard")
  /\ n # None => ~Writing(n)
  /\ IF fails THEN Fails ELSE UNCHANGED failures
  /\ IF n = None \/ fails THEN UNCHANGED <<file, text, haunted, overwritten>>
     ELSE /\ Deleted(n)
          /\ haunted' = IF \E g \in Groups : n \in group[g].has \cup plan.to[g].has \cup plan.back[g].has
                        THEN haunted \cup {n} ELSE haunted
          /\ overwritten' = IF docLock[n] = None THEN overwritten ELSE overwritten \cup {n}
  /\ Set(r, [req[r] EXCEPT !.at = "restore", !.cut = @ \/ fails])
  /\ UNCHANGED <<born, group, groupLock, docLock, plan, torn, relisted>>

\* restoreTicket writes the whole original, without the lock if that was given back.
Restore(r, fails) ==
  /\ At(r, "restore")
  /\ IF fails THEN Fails ELSE UNCHANGED failures
  /\ \E t \in req[r].ts :
       /\ IF fails THEN UNCHANGED <<file, text>> ELSE Stored(t, req[r].copy[t])
       /\ overwritten' = IF docLock[t] = r THEN overwritten ELSE overwritten \cup {t}
  /\ End(r, "failed", req[r].cut \/ fails)
  /\ UNCHANGED <<born, group, torn, relisted, haunted>>

-------------------------------------------------------------------------------
Ended == {"idle", "done", "failed"}

\* The process ends: locks and requests are gone, what is written stays.
Crash ==
  /\ Fails
  /\ req' = [r \in Requests |-> IF req[r].at \in Ended THEN req[r] ELSE Over(req[r], "failed", TRUE)]
  /\ groupLock' = None
  /\ docLock' = [t \in Tickets |-> None]
  /\ plan' = NoPlan
  /\ torn' = torn \cup UNION {req[r].call.ts : r \in {r \in Requests :
                 At(r, "write") /\ req[r].call.name \in {"complete", "set", "create", "uncreate"}}}
  /\ UNCHANGED <<files, relisted, haunted, overwritten>>

GroupStep(r) ==
  \/ CreateGroup(r) \/ UpdateGroup(r) \/ ChangeTickets(r) \/ Complete(r) \/ RemoveGroup(r)
  \/ UpdateTicketOrder(r) \/ SetSprintMembership(r) \/ RemoveTicketFromAllGroups(r)
  \/ (\E interrupted \in BOOLEAN : WriteGroup(r, interrupted))
  \/ GroupCallFails(r) \/ RollBackCreation(r) \/ RollBackFails(r)

TicketStep(r) ==
  \/ LockTicket(r) \/ ReadTicket(r) \/ PatchTicket(r) \/ Unlink(r) \/ Stops(r)

BulkStep(r) ==
  \/ ReadTickets(r) \/ (\E interrupted \in BOOLEAN : WriteNext(r, interrupted)) \/ BulkFails(r)
  \/ BulkWritten(r) \/ LeaveSprint(r) \/ Rejoin(r) \/ Revert(r)

SplitStep(r) ==
  \/ ReadSplit(r) \/ WriteNew(r) \/ Retain(r) \/ SplitFails(r) \/ AssignNew(r) \/ Record(r)
  \/ UndoSprints(r)
  \/ \E fails \in BOOLEAN : Discard(r, fails) \/ Restore(r, fails)

Next ==
  \/ \E r \in Requests : Begin(r) \/ GroupStep(r) \/ TicketStep(r) \/ BulkStep(r) \/ SplitStep(r)
  \/ Crash

Spec == Init /\ [][Next]_vars

-------------------------------------------------------------------------------
(* Properties.                                                               *)

CallNames == {"none", "create", "update", "updateTickets", "addTickets", "removeTickets",
              "complete", "removeGroup", "moveInGroup", "set", "strip", "uncreate"}
Ats == Ended \cup Locking \cup
       {"group", "write", "read", "patch", "unlink", "bulk", "leave", "left", "rejoin", "rejoined",
        "revert", "birth", "retain", "assign", "record", "undo", "undo old", "discard", "restore"}
CallRecords == [name : CallNames, g : Groups \cup {None}, ts : SUBSET Tickets,
                from : Groups \cup {None, "any"}]
RequestRecords ==
  [op : AllOps \cup {"none"}, at : Ats, call : CallRecords, ok : Ats, err : Ats,
   ts : SUBSET Tickets, sprint : Groups \cup {None, "same"}, from : Groups \cup {None},
   newSprint : Groups \cup {None}, new : Tickets \cup {None}, copy : [Tickets -> SUBSET Requests],
   todo : SUBSET Tickets, done : SUBSET Tickets, snap : SUBSET (Groups \X Tickets),
   leave : SUBSET Groups, cut : BOOLEAN]
Plans == [now : SUBSET Groups, next : SUBSET Groups, to : [Groups -> GroupFiles],
          back : [Groups -> GroupFiles]]

\* Every variable has its type, and a request that is over holds no lock.
TypeOK ==
  /\ file \subseteq Tickets
  /\ text \in [Tickets -> SUBSET Requests]
  /\ born \subseteq Tickets
  /\ group \in [Groups -> GroupFiles]
  /\ groupLock \in Requests \cup {None}
  /\ docLock \in [Tickets -> Requests \cup {None}]
  /\ req \in [Requests -> RequestRecords]
  /\ plan \in Plans
  /\ torn \subseteq Tickets
  /\ relisted \subseteq Tickets
  /\ haunted \subseteq Tickets
  /\ overwritten \subseteq Tickets
  /\ failures \in 0..MaxFailures
  /\ \A r \in Requests : req[r].at \in Ended => HeldBy(r) = {} /\ groupLock # r

\* A ticket is in at most one sprint that is planned or active: when nobody is at the group
\* files, whatever requests ended or failed before.  Left out are the tickets of a completion,
\* a creation or a move that stopped between its files, and of a sprint opened again.
AtMostOneSprint ==
  groupLock = None => \A t \in Tickets \ torn : InOne(group, t)

\* What a group lists exists: a removal clears the lists before the file, and whoever lists a
\* ticket looks for it first.  Left out are the tickets that were taken away after somebody had
\* looked for them, between the lists and the file of a removal or by the way back of a split,
\* and those that setSprintMembership, which does not look, listed when they were gone.
ListedTicketsExist ==
  \A g \in Groups : \A t \in group[g].has \ haunted : Held(t)

\* Nobody waits for ever: there are no requests that wait for each other's locks, or for
\* their own.
WaitsFor(r, q) ==
  \/ At(r, "group") /\ groupLock = q
  \/ req[r].at \in Locking /\ \E t \in Tickets : NextLock(r, t) /\ docLock[t] = q
NoCircularWait ==
  \A rs \in (SUBSET Requests) \ {{}} : \E r \in rs : \A q \in rs : ~WaitsFor(r, q)

\* All or nothing: a bulk update that failed has its change in no ticket, whoever edited,
\* moved or removed the tickets in between, and a split that failed has left no new ticket,
\* provided that the way back went through.  Left out are the tickets that the way back of a
\* split wrote without their lock, or removed while somebody held it; and nothing is said of
\* what a failed split leaves in the ticket that it split.
FailedLeavesNothing ==
  \A r \in Requests :
    At(r, "failed") /\ ~req[r].cut =>
      /\ req[r].op = "bulkUpdate" => \A t \in Tickets \ overwritten : r \notin text[t]
      /\ req[r].op = "split" /\ req[r].new \notin overwritten \cup {None} => ~Held(req[r].new)

===============================================================================
