------------------------ MODULE GroupMembership_proofs ------------------------
(***************************************************************************)
(* Proofs about GroupMembership, for any tickets, groups, requests and     *)
(* failures.  The argument: the stage of a request tells which locks it    *)
(* holds (LockInv), and it takes those of tickets in the order of their    *)
(* numbers, so that nobody waits in a circle; a ticket leaves every list   *)
(* before its file goes (ListInv); what a bulk update or a split has to    *)
(* take back is in its hands (FailInv); and the lists of open sprints      *)
(* share a ticket only while the request that moves it is between its      *)
(* writes, or where the history says that it stopped there (OneInv).       *)
(***************************************************************************)
EXTENDS GroupMembership, WellFoundedInduction, TLAPS

-------------------------------------------------------------------------------
(* The types, and what a request's stage tells of the rest of it.            *)

Singles == {"edit", "remove", "moveInGroup", "split"}
GroupOps == {"create", "update", "updateTickets", "addTickets", "removeTickets", "complete",
             "removeGroup"}
InBulk == {"bulk", "leave", "left", "rejoin", "rejoined", "relock", "revert"}
InSplit == {"birth", "retain", "assign", "recording", "record", "undo", "undo old", "discard",
            "restore"}
HasNew == {"retain", "assign", "recording", "record", "undo", "undo old"}

\* Where a call of Groups goes on, by who makes it.
Onward(q) ==
  \/ /\ q.op \in GroupOps /\ q.call.name \in GroupOps \cup {"uncreate"}
     /\ q.ok \in {"done", "failed"} /\ q.err = "failed"
  \/ /\ q.op = "moveInGroup" /\ q.call.name = "moveInGroup" /\ q.ok = "done" /\ q.err = "failed"
  \/ /\ q.op = "remove" /\ q.call.name = "strip" /\ q.call.ts = q.ts
     /\ q.ok = "unlinking" /\ q.err = "failed"
  \/ q.op = "bulkUpdate" /\ q.call.name = "addTickets" /\ q.ok = "done" /\ q.err = "relock"
  \/ q.op = "bulkUpdate" /\ q.call.name = "removeTickets" /\ q.ok = "left" /\ q.err = "rejoin"
  \/ q.op = "bulkUpdate" /\ q.call.name = "set" /\ q.ok = "rejoined" /\ q.err = "rejoined"
  \/ /\ q.op = "split" /\ q.call.name = "set" /\ q.new \in Tickets
     /\ \/ q.ok \in {"assign", "recording"} /\ q.err = "undo"
        \/ q.ok \in {"undo old", "discard"} /\ q.err = q.ok

Single(ts) == \E t \in Tickets : ts = {t}
OnGroup == {"update", "updateTickets", "addTickets", "removeTickets", "complete", "removeGroup",
            "moveInGroup"}
Calling1(q) ==
  /\ Onward(q)
  /\ q.call.name \in OnGroup \/ (q.at = "write" /\ q.call.name \in {"create", "uncreate"}) =>
       q.call.g \in Groups
  /\ q.call.name = "set" => Single(q.call.ts)

Shape(q) ==
  /\ q.op \in Singles => Single(q.ts)
  /\ q.at \in {"group", "write"} => Calling1(q)
  /\ q.at \in InBulk => q.op = "bulkUpdate"
  /\ q.at \in InSplit => q.op = "split"
  /\ q.at \in {"unlinking", "unlink"} => q.op = "remove"
  /\ q.at = "patch" => q.op \in {"edit", "moveInGroup"}
  /\ q.at \in {"lock", "read"} =>
       /\ q.op \in {"edit", "moveInGroup", "bulkUpdate", "split"}
       /\ q.done = {} /\ q.new = None
  /\ q.at = "lock" => q.ok = "read"
  /\ q.op = "moveInGroup" /\ q.at \in {"lock", "read", "patch"} =>
       q.call.name = "moveInGroup" /\ q.call.g \in Groups /\ q.err = "failed"
  /\ q.op = "moveInGroup" => q.done = {} /\ q.new = None
  /\ q.op = "split" => q.sprint # "same"
  /\ q.at \in HasNew => q.new \in Tickets
  /\ q.todo \subseteq q.ts /\ q.done \subseteq q.ts

\* The locks that a request has at its stage.
MayHold == Locking \cup {"read", "patch", "unlink", "bulk", "revert", "birth", "retain",
                         "discard", "restore", "record"}
MustHold == {"read", "patch", "unlink", "bulk", "revert", "birth", "retain", "record"}
HoldsGroups(q) ==
  q.at = "write" \/ (q.op = "moveInGroup" /\ q.at \in {"lock", "read", "patch"})
Owns(r, q, gl, dl) ==
  /\ (gl = r) <=> HoldsGroups(q)
  /\ \A t \in Tickets : dl[t] = r => q.at \in MayHold /\ t \in q.ts
  /\ q.at \in MustHold => \A t \in q.ts : dl[t] = r
  /\ q.at \in Locking => \A t, u \in Tickets : dl[t] = r /\ u \in q.ts /\ dl[u] # r => t < u

FilesOK ==
  /\ file \subseteq Tickets
  /\ text \in [Tickets -> SUBSET Requests]
  /\ born \subseteq Tickets
  /\ group \in [Groups -> GroupFiles]
LocksOK ==
  /\ groupLock \in Requests \cup {None}
  /\ docLock \in [Tickets -> Requests \cup {None}]
  /\ plan \in Plans
PastOK ==
  /\ torn \subseteq Tickets /\ relisted \subseteq Tickets /\ haunted \subseteq Tickets
  /\ overwritten \subseteq Tickets
  /\ failures \in 0..MaxFailures
VarsOK == FilesOK /\ LocksOK /\ PastOK
ReqOK ==
  /\ req \in [Requests -> RequestRecords]
  /\ \A r \in Requests : Shape(req[r])
LockInv == \A r \in Requests : Owns(r, req[r], groupLock, docLock)
TypeInv == VarsOK /\ ReqOK /\ LockInv

LEMMA TypeInvImplies == TypeInv => TypeOK
<1> SUFFICES ASSUME TypeInv PROVE TypeOK
  OBVIOUS
<1>1. ASSUME NEW r \in Requests, req[r].at \in Ended PROVE HeldBy(r) = {} /\ groupLock # r
  <2>1. Owns(r, req[r], groupLock, docLock)
    BY DEF TypeInv, LockInv
  <2>2. req[r].at \notin MayHold /\ ~HoldsGroups(req[r])
    BY <1>1 DEF Ended, MayHold, Locking, HoldsGroups
  <2>3. QED
    BY <2>1, <2>2 DEF Owns, HeldBy
<1>2. QED
  BY <1>1 DEF TypeInv, VarsOK, FilesOK, LocksOK, PastOK, ReqOK, TypeOK

-------------------------------------------------------------------------------
(* What the helpers of the actions do.                                       *)

LEMMA IdleTyped ==
  /\ Idle \in RequestRecords
  /\ Idle.op = "none" /\ Idle.at = "idle" /\ Idle.ts = {} /\ Idle.todo = {} /\ Idle.done = {}
  /\ Idle.new = None /\ Idle.sprint = None /\ Idle.cut = FALSE /\ \A t \in Tickets : Idle.copy[t] = {}
BY DEF Idle, RequestRecords, NoCall, CallRecords, CallNames, Ats, Ended

LEMMA OverIs ==
  ASSUME NEW q \in RequestRecords, NEW outcome \in {"done", "failed"}, NEW cut \in BOOLEAN,
         NEW p, p = Over(q, outcome, cut)
  PROVE  /\ p \in RequestRecords
         /\ p.op = q.op /\ p.at = outcome /\ p.ts = q.ts /\ p.new = q.new /\ p.cut = cut
         /\ p.todo = {} /\ p.done = {} /\ p.sprint = None /\ \A t \in Tickets : p.copy[t] = {}
<1>0. Idle \in RequestRecords /\ outcome \in Ats
  BY IdleTyped DEF Ats, Ended
<1>1. Idle \in RequestRecords /\ outcome \in Ats /\ Idle.todo = {} /\ Idle.done = {} /\ Idle.sprint = None
      /\ \A t \in Tickets : Idle.copy[t] = {}
  BY IdleTyped DEF Ats, Ended
<1>2. p \in RequestRecords
  BY <1>0 DEF Over, RequestRecords
<1>3. p.op = q.op /\ p.at = outcome /\ p.ts = q.ts /\ p.new = q.new /\ p.cut = cut
  BY <1>1 DEF Over, RequestRecords
<1>4. p.todo = {} /\ p.done = {} /\ p.sprint = None /\ \A t \in Tickets : p.copy[t] = {}
  BY <1>1 DEF Over, RequestRecords
<1>5. QED
  BY <1>2, <1>3, <1>4

LEMMA OverShape ==
  ASSUME NEW q \in RequestRecords, Shape(q), NEW outcome \in {"done", "failed"},
         NEW cut \in BOOLEAN, NEW p, p = Over(q, outcome, cut)
  PROVE  Shape(p) /\ p.at \notin MayHold /\ ~HoldsGroups(p)
<1>1. /\ p.op = q.op /\ p.at \in {"done", "failed"} /\ p.ts = q.ts /\ p.new = q.new
      /\ p.todo = {} /\ p.done = {} /\ p.sprint # "same"
  BY OverIs, GroupsAssumption
<1>2. Shape(p)
  BY <1>1 DEF Shape, InBulk, InSplit, HasNew
<1>3. p.at \notin MayHold /\ ~HoldsGroups(p)
  BY <1>1 DEF MayHold, Locking, HoldsGroups
<1>4. QED
  BY <1>2, <1>3

LEMMA CallsIs ==
  ASSUME NEW q \in RequestRecords, NEW name \in CallNames, NEW g \in Groups \cup {None},
         NEW ts \in SUBSET Tickets, NEW from \in Groups \cup {None, "any"},
         NEW ok \in Ats, NEW err \in Ats, NEW p, p = Calls(q, name, g, ts, from, ok, err)
  PROVE  /\ p \in RequestRecords
         /\ p.op = q.op /\ p.at = "group" /\ p.ts = q.ts /\ p.new = q.new /\ p.cut = q.cut
         /\ p.call.name = name /\ p.call.g = g /\ p.call.ts = ts /\ p.call.from = from
         /\ p.ok = ok /\ p.err = err /\ p.copy = q.copy /\ p.todo = q.todo /\ p.done = q.done
         /\ p.sprint = q.sprint
<1> DEFINE c == [name |-> name, g |-> g, ts |-> ts, from |-> from]
<1>1. /\ c \in CallRecords /\ "group" \in Ats
      /\ c.name = name /\ c.g = g /\ c.ts = ts /\ c.from = from
  BY DEF CallRecords, Ats
<1>2. p = [q EXCEPT !.at = "group", !.call = c, !.ok = ok, !.err = err]
  BY DEF Calls
<1> HIDE DEF c
<1>3. p \in RequestRecords
  BY <1>1, <1>2, ZenonT(40) DEF RequestRecords
<1>4. /\ p.op = q.op /\ p.at = "group" /\ p.ts = q.ts /\ p.new = q.new /\ p.cut = q.cut
      /\ p.call = c /\ p.ok = ok /\ p.err = err
      /\ p.copy = q.copy /\ p.todo = q.todo /\ p.done = q.done /\ p.sprint = q.sprint
  BY <1>1, <1>2 DEF RequestRecords
<1>5. QED
  BY <1>1, <1>3, <1>4

LEMMA AtIs ==
  ASSUME NEW q \in RequestRecords, NEW at \in Ats, NEW p, p = [q EXCEPT !.at = at]
  PROVE  /\ p \in RequestRecords
         /\ p.op = q.op /\ p.at = at /\ p.ts = q.ts /\ p.new = q.new /\ p.cut = q.cut
         /\ p.call = q.call /\ p.ok = q.ok /\ p.err = q.err
         /\ p.copy = q.copy /\ p.todo = q.todo /\ p.done = q.done /\ p.sprint = q.sprint
<1>1. p \in RequestRecords
  BY DEF RequestRecords
<1>2. QED
  BY <1>1 DEF RequestRecords

-------------------------------------------------------------------------------
(* A step of a request changes its own record and its own locks.             *)

Mine(r) ==
  /\ groupLock' = groupLock \/ (groupLock \in {None, r} /\ groupLock' \in {None, r})
  /\ \A t \in Tickets : \/ docLock'[t] = docLock[t]
                        \/ docLock[t] \in {None, r} /\ docLock'[t] \in {None, r}

Becomes(r, p) ==
  /\ req' \in [Requests -> RequestRecords]
  /\ req'[r] = p
  /\ \A s \in Requests : s # r => req'[s] = req[s]

LEMMA NoneIsNobody == GroupsAssumption => None \notin Requests
BY DEF GroupsAssumption

LEMMA Assemble ==
  ASSUME TypeInv, VarsOK', NEW r \in Requests, NEW p \in RequestRecords, Shape(p), Set(r, p),
         Mine(r), Owns(r, p, groupLock', docLock')
  PROVE  TypeInv' /\ Becomes(r, p)
<1>1. Becomes(r, p)
  BY DEF TypeInv, ReqOK, Set, Becomes
<1>2. ReqOK'
  BY <1>1 DEF TypeInv, ReqOK, Becomes
<1>3. ASSUME NEW s \in Requests PROVE Owns(s, req'[s], groupLock', docLock')
  <2>1. CASE s = r
    BY <2>1, <1>1 DEF Becomes
  <2>2. CASE s # r
    <3>1. Owns(s, req[s], groupLock, docLock) /\ req'[s] = req[s]
      BY <2>2, <1>1 DEF TypeInv, LockInv, Becomes
    <3>2. (groupLock' = s) <=> (groupLock = s)
      BY <2>2, NoneIsNobody, GroupsAssumption DEF Mine
    <3>3. \A t \in Tickets : (docLock'[t] = s) <=> (docLock[t] = s)
      BY <2>2, NoneIsNobody, GroupsAssumption DEF Mine
    <3>4. /\ (groupLock' = s) <=> HoldsGroups(req[s])
          /\ \A t \in Tickets : docLock'[t] = s => req[s].at \in MayHold /\ t \in req[s].ts
      BY <3>1, <3>2, <3>3 DEF Owns
    <3>5. req[s].at \in MustHold => \A t \in req[s].ts : docLock'[t] = s
      <4>1. req[s].ts \subseteq Tickets
        BY DEF TypeInv, ReqOK, RequestRecords
      <4>2. QED
        BY <3>1, <3>3, <4>1 DEF Owns
    <3>6. req[s].at \in Locking =>
            \A t, u \in Tickets : docLock'[t] = s /\ u \in req[s].ts /\ docLock'[u] # s => t < u
      BY <3>1, <3>3 DEF Owns
    <3>7. QED
      BY <3>1, <3>4, <3>5, <3>6 DEF Owns
  <2>3. QED
    BY <2>1, <2>2
<1>4. QED
  BY <1>1, <1>2, <1>3 DEF TypeInv, LockInv

LEMMA OwnsNoTicket ==
  ASSUME NEW r, NEW p, NEW gl, NEW dl, \A t \in Tickets : dl[t] # r, p.at \notin MustHold,
         (gl = r) <=> HoldsGroups(p)
  PROVE  Owns(r, p, gl, dl)
BY DEF Owns

LEMMA HoldsNoTicket ==
  ASSUME TypeInv, NEW r \in Requests, req[r].at \notin MayHold
  PROVE  \A t \in Tickets : docLock[t] # r
BY DEF TypeInv, LockInv, Owns

LEMMA Unlocks ==
  ASSUME LocksOK, NEW r \in Requests, docLock' = Unlocked(r)
  PROVE  /\ docLock' \in [Tickets -> Requests \cup {None}]
         /\ \A t \in Tickets : docLock'[t] = IF docLock[t] = r THEN None ELSE docLock[t]
BY DEF LocksOK, Unlocked

LEMMA NoPlanTyped == NoPlan \in Plans /\ NoFiles \in [Groups -> GroupFiles] /\ NoFile \in GroupFiles
BY DEF NoPlan, Plans, NoFiles, NoFile, GroupFiles

\* The end of a request.
LEMMA EndKeeps ==
  ASSUME TypeInv, FilesOK', PastOK', NEW r \in Requests, NEW outcome \in {"done", "failed"},
         NEW cut \in BOOLEAN, End(r, outcome, cut)
  PROVE  /\ TypeInv' /\ Mine(r)
         /\ Becomes(r, Over(req[r], outcome, cut))
         /\ groupLock' = (IF groupLock = r THEN None ELSE groupLock)
         /\ plan' = (IF groupLock = r THEN NoPlan ELSE plan)
<1> DEFINE p == Over(req[r], outcome, cut)
<1>1. req[r] \in RequestRecords /\ Shape(req[r])
  BY DEF TypeInv, ReqOK
<1>2. p \in RequestRecords /\ Shape(p) /\ p.at \notin MayHold /\ ~HoldsGroups(p)
  BY <1>1, OverIs, OverShape
<1>3. Set(r, p) /\ docLock' = Unlocked(r)
  BY DEF End
<1> HIDE DEF p
<1>4. LocksOK
  BY DEF TypeInv, VarsOK
<1>5. /\ docLock' \in [Tickets -> Requests \cup {None}]
      /\ \A t \in Tickets : docLock'[t] = IF docLock[t] = r THEN None ELSE docLock[t]
  BY <1>3, <1>4, Unlocks
<1>6. /\ groupLock' = (IF groupLock = r THEN None ELSE groupLock)
      /\ plan' = IF groupLock = r THEN NoPlan ELSE plan
  BY DEF End
<1>7. LocksOK'
  BY <1>4, <1>5, <1>6, NoPlanTyped DEF LocksOK
<1>8. Mine(r)
  BY <1>5, <1>6 DEF Mine
<1>9. r # None
  BY NoneIsNobody, GroupsAssumption
<1>10. Owns(r, p, groupLock', docLock')
  <2>1. MustHold \subseteq MayHold
    BY DEF MustHold, MayHold
  <2>2. groupLock' # r /\ \A t \in Tickets : docLock'[t] # r
    BY <1>5, <1>6, <1>9
  <2>3. QED
    BY <1>2, <2>1, <2>2, OwnsNoTicket
<1>11. TypeInv' /\ Becomes(r, p)
  BY <1>2, <1>3, <1>7, <1>8, <1>10, Assemble DEF VarsOK
<1>12. QED
  BY <1>6, <1>8, <1>11 DEF p

\* A step that leaves all locks as they are.
LEMMA StayKeeps ==
  ASSUME TypeInv, VarsOK', NEW r \in Requests, NEW p \in RequestRecords, Shape(p), Set(r, p),
         groupLock' = groupLock, docLock' = docLock, Owns(r, p, groupLock, docLock)
  PROVE  TypeInv' /\ Mine(r) /\ Becomes(r, p)
<1>1. Mine(r)
  BY DEF Mine
<1>2. QED
  BY <1>1, Assemble

\* The end of a call.
Waiting == {"unlinking", "relock", "left", "rejoin", "rejoined", "assign", "recording", "undo",
            "undo old", "discard"}
LEMMA WentIs ==
  ASSUME NEW q \in RequestRecords, Shape(q), q.at \in {"group", "write"},
         NEW at \in {q.ok, q.err}, NEW p, p = Went(q, at)
  PROVE  /\ p \in RequestRecords /\ Shape(p)
         /\ p.at = at /\ at \in Waiting \cup {"done", "failed"}
         /\ p.op = q.op /\ p.ts = q.ts /\ p.new = q.new /\ p.cut = q.cut
         /\ at \in Waiting => p.call = q.call /\ p.copy = q.copy /\ p.todo = q.todo /\ p.done = q.done
         /\ at \notin Waiting => p.todo = {} /\ p.done = {} /\ \A t \in Tickets : p.copy[t] = {}
         /\ p.at \notin MustHold /\ ~HoldsGroups(p)
<1>1. Calling1(q) /\ q.cut \in BOOLEAN
  BY DEF Shape, RequestRecords
<1>2. at \in Waiting \cup {"done", "failed"}
  BY <1>1 DEF Calling1, Onward, Waiting
<1>3. CASE at \in {"done", "failed"}
  <2>1. p = Over(q, at, q.cut) /\ at \notin Waiting
    BY <1>3 DEF Went, Waiting
  <2>2. Shape(p) /\ p.at \notin MayHold /\ ~HoldsGroups(p)
    BY <2>1, <1>1, <1>3, OverShape
  <2>3. p.at \notin MustHold
    BY <2>2 DEF MustHold, MayHold
  <2>4. /\ p \in RequestRecords
        /\ p.op = q.op /\ p.at = at /\ p.ts = q.ts /\ p.new = q.new /\ p.cut = q.cut
        /\ p.todo = {} /\ p.done = {} /\ \A t \in Tickets : p.copy[t] = {}
    BY <2>1, <1>1, <1>3, OverIs
  <2>5. QED
    BY <1>2, <2>1, <2>2, <2>3, <2>4
<1>4. CASE at \in Waiting
  <2>1. p = [q EXCEPT !.at = at] /\ at \in Ats
    BY <1>4 DEF Went, Waiting, Ats, Ended, Locking
  <2>2. /\ p \in RequestRecords
        /\ p.op = q.op /\ p.at = at /\ p.ts = q.ts /\ p.new = q.new /\ p.cut = q.cut
        /\ p.call = q.call /\ p.ok = q.ok /\ p.err = q.err
        /\ p.copy = q.copy /\ p.todo = q.todo /\ p.done = q.done /\ p.sprint = q.sprint
    BY <2>1, AtIs
  <2>3. /\ at \in InBulk => q.op = "bulkUpdate"
        /\ at \in InSplit => q.op = "split"
        /\ at = "unlinking" => q.op = "remove"
        /\ at \in HasNew => q.new \in Tickets
    <3>1. /\ at \in InBulk <=> at \in {"left", "rejoin", "rejoined", "relock"}
          /\ at \in InSplit <=> at \in {"assign", "recording", "undo", "undo old", "discard"}
          /\ at \in HasNew => at \in InSplit
      BY <1>4 DEF InBulk, InSplit, HasNew, Waiting
    <3>2. /\ at \in {"left", "rejoin", "rejoined", "relock"} => q.op = "bulkUpdate"
          /\ at \in {"assign", "recording", "undo", "undo old", "discard"}
               => q.op = "split" /\ q.new \in Tickets
          /\ at = "unlinking" => q.op = "remove"
      BY <1>1 DEF Calling1, Onward
    <3>3. QED
      BY <3>1, <3>2
  <2>4. Shape(p)
    BY <1>4, <2>2, <2>3 DEF Shape, Waiting
  <2>5. p.at \notin MustHold /\ ~HoldsGroups(p)
    BY <1>4, <2>2 DEF MustHold, HoldsGroups, Waiting
  <2>6. QED
    BY <1>2, <1>4, <2>2, <2>4, <2>5
<1>5. QED
  BY <1>2, <1>3, <1>4

LEMMA WentKeeps ==
  ASSUME TypeInv, VarsOK', NEW r \in Requests, req[r].at \in {"group", "write"},
         NEW at \in {req[r].ok, req[r].err}, Set(r, Went(req[r], at)), Mine(r),
         groupLock' # r, docLock' = docLock
  PROVE  TypeInv' /\ Becomes(r, Went(req[r], at))
<1>1. req[r] \in RequestRecords /\ Shape(req[r])
  BY DEF TypeInv, ReqOK
<1>2. \A t \in Tickets : docLock'[t] # r
  BY HoldsNoTicket DEF MayHold, Locking
<1>3. /\ Went(req[r], at) \in RequestRecords /\ Shape(Went(req[r], at))
      /\ Owns(r, Went(req[r], at), groupLock', docLock')
  BY <1>1, <1>2, WentIs, OwnsNoTicket
<1>4. QED
  BY <1>3, Assemble

\* Where a call goes on depends on who makes it and on its name.
LEMMA OnwardSame ==
  ASSUME NEW q, NEW p, Onward(q), p.call.name = q.call.name, p.op = q.op, p.ts = q.ts,
         q.call.name = "strip" => p.call.ts = q.call.ts,
         p.new = q.new, p.ok = q.ok, p.err = q.err
  PROVE  Onward(p)
BY ZenonT(40) DEF Onward

LEMMA WriteIs ==
  ASSUME NEW q \in RequestRecords, Shape(q), q.at \in {"group", "write"}, NEW call \in CallRecords,
         call.name = q.call.name \/ (call.name = "uncreate" /\ q.op \in GroupOps),
         call.name \in {"strip", "set"} => call.ts = q.call.ts,
         call.name \in OnGroup \cup {"create", "uncreate"} => call.g \in Groups,
         NEW p, p = [q EXCEPT !.at = "write", !.call = call]
  PROVE  /\ p \in RequestRecords /\ Shape(p)
         /\ p.at = "write" /\ p.call = call /\ p.ok = q.ok /\ p.err = q.err
         /\ p.op = q.op /\ p.ts = q.ts /\ p.new = q.new /\ p.cut = q.cut
         /\ p.copy = q.copy /\ p.todo = q.todo /\ p.done = q.done
         /\ p.at \notin MustHold /\ HoldsGroups(p)
<1>0. "write" \in Ats
  BY DEF Ats
<1>1. p \in RequestRecords
  BY <1>0 DEF RequestRecords
<1>2. /\ p.at = "write" /\ p.call = call /\ p.ok = q.ok /\ p.err = q.err
      /\ p.op = q.op /\ p.ts = q.ts /\ p.new = q.new /\ p.cut = q.cut
      /\ p.copy = q.copy /\ p.todo = q.todo /\ p.done = q.done /\ p.sprint = q.sprint
  BY DEF RequestRecords
<1>3. Calling1(q)
  BY DEF Shape
<1>4. Onward(p)
  <2>1. CASE call.name = "uncreate" /\ q.op \in GroupOps
    <3>1. q.op \notin {"moveInGroup", "remove", "bulkUpdate", "split"}
      BY <2>1 DEF GroupOps
    <3>2. q.ok \in {"done", "failed"} /\ q.err = "failed"
      BY <1>3, <3>1, Zenon DEF Calling1, Onward
    <3>3. p.call.name \in GroupOps \cup {"uncreate"}
      BY <1>2, <2>1
    <3>4. p.op \in GroupOps /\ p.ok \in {"done", "failed"} /\ p.err = "failed"
      BY <1>2, <2>1, <3>2
    <3>5. QED
      BY <3>3, <3>4, Zenon DEF Onward
  <2>2. CASE call.name = q.call.name
    <3>1. p.call.name = q.call.name /\ (q.call.name = "strip" => p.call.ts = q.call.ts)
      BY <1>2, <2>2
    <3>2. p.op = q.op /\ p.ts = q.ts /\ p.new = q.new /\ p.ok = q.ok /\ p.err = q.err
      BY <1>2
    <3>3. Onward(q)
      BY <1>3 DEF Calling1
    <3>4. QED
      BY <3>1, <3>2, <3>3, OnwardSame
  <2>3. QED
    BY <2>1, <2>2
<1>5. p.call.name = "set" => Single(p.call.ts)
  BY <1>2, <1>3 DEF Calling1
<1>6. Shape(p)
  BY <1>2, <1>4, <1>5 DEF Shape, Calling1, InBulk, InSplit, HasNew
<1>7. p.at \notin MustHold /\ HoldsGroups(p)
  BY <1>2 DEF MustHold, HoldsGroups
<1>8. QED
  BY <1>1, <1>2, <1>6, <1>7

LEMMA Rest ==
  ASSUME TypeInv, LocksOK', UNCHANGED <<files, history, failures>>
  PROVE  VarsOK'
BY DEF TypeInv, VarsOK, FilesOK, PastOK, files, history

\* A call that reads the group files is refused, has nothing to do, or plans.
Leaves(r) ==
  groupLock' = None /\ plan' = plan /\ \E at \in {req[r].ok, req[r].err} : Becomes(r, Went(req[r], at))

LEMMA RefuseKeeps ==
  ASSUME TypeInv, NEW r \in Requests, req[r].at = "group", groupLock = None, Refuse(r),
         UNCHANGED <<files, docLock, history, failures>>
  PROVE  TypeInv' /\ Mine(r) /\ Leaves(r)
<1>1. groupLock' = None /\ plan' = plan /\ None # r
  BY NoneIsNobody, GroupsAssumption DEF Refuse
<1>2. LocksOK'
  BY DEF Refuse, TypeInv, VarsOK, LocksOK
<1>3. Mine(r)
  BY <1>1 DEF Mine
<1>4. QED
  BY <1>1, <1>2, <1>3, Rest, WentKeeps DEF Refuse, Leaves

Plans1(r, call, now, next, to) ==
  /\ groupLock' = r
  /\ plan' = [now |-> now, next |-> next, to |-> to, back |-> group]
  /\ Becomes(r, [req[r] EXCEPT !.at = "write", !.call = call])

LEMMA PlannedKeeps ==
  ASSUME TypeInv, NEW r \in Requests, req[r].at = "group", groupLock = None,
         NEW call \in CallRecords, call.name = req[r].call.name,
         call.name \in {"strip", "set"} => call.ts = req[r].call.ts,
         call.name \in OnGroup \cup {"create", "uncreate"} => call.g \in Groups,
         NEW now \in SUBSET Groups, NEW next \in SUBSET Groups, NEW to \in [Groups -> GroupFiles],
         Planned(r, call, now, next, to), UNCHANGED <<files, docLock, history, failures>>
  PROVE  /\ TypeInv' /\ Mine(r)
         /\ Leaves(r) \/ Plans1(r, call, now, next, to)
<1>1. None # r
  BY NoneIsNobody, GroupsAssumption
<1>2. CASE now \cup next = {}
  <2>1. Set(r, Went(req[r], req[r].ok)) /\ groupLock' = None /\ plan' = plan
    BY <1>2 DEF Planned
  <2>2. LocksOK'
    BY <2>1 DEF TypeInv, VarsOK, LocksOK
  <2>3. Mine(r)
    BY <2>1 DEF Mine
  <2>4. QED
    BY <1>1, <1>2, <2>1, <2>2, <2>3, Rest, WentKeeps DEF Leaves
<1>3. CASE now \cup next # {}
  <2> DEFINE p == [req[r] EXCEPT !.at = "write", !.call = call]
  <2>1. Set(r, p) /\ groupLock' = r
        /\ plan' = [now |-> now, next |-> next, to |-> to, back |-> group]
    BY <1>3 DEF Planned
  <2>2. req[r] \in RequestRecords /\ Shape(req[r])
    BY DEF TypeInv, ReqOK
  <2> HIDE DEF p
  <2>0. p = [req[r] EXCEPT !.at = "write", !.call = call] /\ req[r].at \in {"group", "write"}
    BY DEF p
  <2>3. p \in RequestRecords /\ Shape(p) /\ p.at \notin MustHold /\ HoldsGroups(p)
    BY <2>0, <2>2, WriteIs
  <2>4. group \in [Groups -> GroupFiles]
    BY DEF TypeInv, VarsOK, FilesOK
  <2>5. LocksOK'
    BY <2>1, <2>4 DEF TypeInv, VarsOK, LocksOK, Plans
  <2>6. Mine(r)
    BY <2>1 DEF Mine
  <2>7. \A t \in Tickets : docLock'[t] # r
    BY HoldsNoTicket DEF MayHold, Locking
  <2>8. Owns(r, p, groupLock', docLock')
    BY <2>1, <2>3, <2>7, OwnsNoTicket
  <2>9. TypeInv' /\ Becomes(r, p)
    BY <2>1, <2>3, <2>5, <2>6, <2>8, Rest, Assemble
  <2>10. QED
    BY <2>1, <2>6, <2>9 DEF Plans1, p
<1>4. QED
  BY <1>2, <1>3

-------------------------------------------------------------------------------
(* The beginning of a request.                                               *)

Fresh(p) ==
  /\ p \in RequestRecords /\ Shape(p)
  /\ p.at = "group" \/ (p.at = "lock" /\ p.op # "moveInGroup")
  /\ p.new = None /\ p.todo = {} /\ p.done = {} /\ p.cut = FALSE /\ p.ts \subseteq born
  /\ \A t \in Tickets : p.copy[t] = {}

IsNew(q, op, ts) ==
  /\ q \in RequestRecords
  /\ q.op = op /\ q.ts = ts /\ q.new = None /\ q.todo = {} /\ q.done = {} /\ q.cut = FALSE
  /\ \A t \in Tickets : q.copy[t] = {}

LEMMA NewIs ==
  ASSUME NEW op \in AllOps, NEW ts \in SUBSET Tickets
  PROVE  IsNew(New(op, ts), op, ts)
<1> DEFINE q == New(op, ts)
<1>1. q = [Idle EXCEPT !.op = op, !.ts = ts]
  BY DEF New
<1> HIDE DEF q
<1>2. q \in RequestRecords
  BY <1>1, IdleTyped DEF RequestRecords
<1>3. q.op = op /\ q.ts = ts /\ q.new = None /\ q.todo = {} /\ q.done = {} /\ q.cut = FALSE
  BY <1>1, IdleTyped DEF RequestRecords
<1>4. \A t \in Tickets : q.copy[t] = {}
  BY <1>1, IdleTyped DEF RequestRecords
<1>5. IsNew(q, op, ts)
  BY <1>2, <1>3, <1>4 DEF IsNew
<1>6. QED
  BY <1>5 DEF q

LEMMA FreshCall ==
  ASSUME NEW op \in GroupOps \cup {"moveInGroup", "remove"}, NEW ts \in SUBSET born,
         born \subseteq Tickets, op \in Singles => Single(ts),
         NEW name \in CallNames, NEW g \in Groups \cup {None}, NEW cts \in SUBSET Tickets,
         NEW from \in Groups \cup {None, "any"}, NEW ok \in {"done", "unlinking"},
         IF op = "remove" THEN name = "strip" /\ ok = "unlinking" /\ cts = ts
                          ELSE name = op /\ ok = "done",
         name \in OnGroup => g \in Groups,
         NEW p, p = Calls(New(op, ts), name, g, cts, from, ok, "failed")
  PROVE  Fresh(p)
<1> DEFINE q == New(op, ts)
<1>1. op \in AllOps /\ ok \in Ats /\ "failed" \in Ats
  BY DEF GroupOps, AllOps, Ats, Ended, Locking
<1>2. IsNew(q, op, ts)
  BY <1>1, NewIs
<1>3. p = Calls(q, name, g, cts, from, ok, "failed")
  OBVIOUS
<1> HIDE DEF q
<1>4. /\ p \in RequestRecords
      /\ p.op = op /\ p.at = "group" /\ p.ts = ts /\ p.new = None /\ p.cut = FALSE
      /\ p.call.name = name /\ p.call.g = g /\ p.call.ts = cts /\ p.call.from = from
      /\ p.ok = ok /\ p.err = "failed" /\ p.copy = q.copy /\ p.todo = {} /\ p.done = {}
  <2>1. q \in RequestRecords
    BY <1>2 DEF IsNew
  <2>2. /\ p \in RequestRecords
        /\ p.op = q.op /\ p.at = "group" /\ p.ts = q.ts /\ p.new = q.new /\ p.cut = q.cut
        /\ p.call.name = name /\ p.call.g = g /\ p.call.ts = cts /\ p.call.from = from
        /\ p.ok = ok /\ p.err = "failed"
        /\ p.copy = q.copy /\ p.todo = q.todo /\ p.done = q.done
    BY <1>1, <1>3, <2>1, CallsIs
  <2>3. QED
    BY <1>2, <2>2 DEF IsNew
<1>5. Onward(p) /\ p.call.name # "set" /\ p.op # "split"
  <2>1. CASE op = "remove"
    <3>1. p.op = "remove" /\ p.call.name = "strip" /\ p.call.ts = p.ts
      BY <1>4, <2>1
    <3>2. p.ok = "unlinking" /\ p.err = "failed"
      BY <1>4, <2>1
    <3>3. QED
      BY <3>1, <3>2, Zenon DEF Onward
  <2>2. CASE op = "moveInGroup"
    <3>1. p.op = "moveInGroup" /\ p.call.name = "moveInGroup" /\ p.ok = "done" /\ p.err = "failed"
      BY <1>4, <2>2
    <3>2. QED
      BY <3>1 DEF Onward
  <2>3. CASE op \in GroupOps
    <3>1. p.op \in GroupOps /\ p.call.name = p.op /\ p.ok = "done" /\ p.err = "failed"
      BY <1>4, <2>3 DEF GroupOps
    <3>2. p.op # "split" /\ p.call.name # "set"
      BY <3>1 DEF GroupOps
    <3>3. QED
      BY <3>1, <3>2, Zenon DEF Onward
  <2>4. QED
    BY <2>1, <2>2, <2>3
<1>6. Shape(p)
  BY <1>4, <1>5 DEF Shape, Calling1, InBulk, InSplit, HasNew
<1>7. QED
  BY <1>2, <1>4, <1>6 DEF Fresh, IsNew

LEMMA FreshLock ==
  ASSUME NEW op \in {"edit", "bulkUpdate", "split"}, NEW ts \in SUBSET born,
         op \in Singles => Single(ts), NEW q, IsNew(q, op, ts), op = "split" => q.sprint # "same"
  PROVE  Fresh(Locks(q, "read"))
<1> DEFINE p == Locks(q, "read")
<1>1. "read" \in Ats /\ "lock" \in Ats
  BY DEF Ats, Locking
<1>2. p = [q EXCEPT !.at = "lock", !.ok = "read"] /\ q \in RequestRecords
  BY DEF Locks, IsNew
<1> HIDE DEF p
<1>3. p \in RequestRecords
  BY <1>1, <1>2 DEF RequestRecords
<1>4. /\ p.op = q.op /\ p.at = "lock" /\ p.ok = "read" /\ p.ts = q.ts /\ p.new = q.new
      /\ p.cut = q.cut /\ p.copy = q.copy /\ p.todo = q.todo /\ p.done = q.done
      /\ p.sprint = q.sprint
  BY <1>2 DEF RequestRecords
<1>5. Shape(p)
  BY <1>4 DEF IsNew, Shape, InBulk, InSplit, HasNew
<1>6. Fresh(p)
  BY <1>3, <1>4, <1>5 DEF Fresh, IsNew
<1>7. QED
  BY <1>6 DEF p

LEMMA BeginIsFresh ==
  ASSUME TypeInv, NEW r \in Requests, Begin(r)
  PROVE  \E p : Fresh(p) /\ Set(r, p)
<1>1. born \subseteq Tickets /\ group \in [Groups -> GroupFiles] /\ Ops \subseteq AllOps
  BY GroupsAssumption DEF TypeInv, VarsOK, FilesOK
<1>2. \A ts \in Named : ts \in SUBSET born /\ ts \in SUBSET Tickets
  BY <1>1 DEF Named
<1>3. ASSUME BeginGroup(r) PROVE \E p : Fresh(p) /\ Set(r, p)
  <2>1. /\ {"create", "update", "removeGroup", "complete", "updateTickets", "addTickets",
            "removeTickets"} \subseteq GroupOps \cap CallNames
        /\ "moveInGroup" \in CallNames
        /\ \A op \in GroupOps : op \notin Singles /\ op # "remove"
    BY DEF GroupOps, CallNames, Singles
  <2>2. ASSUME NEW ts \in Named,
               Set(r, Calls(New("create", {}), "create", None, ts, "any", "done", "failed"))
        PROVE  \E p : Fresh(p) /\ Set(r, p)
    <3>0. "create" \notin OnGroup
      BY DEF OnGroup
    <3>1. Fresh(Calls(New("create", {}), "create", None, ts, "any", "done", "failed"))
      BY <1>1, <1>2, <2>1, <3>0, FreshCall
    <3>2. QED
      BY <2>2, <3>1
  <2>3. ASSUME NEW g \in Groups, NEW op \in {"update", "removeGroup"},
               Set(r, Calls(New(op, {}), op, g, {}, "any", "done", "failed"))
        PROVE  \E p : Fresh(p) /\ Set(r, p)
    <3>1. Fresh(Calls(New(op, {}), op, g, {}, "any", "done", "failed"))
      BY <1>1, <2>1, FreshCall
    <3>2. QED
      BY <2>3, <3>1
  <2>4. ASSUME NEW g \in Groups, NEW dest \in Groups \cup {None},
               Set(r, Calls(New("complete", {}), "complete", g, {}, dest, "done", "failed"))
        PROVE  \E p : Fresh(p) /\ Set(r, p)
    <3>1. Fresh(Calls(New("complete", {}), "complete", g, {}, dest, "done", "failed"))
      BY <1>1, <2>1, FreshCall
    <3>2. QED
      BY <2>4, <3>1
  <2>5. ASSUME NEW g \in Groups, NEW ts \in Named,
               NEW op \in {"updateTickets", "addTickets", "removeTickets"},
               Set(r, Calls(New(op, {}), op, g, ts, "any", "done", "failed"))
        PROVE  \E p : Fresh(p) /\ Set(r, p)
    <3>1. Fresh(Calls(New(op, {}), op, g, ts, "any", "done", "failed"))
      BY <1>1, <1>2, <2>1, FreshCall
    <3>2. QED
      BY <2>5, <3>1
  <2>6. ASSUME NEW g \in Groups, NEW t \in born,
               Set(r, Calls(New("moveInGroup", {t}), "moveInGroup", g, {}, "any", "done", "failed"))
        PROVE  \E p : Fresh(p) /\ Set(r, p)
    <3>1. {t} \in SUBSET born /\ Single({t})
      BY <1>1 DEF Single
    <3>2. Fresh(Calls(New("moveInGroup", {t}), "moveInGroup", g, {}, "any", "done", "failed"))
      BY <1>1, <2>1, <3>1, FreshCall
    <3>3. QED
      BY <2>6, <3>2
  <2>7. QED
    BY <1>3, <2>2, <2>3, <2>4, <2>5, <2>6 DEF BeginGroup
<1>4. ASSUME BeginTicket(r) PROVE \E p : Fresh(p) /\ Set(r, p)
  <2>1. PICK t \in born :
          \/ Set(r, Locks(New("edit", {t}), "read"))
          \/ Set(r, Calls(New("remove", {t}), "strip", None, {t}, "any", "unlinking", "failed"))
    BY <1>4 DEF BeginTicket
  <2>2. {t} \in SUBSET born /\ {t} \in SUBSET Tickets /\ Single({t})
    BY <1>1 DEF Single
  <2>3. "edit" \in AllOps /\ "strip" \in CallNames /\ "strip" \notin OnGroup
    BY DEF AllOps, CallNames, OnGroup
  <2>4. Fresh(Locks(New("edit", {t}), "read"))
    <3>1. IsNew(New("edit", {t}), "edit", {t})
      BY <2>2, <2>3, NewIs
    <3>2. QED
      BY <2>2, <3>1, FreshLock
  <2>5. Fresh(Calls(New("remove", {t}), "strip", None, {t}, "any", "unlinking", "failed"))
    BY <1>1, <2>2, <2>3, FreshCall
  <2>6. QED
    BY <2>1, <2>4, <2>5
<1>5. ASSUME BeginBulkUpdate(r) PROVE \E p : Fresh(p) /\ Set(r, p)
  <2>1. PICK ts \in Named, sprint \in Groups \cup {None, "same"},
             snap \in SUBSET (Groups \X Tickets), leave \in SUBSET Groups :
          Set(r, Locks([New("bulkUpdate", ts) EXCEPT
                         !.sprint = sprint, !.snap = snap, !.leave = leave], "read"))
    <3>1. ASSUME NEW ts \in Named
          PROVE  LET snap == {p \in Sprints \X ts : IsOpen(p[1]) /\ p[2] \in group[p[1]].has}
                 IN  snap \in SUBSET (Groups \X Tickets) /\ {p[1] : p \in snap} \in SUBSET Groups
      BY <1>2, GroupsAssumption
    <3>2. QED
      BY <1>5, <3>1 DEF BeginBulkUpdate
  <2>2. "bulkUpdate" \in AllOps /\ "bulkUpdate" \notin Singles
    BY DEF AllOps, Singles
  <2>3. PICK n : n = New("bulkUpdate", ts) /\ IsNew(n, "bulkUpdate", ts)
    BY <1>2, <2>2, NewIs
  <2>4. PICK q : q = [n EXCEPT !.sprint = sprint, !.snap = snap, !.leave = leave]
    OBVIOUS
  <2>5. n \in RequestRecords
    BY <2>3 DEF IsNew
  <2>6. q \in RequestRecords
    BY <2>4, <2>5, ZenonT(40) DEF RequestRecords
  <2>7. /\ q.op = n.op /\ q.ts = n.ts /\ q.new = n.new /\ q.todo = n.todo /\ q.done = n.done
        /\ q.cut = n.cut /\ q.copy = n.copy
    BY <2>4, <2>5 DEF RequestRecords
  <2>8. IsNew(q, "bulkUpdate", ts)
    BY <2>3, <2>6, <2>7 DEF IsNew
  <2>9. Fresh(Locks(q, "read"))
    BY <1>2, <2>2, <2>8, FreshLock
  <2>10. QED
    BY <2>1, <2>3, <2>4, <2>9
<1>6. ASSUME BeginSplit(r) PROVE \E p : Fresh(p) /\ Set(r, p)
  <2>1. PICK t \in born, sprint \in Groups \cup {None}, newSprint \in Groups \cup {None},
             from \in Groups \cup {None} :
          Set(r, Locks([New("split", {t}) EXCEPT
                         !.sprint = sprint, !.newSprint = newSprint, !.from = from], "read"))
    <3>1. \A t \in born : \A from \in IF SprintsOf(group, t) = {} THEN {None} ELSE SprintsOf(group, t) :
            from \in Groups \cup {None}
      BY GroupsAssumption DEF SprintsOf
    <3>2. QED
      BY <1>6, <3>1 DEF BeginSplit
  <2>2. "split" \in AllOps /\ {t} \in SUBSET born /\ {t} \in SUBSET Tickets /\ Single({t})
    BY <1>1 DEF AllOps, Single
  <2>3. PICK n : n = New("split", {t}) /\ IsNew(n, "split", {t})
    BY <2>2, NewIs
  <2>4. PICK q : q = [n EXCEPT !.sprint = sprint, !.newSprint = newSprint, !.from = from]
    OBVIOUS
  <2>5. n \in RequestRecords
    BY <2>3 DEF IsNew
  <2>6. q \in RequestRecords
    BY <2>4, <2>5, ZenonT(40) DEF RequestRecords
  <2>7. /\ q.op = n.op /\ q.ts = n.ts /\ q.new = n.new /\ q.todo = n.todo /\ q.done = n.done
        /\ q.cut = n.cut /\ q.copy = n.copy /\ q.sprint = sprint
    BY <2>4, <2>5 DEF RequestRecords
  <2>8. IsNew(q, "split", {t})
    BY <2>3, <2>6, <2>7 DEF IsNew
  <2>9. Fresh(Locks(q, "read"))
    BY <2>2, <2>7, <2>8, FreshLock, GroupsAssumption
  <2>10. QED
    BY <2>1, <2>3, <2>4, <2>9
<1>7. QED
  BY <1>3, <1>4, <1>5, <1>6 DEF Begin

LEMMA BeginKeeps ==
  ASSUME TypeInv, NEW r \in Requests, Begin(r)
  PROVE  TypeInv' /\ Mine(r) /\ \E p : Fresh(p) /\ Becomes(r, p)
<1>1. PICK p : Fresh(p) /\ Set(r, p)
  BY BeginIsFresh
<1>2. UNCHANGED <<files, groupLock, docLock, plan, history, failures>> /\ req[r].at = "idle"
  BY DEF Begin, At
<1>3. VarsOK'
  BY <1>2, Rest DEF TypeInv, VarsOK, LocksOK
<1>4. \A t \in Tickets : docLock[t] # r
  BY <1>2, HoldsNoTicket DEF MayHold, Locking
<1>5. groupLock # r
  BY <1>2 DEF TypeInv, LockInv, Owns, HoldsGroups
<1>6. p.at \notin MustHold /\ ~HoldsGroups(p)
  BY <1>1 DEF Fresh, MustHold, HoldsGroups
<1>7. Owns(r, p, groupLock, docLock)
  BY <1>4, <1>5, <1>6, OwnsNoTicket
<1>8. p \in RequestRecords /\ Shape(p)
  BY <1>1 DEF Fresh
<1>9. QED
  BY <1>1, <1>2, <1>3, <1>7, <1>8, StayKeeps

-------------------------------------------------------------------------------
(* The calls of Groups: what each plans.                                     *)

LEMMA EvictionsTyped ==
  ASSUME NEW f, NEW g, NEW ts
  PROVE  Evictions(f, g, ts) \subseteq Sprints \ {g} /\ Evictions(f, g, ts) \subseteq Groups
BY GroupsAssumption DEF Evictions

LEMMA GivenIs ==
  ASSUME group \in [Groups -> GroupFiles], NEW g, NEW new \in GroupFiles, NEW ts
  PROVE  /\ Given(g, new, ts) \in [Groups -> GroupFiles]
         /\ \A h \in Groups :
              /\ h = g => Given(g, new, ts)[h] = new
              /\ h # g => /\ Given(g, new, ts)[h].status = group[h].status
                          /\ Given(g, new, ts)[h].has = group[h].has \ ts
<1>1. \A h \in Groups : group[h] \in GroupFiles
  OBVIOUS
<1>2. \A h \in Groups : [group[h] EXCEPT !.has = @ \ ts] \in GroupFiles
  BY <1>1 DEF GroupFiles
<1>3. \A h \in Groups : /\ [group[h] EXCEPT !.has = @ \ ts].status = group[h].status
                        /\ [group[h] EXCEPT !.has = @ \ ts].has = group[h].has \ ts
  BY <1>1 DEF GroupFiles
<1>4. QED
  BY <1>2, <1>3 DEF Given

LEMMA CallsGroup ==
  ASSUME TypeInv, NEW r \in Requests, req[r].at \in {"group", "write"}, req[r].call.name \in OnGroup
  PROVE  req[r].call.g \in Groups
<1>1. Shape(req[r])
  BY DEF TypeInv, ReqOK
<1>2. QED
  BY <1>1 DEF Shape, Calling1

LEMMA CreateKeeps ==
  ASSUME TypeInv, NEW r \in Requests, CreateGroup(r)
  PROVE  /\ TypeInv' /\ Mine(r)
         /\ \/ Leaves(r)
            \/ \E g \in Groups, ts \in SUBSET Tickets :
                 /\ ts = req[r].call.ts /\ group[g].status = "none" /\ ts \subseteq file
                 /\ Plans1(r, [req[r].call EXCEPT !.g = g], {g}, Evictions(group, g, ts),
                           Given(g, [status |-> "open", has |-> ts], ts))
<1> DEFINE ts == req[r].call.ts
<1>1. req[r].at = "group" /\ req[r].call.name = "create" /\ groupLock = None
  BY DEF CreateGroup, Calling, At
<1>2. UNCHANGED <<files, docLock, history, failures>>
  BY DEF CreateGroup
<1>3. group \in [Groups -> GroupFiles] /\ req[r].call \in CallRecords
  BY DEF TypeInv, VarsOK, FilesOK, ReqOK, RequestRecords
<1>4. ts \in SUBSET Tickets
  BY <1>3 DEF CallRecords
<1>5. CASE Refuse(r)
  BY <1>1, <1>2, <1>5, RefuseKeeps
<1>6. ASSUME NEW g \in Groups, group[g].status = "none", \A t \in ts : Held(t),
             Planned(r, [req[r].call EXCEPT !.g = g], {g}, Evictions(group, g, ts),
                     Given(g, [status |-> "open", has |-> ts], ts))
      PROVE  /\ TypeInv' /\ Mine(r)
             /\ \/ Leaves(r)
                \/ /\ group[g].status = "none" /\ ts \subseteq file
                   /\ Plans1(r, [req[r].call EXCEPT !.g = g], {g}, Evictions(group, g, ts),
                             Given(g, [status |-> "open", has |-> ts], ts))
  <2>1. [status |-> "open", has |-> ts] \in GroupFiles
    BY <1>4 DEF GroupFiles
  <2>2. Given(g, [status |-> "open", has |-> ts], ts) \in [Groups -> GroupFiles]
    BY <1>3, <2>1, GivenIs
  <2>3. Evictions(group, g, ts) \in SUBSET Groups /\ {g} \in SUBSET Groups
    BY EvictionsTyped
  <2>4. /\ [req[r].call EXCEPT !.g = g] \in CallRecords
        /\ [req[r].call EXCEPT !.g = g].name = "create" /\ [req[r].call EXCEPT !.g = g].g = g
    BY <1>1, <1>3 DEF CallRecords
  <2> HIDE DEF ts
  <2>5. QED
    BY <1>1, <1>2, <1>6, <2>2, <2>3, <2>4, PlannedKeeps DEF Held
<1>7. QED
  BY <1>4, <1>5, <1>6 DEF CreateGroup

LEMMA UpdateKeeps ==
  ASSUME TypeInv, NEW r \in Requests, UpdateGroup(r)
  PROVE  /\ TypeInv' /\ Mine(r)
         /\ \/ Leaves(r)
            \/ \E g \in Groups, status \in {"open", "completed"} :
                 Plans1(r, req[r].call, {}, {g}, Given(g, [group[g] EXCEPT !.status = status], {}))
<1> DEFINE g == req[r].call.g
<1>1. req[r].at = "group" /\ req[r].call.name = "update" /\ groupLock = None
  BY DEF UpdateGroup, Calling, At
<1>2. UNCHANGED <<files, docLock, history, failures>>
  BY DEF UpdateGroup
<1>3. group \in [Groups -> GroupFiles] /\ req[r].call \in CallRecords
  BY DEF TypeInv, VarsOK, FilesOK, ReqOK, RequestRecords
<1>4. g \in Groups
  BY <1>1, CallsGroup DEF OnGroup
<1>5. CASE Refuse(r)
  BY <1>1, <1>2, <1>5, RefuseKeeps
<1>6. ASSUME NEW status \in {"open", "completed"},
             Planned(r, req[r].call, {}, {g}, Given(g, [group[g] EXCEPT !.status = status], {}))
      PROVE  /\ TypeInv' /\ Mine(r)
             /\ \/ Leaves(r)
                \/ Plans1(r, req[r].call, {}, {g}, Given(g, [group[g] EXCEPT !.status = status], {}))
  <2>1. [group[g] EXCEPT !.status = status] \in GroupFiles
    BY <1>3, <1>4 DEF GroupFiles
  <2>2. Given(g, [group[g] EXCEPT !.status = status], {}) \in [Groups -> GroupFiles]
    BY <1>3, <2>1, GivenIs
  <2>3. {} \in SUBSET Groups /\ {g} \in SUBSET Groups
    BY <1>4
  <2>4. QED
    BY <1>1, <1>2, <1>3, <1>4, <1>6, <2>2, <2>3, PlannedKeeps
<1>7. QED
  BY <1>4, <1>5, <1>6 DEF UpdateGroup

\* The list that updateTickets, addTickets or removeTickets gives a group holds tickets.
LEMMA NextTicketsTyped ==
  ASSUME group \in [Groups -> GroupFiles], NEW call \in CallRecords, call.g \in Groups
  PROVE  NextTickets(call) \subseteq Tickets
BY DEF NextTickets, CallRecords, GroupFiles

LEMMA ChangeKeeps ==
  ASSUME TypeInv, NEW r \in Requests, ChangeTickets(r)
  PROVE  /\ TypeInv' /\ Mine(r)
         /\ \/ Leaves(r)
            \/ \E g \in Groups, next \in SUBSET Tickets :
                 /\ req[r].call.name \in {"updateTickets", "addTickets", "removeTickets"}
                 /\ group[g].status = "open" /\ next \ file \subseteq group[g].has
                 /\ Plans1(r, req[r].call, Evictions(group, g, next), {g},
                           Given(g, [group[g] EXCEPT !.has = next], next))
<1> DEFINE call == req[r].call
           g == call.g
           next == NextTickets(call)
<1>1. /\ req[r].at = "group" /\ groupLock = None
      /\ call.name \in {"updateTickets", "addTickets", "removeTickets"}
  BY DEF ChangeTickets, Calling, At
<1>2. UNCHANGED <<files, docLock, history, failures>>
  BY DEF ChangeTickets
<1>3. group \in [Groups -> GroupFiles] /\ call \in CallRecords
  BY DEF TypeInv, VarsOK, FilesOK, ReqOK, RequestRecords
<1>4. g \in Groups
  BY <1>1, CallsGroup DEF OnGroup
<1>5. next \in SUBSET Tickets
  BY <1>3, <1>4, NextTicketsTyped
<1>6. CASE Refuse(r)
  BY <1>1, <1>2, <1>6, RefuseKeeps
<1>7. CASE Planned(r, call, {}, {}, group)
  <2>1. Set(r, Went(req[r], req[r].ok)) /\ UNCHANGED <<groupLock, plan>>
    BY <1>7 DEF Planned
  <2>2. groupLock' # r
    BY <1>1, <2>1, NoneIsNobody, GroupsAssumption
  <2>3. LocksOK' /\ Mine(r)
    BY <1>1, <1>2, <2>1 DEF TypeInv, VarsOK, LocksOK, Mine
  <2>4. QED
    BY <1>1, <1>2, <2>1, <2>2, <2>3, Rest, WentKeeps DEF Leaves
<1>8. ASSUME group[g].status = "open", \A t \in Validated(call) : Held(t),
             Planned(r, call, Evictions(group, g, next), {g},
                     Given(g, [group[g] EXCEPT !.has = next], next))
      PROVE  /\ TypeInv' /\ Mine(r)
             /\ \/ Leaves(r)
                \/ /\ next \ file \subseteq group[g].has
                   /\ Plans1(r, call, Evictions(group, g, next), {g},
                             Given(g, [group[g] EXCEPT !.has = next], next))
  <2>1. next \ file \subseteq group[g].has
    BY <1>1, <1>8 DEF Validated, NextTickets, Held
  <2> HIDE DEF next
  <2>2. [group[g] EXCEPT !.has = next] \in GroupFiles
    BY <1>3, <1>4, <1>5 DEF GroupFiles
  <2>3. Given(g, [group[g] EXCEPT !.has = next], next) \in [Groups -> GroupFiles]
    BY <1>3, <2>2, GivenIs
  <2>4. Evictions(group, g, next) \in SUBSET Groups /\ {g} \in SUBSET Groups
    BY <1>4, EvictionsTyped
  <2>5. QED
    BY <1>1, <1>2, <1>3, <1>4, <1>8, <2>1, <2>3, <2>4, PlannedKeeps
<1>9. QED
  BY <1>1, <1>4, <1>5, <1>6, <1>7, <1>8 DEF ChangeTickets

CompleteTo(g, dest, carry) ==
  [h \in Groups |-> CASE h = g -> [status |-> "completed", has |-> group[g].has \ carry]
                      [] h = dest -> [group[h] EXCEPT !.has = @ \cup carry]
                      [] OTHER -> group[h]]

LEMMA CompleteToTyped ==
  ASSUME group \in [Groups -> GroupFiles], NEW g \in Groups, NEW dest, NEW carry \in SUBSET Tickets
  PROVE  CompleteTo(g, dest, carry) \in [Groups -> GroupFiles]
<1>1. [status |-> "completed", has |-> group[g].has \ carry] \in GroupFiles
  BY DEF GroupFiles
<1>2. \A h \in Groups : [group[h] EXCEPT !.has = @ \cup carry] \in GroupFiles
  BY DEF GroupFiles
<1>3. QED
  BY <1>1, <1>2 DEF CompleteTo

LEMMA CompleteKeeps ==
  ASSUME TypeInv, NEW r \in Requests, Complete(r)
  PROVE  /\ TypeInv' /\ Mine(r)
         /\ \/ Leaves(r)
            \/ \E g \in Groups, dest \in Groups \cup {None}, carry \in SUBSET Tickets :
                 /\ IsOpen(g) /\ dest # g /\ (dest # None => IsOpen(dest))
                 /\ carry \subseteq group[g].has /\ group[g].has \subseteq file
                 /\ Plans1(r, [req[r].call EXCEPT !.ts = carry],
                           IF dest = None \/ carry = {} THEN {} ELSE {dest}, {g},
                           CompleteTo(g, dest, carry))
<1> DEFINE g == req[r].call.g
           dest == req[r].call.from
<1>1. req[r].at = "group" /\ req[r].call.name = "complete" /\ groupLock = None
  BY DEF Complete, Calling, At
<1>2. UNCHANGED <<files, docLock, history, failures>>
  BY DEF Complete
<1>3. group \in [Groups -> GroupFiles] /\ req[r].call \in CallRecords
  BY DEF TypeInv, VarsOK, FilesOK, ReqOK, RequestRecords
<1>4. g \in Groups
  BY <1>1, CallsGroup DEF OnGroup
<1>5. CASE Refuse(r)
  BY <1>1, <1>2, <1>5, RefuseKeeps
<1>6. ASSUME IsOpen(g), dest # None => dest # g /\ IsOpen(dest), \A t \in group[g].has : Held(t),
             NEW carry \in SUBSET group[g].has,
             Planned(r, [req[r].call EXCEPT !.ts = carry],
                     IF dest = None \/ carry = {} THEN {} ELSE {dest}, {g},
                     CompleteTo(g, dest, carry))
      PROVE  /\ TypeInv' /\ Mine(r)
             /\ \/ Leaves(r)
                \/ /\ dest \in Groups \cup {None} /\ dest # g
                   /\ carry \in SUBSET Tickets /\ group[g].has \subseteq file
                   /\ Plans1(r, [req[r].call EXCEPT !.ts = carry],
                             IF dest = None \/ carry = {} THEN {} ELSE {dest}, {g},
                             CompleteTo(g, dest, carry))
  <2>1. dest \in Groups \cup {None} /\ dest # g
    BY <1>4, <1>6, GroupsAssumption DEF IsOpen
  <2>2. carry \in SUBSET Tickets /\ group[g].has \subseteq file
    BY <1>3, <1>4, <1>6 DEF GroupFiles, Held
  <2>3. CompleteTo(g, dest, carry) \in [Groups -> GroupFiles]
    BY <1>3, <1>4, <2>2, CompleteToTyped
  <2>4. /\ (IF dest = None \/ carry = {} THEN {} ELSE {dest}) \in SUBSET Groups
        /\ {g} \in SUBSET Groups
    BY <1>4, <2>1
  <2>5. /\ [req[r].call EXCEPT !.ts = carry] \in CallRecords
        /\ [req[r].call EXCEPT !.ts = carry].name = "complete"
        /\ [req[r].call EXCEPT !.ts = carry].g = g
    BY <1>1, <1>3, <2>2 DEF CallRecords
  <2>6. QED
    BY <1>1, <1>2, <1>4, <1>6, <2>1, <2>2, <2>3, <2>4, <2>5, PlannedKeeps
<1>7. \/ Refuse(r)
      \/ /\ IsOpen(g) /\ (dest # None => dest # g /\ IsOpen(dest)) /\ \A t \in group[g].has : Held(t)
         /\ \E carry \in SUBSET group[g].has :
              Planned(r, [req[r].call EXCEPT !.ts = carry],
                     IF dest = None \/ carry = {} THEN {} ELSE {dest}, {g},
                     CompleteTo(g, dest, carry))
  BY DEF Complete, CompleteTo
<1>8. QED
  BY <1>4, <1>5, <1>6, <1>7

LEMMA RemoveGroupKeeps ==
  ASSUME TypeInv, NEW r \in Requests, RemoveGroup(r)
  PROVE  /\ TypeInv' /\ Mine(r)
         /\ \/ Leaves(r)
            \/ \E g \in Groups :
                 /\ req[r].call.name = "removeGroup"
                 /\ Plans1(r, req[r].call, {}, {g}, Given(g, NoFile, {}))
<1> DEFINE g == req[r].call.g
<1>1. req[r].at = "group" /\ req[r].call.name = "removeGroup" /\ groupLock = None
  BY DEF RemoveGroup, Calling, At
<1>2. UNCHANGED <<files, docLock, history, failures>>
  BY DEF RemoveGroup
<1>3. group \in [Groups -> GroupFiles] /\ req[r].call \in CallRecords
  BY DEF TypeInv, VarsOK, FilesOK, ReqOK, RequestRecords
<1>4. g \in Groups
  BY <1>1, CallsGroup DEF OnGroup
<1>5. CASE Refuse(r)
  BY <1>1, <1>2, <1>5, RefuseKeeps
<1>6. CASE Planned(r, req[r].call, {}, {g}, Given(g, NoFile, {}))
  <2>1. Given(g, NoFile, {}) \in [Groups -> GroupFiles]
    BY <1>3, NoPlanTyped, GivenIs
  <2>2. {} \in SUBSET Groups /\ {g} \in SUBSET Groups
    BY <1>4
  <2>3. QED
    BY <1>1, <1>2, <1>3, <1>4, <1>6, <2>1, <2>2, PlannedKeeps
<1>7. QED
  BY <1>5, <1>6 DEF RemoveGroup

LEMMA StripKeeps ==
  ASSUME TypeInv, NEW r \in Requests, RemoveTicketFromAllGroups(r)
  PROVE  /\ TypeInv' /\ Mine(r) /\ req[r].call.name = "strip"
         /\ \/ Leaves(r) /\ Listing(req[r].call.ts) = {}
            \/ Plans1(r, req[r].call, Listing(req[r].call.ts), {}, Given(None, NoFile, req[r].call.ts))
<1> DEFINE ts == req[r].call.ts
<1>1. req[r].at = "group" /\ req[r].call.name = "strip" /\ groupLock = None
  BY DEF RemoveTicketFromAllGroups, Calling, At
<1>2. UNCHANGED <<files, docLock, history, failures>>
  BY DEF RemoveTicketFromAllGroups
<1>3. group \in [Groups -> GroupFiles] /\ req[r].call \in CallRecords
  BY DEF TypeInv, VarsOK, FilesOK, ReqOK, RequestRecords
<1>4. Planned(r, req[r].call, Listing(ts), {}, Given(None, NoFile, ts))
  BY DEF RemoveTicketFromAllGroups
<1>5. Given(None, NoFile, ts) \in [Groups -> GroupFiles]
  BY <1>3, NoPlanTyped, GivenIs
<1>6. {} \in SUBSET Groups /\ Listing(ts) \in SUBSET Groups /\ "strip" \notin OnGroup \cup {"create", "uncreate"}
  BY DEF Listing, OnGroup
<1>7. /\ TypeInv' /\ Mine(r)
      /\ Leaves(r) \/ Plans1(r, req[r].call, Listing(ts), {}, Given(None, NoFile, ts))
  BY <1>1, <1>2, <1>3, <1>4, <1>5, <1>6, PlannedKeeps
<1>8. Listing(ts) # {} => groupLock' = r
  BY <1>4 DEF Planned
<1>9. r # None
  BY NoneIsNobody, GroupsAssumption
<1>10. QED
  BY <1>1, <1>7, <1>8, <1>9 DEF Leaves

Misplaced(g, ts) == {h \in Groups : IsOpen(h) /\ (h = g) # (ts \subseteq group[h].has)}
Moved(g, ts) ==
  [h \in Groups |-> [group[h] EXCEPT !.has = IF h = g THEN @ \cup ts ELSE @ \ ts]]

LEMMA MovedIs ==
  ASSUME group \in [Groups -> GroupFiles], NEW g, NEW ts \in SUBSET Tickets
  PROVE  /\ Moved(g, ts) \in [Groups -> GroupFiles]
         /\ \A h \in Groups :
              /\ Moved(g, ts)[h].status = group[h].status
              /\ Moved(g, ts)[h].has = IF h = g THEN group[h].has \cup ts ELSE group[h].has \ ts
<1>1. ASSUME NEW h \in Groups
      PROVE  LET new == [group[h] EXCEPT !.has = IF h = g THEN @ \cup ts ELSE @ \ ts]
             IN  /\ new \in GroupFiles /\ new.status = group[h].status
                 /\ new.has = IF h = g THEN group[h].has \cup ts ELSE group[h].has \ ts
  <2>1. group[h] \in GroupFiles
    OBVIOUS
  <2>2. QED
    BY <2>1 DEF GroupFiles
<1>2. QED
  BY <1>1 DEF Moved

LEMMA SetKeeps ==
  ASSUME TypeInv, NEW r \in Requests, SetSprintMembership(r)
  PROVE  /\ TypeInv' /\ Mine(r)
         /\ \/ Leaves(r)
            \/ \E g \in Groups \cup {None}, ts \in SUBSET Tickets :
                 /\ req[r].call.name = "set" /\ req[r].call.ts = ts /\ Single(ts)
                 /\ Plans1(r, req[r].call, Misplaced(g, ts), {}, Moved(g, ts))
<1> DEFINE call == req[r].call
           g == call.g
           ts == call.ts
<1>1. req[r].at = "group" /\ call.name = "set" /\ groupLock = None
  BY DEF SetSprintMembership, Calling, At
<1>2. UNCHANGED <<files, docLock, history, failures>>
  BY DEF SetSprintMembership
<1>3. group \in [Groups -> GroupFiles] /\ call \in CallRecords /\ Shape(req[r])
  BY DEF TypeInv, VarsOK, FilesOK, ReqOK, RequestRecords
<1>4. g \in Groups \cup {None} /\ ts \in SUBSET Tickets /\ Single(ts)
  BY <1>1, <1>3 DEF CallRecords, Shape, Calling1
<1>5. CASE Refuse(r)
  BY <1>1, <1>2, <1>5, RefuseKeeps
<1>6. CASE Planned(r, call, Misplaced(g, ts), {}, Moved(g, ts))
  <2>1. Moved(g, ts) \in [Groups -> GroupFiles]
    BY <1>3, <1>4, MovedIs
  <2>2. {} \in SUBSET Groups /\ Misplaced(g, ts) \in SUBSET Groups
        /\ "set" \notin OnGroup \cup {"create", "uncreate"}
    BY DEF Misplaced, OnGroup
  <2>3. TypeInv' /\ Mine(r) /\ (Leaves(r) \/ Plans1(r, call, Misplaced(g, ts), {}, Moved(g, ts)))
    BY <1>1, <1>2, <1>3, <1>6, <2>1, <2>2, PlannedKeeps
  <2>4. QED
    BY <1>1, <1>4, <2>3
<1>7. Refuse(r) \/ Planned(r, call, Misplaced(g, ts), {}, Moved(g, ts))
  <2>1. {h \in {h \in Groups : IsOpen(h)} : (h = g) # (ts \subseteq group[h].has)} = Misplaced(g, ts)
    BY DEF Misplaced
  <2>2. QED
    BY <2>1 DEF SetSprintMembership, Moved
<1>8. QED
  BY <1>5, <1>6, <1>7

\* A move within a group goes on to write the group, or first to the ticket.
Ordered(q) == {[q EXCEPT !.at = "write"], Locks(q, "read")}
LEMMA OrderedIs ==
  ASSUME NEW q \in RequestRecords, Shape(q), q.at = "group", q.call.name = "moveInGroup",
         NEW p \in Ordered(q)
  PROVE  /\ p \in RequestRecords /\ Shape(p)
         /\ p.op = "moveInGroup" /\ q.op = "moveInGroup" /\ p.at \in {"write", "lock"}
         /\ p.ts = q.ts /\ p.new = q.new /\ p.cut = q.cut /\ p.call = q.call
         /\ p.copy = q.copy /\ p.todo = q.todo /\ p.done = q.done
         /\ p.at \notin MustHold /\ HoldsGroups(p)
<1>1. q.op = "moveInGroup" /\ q.err = "failed" /\ Calling1(q)
  BY DEF Shape, Calling1, Onward, GroupOps
<1>2. "write" \in Ats /\ "lock" \in Ats /\ "read" \in Ats
  BY DEF Ats, Locking
<1>3. p = [q EXCEPT !.at = "write"] \/ p = [q EXCEPT !.at = "lock", !.ok = "read"]
  BY DEF Ordered, Locks
<1>4. p \in RequestRecords
  <2>1. CASE p = [q EXCEPT !.at = "write"]
    BY <1>2, <2>1 DEF RequestRecords
  <2>2. CASE p = [q EXCEPT !.at = "lock", !.ok = "read"]
    BY <1>2, <2>2 DEF RequestRecords
  <2>3. QED
    BY <1>3, <2>1, <2>2
<1>5. /\ p.op = q.op /\ p.ts = q.ts /\ p.new = q.new /\ p.cut = q.cut /\ p.call = q.call
      /\ p.copy = q.copy /\ p.todo = q.todo /\ p.done = q.done /\ p.err = q.err
      /\ (p.at = "write" /\ p.ok = q.ok) \/ (p.at = "lock" /\ p.ok = "read")
  BY <1>3 DEF RequestRecords
<1>6. q.call.g \in Groups
  BY <1>1 DEF Calling1, OnGroup
<1>7. Shape(p)
  <2>1. CASE p.at = "write"
    BY <1>1, <1>5, <2>1 DEF Shape, Calling1, Onward, InBulk, InSplit, HasNew
  <2>2. CASE p.at = "lock"
    BY <1>1, <1>5, <1>6, <2>2 DEF Shape, InBulk, InSplit, HasNew
  <2>3. QED
    BY <1>5, <2>1, <2>2
<1>8. p.at \notin MustHold /\ HoldsGroups(p)
  BY <1>1, <1>5 DEF MustHold, HoldsGroups
<1>9. QED
  BY <1>1, <1>4, <1>5, <1>7, <1>8

LEMMA OrderKeeps ==
  ASSUME TypeInv, NEW r \in Requests, UpdateTicketOrder(r)
  PROVE  /\ TypeInv' /\ Mine(r)
         /\ \/ Leaves(r)
            \/ \E g \in Groups, p \in Ordered(req[r]) :
                 /\ groupLock' = r
                 /\ plan' = [now |-> {}, next |-> {g}, to |-> group, back |-> group]
                 /\ Becomes(r, p) /\ req[r].call.name = "moveInGroup"
<1> DEFINE g == req[r].call.g
<1>1. req[r].at = "group" /\ req[r].call.name = "moveInGroup" /\ groupLock = None
  BY DEF UpdateTicketOrder, Calling, At
<1>2. UNCHANGED <<files, docLock, history, failures>>
  BY DEF UpdateTicketOrder
<1>3. group \in [Groups -> GroupFiles] /\ req[r] \in RequestRecords /\ Shape(req[r])
  BY DEF TypeInv, VarsOK, FilesOK, ReqOK
<1>4. g \in Groups
  BY <1>1, CallsGroup DEF OnGroup
<1>5. CASE Refuse(r)
  BY <1>1, <1>2, <1>5, RefuseKeeps
<1>6. ASSUME NEW p \in Ordered(req[r]), Set(r, p), groupLock' = r,
             plan' = [now |-> {}, next |-> {g}, to |-> group, back |-> group]
      PROVE  TypeInv' /\ Mine(r) /\ Becomes(r, p)
  <2>1. /\ p \in RequestRecords /\ Shape(p)
        /\ p.at \notin MustHold /\ HoldsGroups(p)
    BY <1>1, <1>3, OrderedIs
  <2>2. LocksOK'
    BY <1>2, <1>3, <1>4, <1>6 DEF TypeInv, VarsOK, LocksOK, Plans
  <2>3. Mine(r)
    BY <1>1, <1>2, <1>6 DEF Mine
  <2>4. \A t \in Tickets : docLock'[t] # r
    BY <1>1, <1>2, HoldsNoTicket DEF MayHold, Locking
  <2>5. Owns(r, p, groupLock', docLock')
    BY <1>6, <2>1, <2>4, OwnsNoTicket
  <2>6. QED
    BY <1>2, <1>6, <2>1, <2>2, <2>3, <2>5, Rest, Assemble
<1>7. \/ Refuse(r)
      \/ \E p \in Ordered(req[r]) :
           /\ Set(r, p) /\ groupLock' = r
           /\ plan' = [now |-> {}, next |-> {g}, to |-> group, back |-> group]
  BY DEF UpdateTicketOrder, Goto, Ordered
<1>8. QED
  BY <1>1, <1>4, <1>5, <1>6, <1>7

-------------------------------------------------------------------------------
(* The writing of the planned files, and how it stops.                       *)

\* A request that writes group files holds their lock and no ticket, and it ends its call or
\* stays as it is.
LEMMA Writer ==
  ASSUME TypeInv, NEW r \in Requests, req[r].at = "write"
  PROVE  groupLock = r /\ r # None /\ \A t \in Tickets : docLock[t] # r
<1>1. \A t \in Tickets : docLock[t] # r
  BY HoldsNoTicket DEF MayHold, Locking
<1>2. QED
  BY <1>1, NoneIsNobody, GroupsAssumption DEF TypeInv, LockInv, Owns, HoldsGroups

Released(r) ==
  groupLock' = None /\ plan' = NoPlan /\ \E at \in {req[r].ok, req[r].err} : Becomes(r, Went(req[r], at))
NextFile(g) ==
  /\ groupLock' = groupLock /\ UNCHANGED req
  /\ plan' = [plan EXCEPT !.now = @ \ {g}, !.next = @ \ {g}]

LEMMA NextFileTyped ==
  ASSUME LocksOK, NEW g, plan' = [plan EXCEPT !.now = @ \ {g}, !.next = @ \ {g}]
  PROVE  /\ plan' \in Plans /\ plan'.now = plan.now \ {g} /\ plan'.next = plan.next \ {g}
         /\ plan'.to = plan.to /\ plan'.back = plan.back
<1>1. plan \in Plans
  BY DEF LocksOK
<1>2. plan' \in Plans
  BY <1>1 DEF Plans
<1>3. QED
  BY <1>1, <1>2 DEF Plans

LEMMA NextFileKeeps ==
  ASSUME TypeInv, VarsOK', NEW r \in Requests, NEW g, NextFile(g), docLock' = docLock
  PROVE  TypeInv' /\ Mine(r) /\ Becomes(r, req[r])
<1>1. TypeInv'
  BY DEF NextFile, TypeInv, ReqOK, LockInv
<1>2. Mine(r)
  BY DEF NextFile, Mine
<1>3. Becomes(r, req[r])
  BY DEF TypeInv, ReqOK, NextFile, Becomes
<1>4. QED
  BY <1>1, <1>2, <1>3

LEMMA ReleaseKeeps ==
  ASSUME TypeInv, VarsOK', NEW r \in Requests, req[r].at = "write",
         NEW at \in {req[r].ok, req[r].err}, Set(r, Went(req[r], at)),
         groupLock' = None, plan' = NoPlan, docLock' = docLock
  PROVE  TypeInv' /\ Mine(r) /\ Released(r)
<1>1. groupLock = r /\ r # None
  BY Writer
<1>2. Mine(r)
  BY <1>1 DEF Mine
<1>3. QED
  BY <1>1, <1>2, WentKeeps DEF Released

\* What the writing of a file is noted as.
Noted(r, g) ==
  LET call == req[r].call
      new == group'[g].has \ group[g].has
  IN
  /\ relisted' = (relisted \cup {t \in new : BeingRemoved(t)})
                   \ (IF call.name = "strip" /\ Remaining(g) = {} THEN call.ts ELSE {})
  /\ haunted' = IF call.name = "set" THEN haunted \cup {t \in new : ~Held(t)} ELSE haunted

LEMMA WriteKeeps ==
  ASSUME TypeInv, NEW r \in Requests, NEW interrupted \in BOOLEAN, WriteGroup(r, interrupted)
  PROVE  /\ TypeInv' /\ Mine(r) /\ groupLock = r /\ req[r].at = "write"
         /\ \E g \in Wave :
              /\ g \in Groups /\ group' = [group EXCEPT ![g] = plan.to[g]]
              /\ Noted(r, g)
              /\ torn' = IF req[r].call.name = "update"
                         THEN torn \cup {t \in Tickets : ~InOne(group', t)} ELSE torn
              /\ \/ Remaining(g) = {} /\ Released(r)
                    /\ Becomes(r, Went(req[r], IF interrupted THEN req[r].err ELSE req[r].ok))
                    /\ (interrupted => req[r].call.name \notin {"create", "uncreate"})
                 \/ Remaining(g) # {} /\ NextFile(g)
<1>1. req[r].at = "write" /\ docLock' = docLock /\ UNCHANGED <<file, text, born, docLock, overwritten>>
  BY DEF WriteGroup, At
<1>2. groupLock = r /\ r # None /\ LocksOK
  BY <1>1, Writer DEF TypeInv, VarsOK
<1> DEFINE F(h) == [group EXCEPT ![h] = plan.to[h]]
<1>3a. PICK g \in Wave :
        /\ group' = F(g)
        /\ relisted' = (relisted \cup {t \in F(g)[g].has \ group[g].has : BeingRemoved(t)})
                         \ (IF req[r].call.name = "strip" /\ Remaining(g) = {}
                             THEN req[r].call.ts ELSE {})
        /\ haunted' = IF req[r].call.name = "set"
                      THEN haunted \cup {t \in F(g)[g].has \ group[g].has : ~Held(t)} ELSE haunted
        /\ torn' = IF req[r].call.name = "update"
                   THEN torn \cup {t \in Tickets : ~InOne(F(g), t)} ELSE torn
        /\ IF Remaining(g) = {}
           THEN /\ groupLock' = None
                /\ plan' = NoPlan
                /\ Set(r, Went(req[r], IF interrupted THEN req[r].err ELSE req[r].ok))
                /\ IF interrupted
                   THEN Fails /\ req[r].call.name \notin {"create", "uncreate"}
                   ELSE UNCHANGED failures
           ELSE NextFile(g) /\ UNCHANGED failures
  BY DEF WriteGroup, NextFile
<1> HIDE DEF F
<1>3. /\ group' = [group EXCEPT ![g] = plan.to[g]]
      /\ Noted(r, g)
      /\ torn' = IF req[r].call.name = "update"
                 THEN torn \cup {t \in Tickets : ~InOne(group', t)} ELSE torn
      /\ IF Remaining(g) = {}
         THEN /\ groupLock' = None
              /\ plan' = NoPlan
              /\ Set(r, Went(req[r], IF interrupted THEN req[r].err ELSE req[r].ok))
              /\ IF interrupted
                 THEN Fails /\ req[r].call.name \notin {"create", "uncreate"}
                 ELSE UNCHANGED failures
         ELSE NextFile(g) /\ UNCHANGED failures
  <2>1. group' = F(g)
    BY <1>3a
  <2>2. group' = [group EXCEPT ![g] = plan.to[g]]
    BY <2>1 DEF F
  <2>3. Noted(r, g)
    BY <1>3a, <2>1 DEF Noted
  <2>4. torn' = IF req[r].call.name = "update"
                THEN torn \cup {t \in Tickets : ~InOne(group', t)} ELSE torn
    BY <1>3a, <2>1
  <2>5. QED
    BY <1>3a, <2>2, <2>3, <2>4
<1>4. g \in Groups /\ plan.to[g] \in GroupFiles /\ plan \in Plans
  BY <1>2 DEF LocksOK, Plans, Wave
<1>5. FilesOK'
  BY <1>1, <1>3, <1>4 DEF TypeInv, VarsOK, FilesOK
<1>6. PastOK'
  <2>1. torn' \subseteq Tickets
    BY <1>3 DEF TypeInv, VarsOK, PastOK
  <2>2. relisted' \subseteq Tickets /\ haunted' \subseteq Tickets
    <3>1. group'[g].has \subseteq Tickets
      BY <1>4, <1>5 DEF FilesOK, GroupFiles
    <3>2. QED
      BY <1>3, <3>1 DEF TypeInv, VarsOK, PastOK, Noted
  <2>3. failures' \in 0..MaxFailures
    BY <1>3, GroupsAssumption DEF TypeInv, VarsOK, PastOK, Fails
  <2>4. QED
    BY <1>1, <2>1, <2>2, <2>3 DEF TypeInv, VarsOK, PastOK
<1>7. LocksOK'
  BY <1>1, <1>2, <1>3, NoPlanTyped, NextFileTyped DEF LocksOK, NextFile
<1>8. VarsOK'
  BY <1>5, <1>6, <1>7 DEF VarsOK
<1>9. CASE Remaining(g) = {}
  <2> DEFINE at == IF interrupted THEN req[r].err ELSE req[r].ok
  <2>1. /\ groupLock' = None /\ plan' = NoPlan /\ Set(r, Went(req[r], at))
        /\ at \in {req[r].ok, req[r].err}
        /\ (interrupted => req[r].call.name \notin {"create", "uncreate"})
    BY <1>3, <1>9
  <2> HIDE DEF at
  <2>2. TypeInv' /\ Mine(r) /\ Released(r)
    BY <1>1, <1>8, <2>1, ReleaseKeeps
  <2>3. req \in [Requests -> RequestRecords] /\ req' \in [Requests -> RequestRecords]
    BY <2>2 DEF TypeInv, ReqOK
  <2>4. Becomes(r, Went(req[r], at))
    BY <2>1, <2>3 DEF Set, Becomes
  <2>5. QED
    BY <1>1, <1>2, <1>3, <1>4, <1>9, <2>1, <2>2, <2>4 DEF at
<1>10. CASE Remaining(g) # {}
  <2>1. NextFile(g)
    BY <1>3, <1>10
  <2>2. TypeInv' /\ Mine(r)
    BY <1>1, <1>8, <2>1, NextFileKeeps
  <2>3. QED
    BY <1>1, <1>2, <1>3, <1>4, <1>10, <2>1, <2>2
<1>11. QED
  BY <1>9, <1>10

LEMMA FailsTyped ==
  ASSUME failures \in 0..MaxFailures, Fails
  PROVE  failures' \in 0..MaxFailures
BY GroupsAssumption DEF Fails

LEMMA CallFailsKeeps ==
  ASSUME TypeInv, NEW r \in Requests, GroupCallFails(r)
  PROVE  /\ TypeInv' /\ Mine(r) /\ UNCHANGED <<files, relisted, haunted, overwritten>>
         /\ req[r].at \in {"group", "write"} /\ Becomes(r, Went(req[r], req[r].err))
         /\ \/ /\ req[r].at = "group" /\ groupLock' = groupLock /\ plan' = plan /\ torn' = torn
            \/ /\ req[r].at = "write" /\ Released(r) /\ groupLock = r
               /\ torn' = torn \cup Unfinished(req[r].call)
               /\ req[r].call.name # "uncreate" /\ ~Undoes(r)
<1>1. /\ req[r].at \in {"group", "write"} /\ UNCHANGED <<files, docLock, relisted, haunted, overwritten>>
      /\ Set(r, Went(req[r], req[r].err)) /\ Fails
  BY DEF GroupCallFails, At
<1>2. req[r] \in RequestRecords
  BY DEF TypeInv, ReqOK
<1>3. torn' = (IF req[r].at = "write" THEN torn \cup Unfinished(req[r].call) ELSE torn)
  BY DEF GroupCallFails, At
<1>4. Unfinished(req[r].call) \subseteq Tickets
  BY <1>2 DEF Unfinished, RequestRecords, CallRecords
<1>5. FilesOK' /\ PastOK'
  BY <1>1, <1>3, <1>4, FailsTyped DEF TypeInv, VarsOK, FilesOK, PastOK, files
<1>6. CASE req[r].at = "write"
  <2>1. groupLock' = None /\ plan' = NoPlan /\ req[r].call.name # "uncreate" /\ ~Undoes(r)
    BY <1>6 DEF GroupCallFails, At
  <2>2. VarsOK'
    BY <1>1, <1>5, <2>1, NoPlanTyped DEF TypeInv, VarsOK, LocksOK
  <2>3. TypeInv' /\ Mine(r) /\ Released(r)
    BY <1>1, <1>6, <2>1, <2>2, ReleaseKeeps
  <2>4. Becomes(r, Went(req[r], req[r].err))
    BY <1>1, <2>3 DEF TypeInv, ReqOK, Set, Becomes
  <2>5. QED
    BY <1>1, <1>3, <1>6, <2>1, <2>3, <2>4, Writer
<1>7. CASE req[r].at = "group"
  <2>1. UNCHANGED <<groupLock, plan>>
    BY <1>7 DEF GroupCallFails, At
  <2>2. VarsOK'
    BY <1>1, <1>5, <2>1 DEF TypeInv, VarsOK, LocksOK
  <2>3. groupLock' # r
    BY <1>7, <2>1 DEF TypeInv, LockInv, Owns, HoldsGroups
  <2>4. Mine(r)
    BY <1>1, <2>1 DEF Mine
  <2>5. TypeInv' /\ Becomes(r, Went(req[r], req[r].err))
    BY <1>1, <2>2, <2>3, <2>4, WentKeeps
  <2>6. QED
    BY <1>1, <1>3, <1>7, <2>1, <2>4, <2>5
<1>8. QED
  BY <1>1, <1>6, <1>7

LEMMA RollBackKeeps ==
  ASSUME TypeInv, NEW r \in Requests, RollBackCreation(r)
  PROVE  /\ TypeInv' /\ Mine(r) /\ UNCHANGED <<files, groupLock, history>> /\ groupLock = r
         /\ req[r].at = "write" /\ Undoes(r)
         /\ plan' = [plan EXCEPT !.now = {req[r].call.g}, !.to = plan.back,
                       !.next = Evictions(plan.back, req[r].call.g, req[r].call.ts)]
         /\ \E p : /\ Becomes(r, p) /\ p.at = "write" /\ p.op = req[r].op /\ p.ts = req[r].ts
                   /\ p.new = req[r].new /\ p.cut = req[r].cut /\ p.copy = req[r].copy
                   /\ p.todo = req[r].todo /\ p.done = req[r].done
                   /\ p.call.name = "uncreate" /\ p.call.g = req[r].call.g
                   /\ p.call.ts = req[r].call.ts
<1> DEFINE p == [req[r] EXCEPT !.call.name = "uncreate", !.ok = "failed"]
<1>1. /\ req[r].at = "write" /\ Undoes(r) /\ Set(r, p) /\ Fails
      /\ UNCHANGED <<files, groupLock, docLock, history>>
      /\ plan' = [plan EXCEPT !.now = {req[r].call.g}, !.to = plan.back,
                    !.next = Evictions(plan.back, req[r].call.g, req[r].call.ts)]
  BY DEF RollBackCreation, At
<1>2. req[r] \in RequestRecords /\ req[r].call \in CallRecords /\ Shape(req[r]) /\ Calling1(req[r])
  BY <1>1 DEF TypeInv, ReqOK, RequestRecords, Shape
<1>3. req[r].op \in GroupOps /\ req[r].err = "failed" /\ req[r].call.name = "create"
  BY <1>1, <1>2 DEF Undoes, Calling1, Onward
<1>4. p = [req[r] EXCEPT !.call = [req[r].call EXCEPT !.name = "uncreate"], !.ok = "failed"]
  BY <1>2 DEF RequestRecords, CallRecords
<1> HIDE DEF p
<1>5. PICK call : call = [req[r].call EXCEPT !.name = "uncreate"]
  OBVIOUS
<1>6. call.name = "uncreate" /\ call.g = req[r].call.g /\ call.ts = req[r].call.ts
  BY <1>2, <1>5 DEF CallRecords
<1>7. call \in CallRecords
  <2>1. "uncreate" \in CallNames
    BY DEF CallNames
  <2>2. QED
    BY <1>2, <1>5, <2>1 DEF CallRecords
<1>8. p = [req[r] EXCEPT !.call = call, !.ok = "failed"] /\ "failed" \in Ats
  BY <1>4, <1>5 DEF Ats, Ended
<1>9. p \in RequestRecords
  BY <1>2, <1>7, <1>8 DEF RequestRecords
<1>10. /\ p.at = "write" /\ p.op = req[r].op /\ p.ts = req[r].ts
       /\ p.new = req[r].new /\ p.cut = req[r].cut /\ p.copy = req[r].copy
       /\ p.todo = req[r].todo /\ p.done = req[r].done
       /\ p.call = call /\ p.ok = "failed" /\ p.err = "failed"
  BY <1>1, <1>2, <1>3, <1>8 DEF RequestRecords
<1>11. Shape(p)
  <2>1. Calling1(p)
    <3>1. Onward(p)
      BY <1>3, <1>6, <1>10 DEF Onward
    <3>2. p.call.g \in Groups /\ p.call.name # "set"
      BY <1>1, <1>2, <1>3, <1>6, <1>10 DEF Calling1
    <3>3. QED
      BY <3>1, <3>2 DEF Calling1
  <2>2. p.op # "split"
    BY <1>3, <1>10 DEF GroupOps
  <2>3. QED
    BY <1>2, <1>10, <2>1, <2>2 DEF Shape, InBulk, InSplit, HasNew
<1>12. groupLock = r /\ \A t \in Tickets : docLock[t] # r
  BY <1>1, Writer
<1>13. Owns(r, p, groupLock, docLock)
  <2>1. p.at \notin MustHold /\ HoldsGroups(p)
    BY <1>10 DEF MustHold, HoldsGroups
  <2>2. QED
    BY <1>12, <2>1, OwnsNoTicket
<1>14. VarsOK'
  <2>1. plan \in Plans
    BY DEF TypeInv, VarsOK, LocksOK
  <2>2. /\ {req[r].call.g} \in SUBSET Groups
        /\ Evictions(plan.back, req[r].call.g, req[r].call.ts) \in SUBSET Groups
    BY <1>1, <1>2, <1>3, EvictionsTyped DEF Calling1
  <2>3. plan' \in Plans
    BY <1>1, <2>1, <2>2 DEF Plans
  <2>4. QED
    BY <1>1, <2>3, FailsTyped DEF TypeInv, VarsOK, FilesOK, LocksOK, PastOK, files, history
<1>15. TypeInv' /\ Mine(r) /\ Becomes(r, p)
  BY <1>1, <1>9, <1>11, <1>13, <1>14, StayKeeps
<1>16. QED
  BY <1>1, <1>6, <1>10, <1>12, <1>15

LEMMA RollBackFailsKeeps ==
  ASSUME TypeInv, NEW r \in Requests, RollBackFails(r)
  PROVE  /\ TypeInv' /\ Mine(r) /\ UNCHANGED <<files, relisted, haunted, overwritten>> /\ groupLock = r
         /\ req[r].at = "write" /\ req[r].call.name = "uncreate"
         /\ torn' = torn \cup req[r].call.ts
         /\ Released(r) \/ \E g \in Wave : Remaining(g) # {} /\ NextFile(g)
<1>1. /\ req[r].at = "write" /\ req[r].call.name = "uncreate"
      /\ UNCHANGED <<files, docLock, relisted, haunted, overwritten, failures>>
      /\ torn' = torn \cup req[r].call.ts
  BY DEF RollBackFails, At
<1>2. req[r] \in RequestRecords /\ LocksOK
  BY DEF TypeInv, ReqOK, VarsOK
<1>3. torn' \subseteq Tickets
  BY <1>1, <1>2 DEF TypeInv, VarsOK, PastOK, RequestRecords, CallRecords
<1>4. FilesOK' /\ PastOK'
  BY <1>1, <1>3 DEF TypeInv, VarsOK, FilesOK, PastOK, files
<1>5. groupLock = r
  BY <1>1, Writer
<1>6. PICK g \in Wave :
        IF Remaining(g) = {}
        THEN groupLock' = None /\ plan' = NoPlan /\ Set(r, Went(req[r], req[r].err))
        ELSE NextFile(g)
  BY DEF RollBackFails, NextFile
<1>7. CASE Remaining(g) = {}
  <2>1. VarsOK'
    BY <1>1, <1>2, <1>4, <1>6, <1>7, NoPlanTyped DEF VarsOK, LocksOK
  <2>2. QED
    BY <1>1, <1>5, <1>6, <1>7, <2>1, ReleaseKeeps
<1>8. CASE Remaining(g) # {}
  <2>1. NextFile(g)
    BY <1>6, <1>8
  <2>2. VarsOK'
    BY <1>1, <1>2, <1>4, <2>1, NextFileTyped DEF VarsOK, LocksOK, NextFile
  <2>3. QED
    BY <1>1, <1>5, <1>8, <2>1, <2>2, NextFileKeeps
<1>9. QED
  BY <1>7, <1>8

-------------------------------------------------------------------------------
(* Tickets.                                                                  *)

LEMMA AfterwardsIs ==
  ASSUME NEW q \in RequestRecords, Shape(q), q.at \in Locking
  PROVE  LET p == [q EXCEPT !.at = Afterwards(q)]
         IN  /\ p \in RequestRecords /\ Shape(p) /\ (HoldsGroups(p) <=> HoldsGroups(q))
             /\ p.at \in MustHold /\ p.at \in MayHold /\ p.at \notin Locking
             /\ p.op = q.op /\ p.at = Afterwards(q) /\ p.ts = q.ts /\ p.new = q.new /\ p.cut = q.cut
             /\ p.call = q.call /\ p.copy = q.copy /\ p.todo = q.todo /\ p.done = q.done
<1> DEFINE p == [q EXCEPT !.at = Afterwards(q)]
<1>1. \/ q.at = "lock" /\ Afterwards(q) = "read"
      \/ q.at = "unlinking" /\ Afterwards(q) = "unlink"
      \/ q.at = "relock" /\ Afterwards(q) = "revert"
      \/ q.at = "recording" /\ Afterwards(q) = "record"
  BY DEF Afterwards, Locking, Shape
<1>2. Afterwards(q) \in Ats
  BY <1>1 DEF Ats
<1>3. /\ p \in RequestRecords
      /\ p.op = q.op /\ p.at = Afterwards(q) /\ p.ts = q.ts /\ p.new = q.new /\ p.cut = q.cut
      /\ p.call = q.call /\ p.ok = q.ok /\ p.err = q.err
      /\ p.copy = q.copy /\ p.todo = q.todo /\ p.done = q.done /\ p.sprint = q.sprint
  BY <1>2, AtIs
<1> HIDE DEF p
<1>4. Shape(p)
  BY <1>1, <1>3 DEF Shape, InBulk, InSplit, HasNew
<1>5. p.at \in MustHold /\ p.at \in MayHold /\ p.at \notin Locking
  BY <1>1, <1>3 DEF MustHold, MayHold, Locking
<1>6. HoldsGroups(p) <=> HoldsGroups(q)
  BY <1>1, <1>3 DEF HoldsGroups
<1>7. QED
  BY <1>3, <1>4, <1>5, <1>6 DEF p

LEMMA LockKeeps ==
  ASSUME TypeInv, NEW r \in Requests, LockTicket(r)
  PROVE  /\ TypeInv' /\ Mine(r) /\ UNCHANGED <<files, groupLock, plan, history, failures>>
         /\ req[r].at \in Locking
         /\ \E t \in Tickets : /\ docLock[t] = None /\ t \in req[r].ts
                               /\ \A u \in Tickets : docLock'[u] = IF u = t THEN r ELSE docLock[u]
         /\ \/ Becomes(r, req[r])
            \/ Becomes(r, [req[r] EXCEPT !.at = Afterwards(req[r])])
<1> DEFINE q == req[r]
<1>1. q.at \in Locking /\ UNCHANGED <<files, groupLock, plan, history, failures>>
  BY DEF LockTicket
<1>2. PICK t \in Tickets :
        /\ NextLock(r, t) /\ docLock[t] = None
        /\ docLock' = [docLock EXCEPT ![t] = r]
        /\ IF Missing(r) = {t} THEN Goto(r, Afterwards(q)) ELSE UNCHANGED req
  BY DEF LockTicket
<1>3. q \in RequestRecords /\ Shape(q) /\ Owns(r, q, groupLock, docLock) /\ LocksOK /\ q.ts \subseteq Tickets
  BY DEF TypeInv, ReqOK, LockInv, VarsOK, RequestRecords
<1>4. /\ docLock' \in [Tickets -> Requests \cup {None}]
      /\ \A u \in Tickets : docLock'[u] = IF u = t THEN r ELSE docLock[u]
  BY <1>2, <1>3 DEF LocksOK
<1>5. Mine(r)
  BY <1>1, <1>2, <1>4 DEF Mine
<1>6. VarsOK'
  BY <1>1, <1>4 DEF TypeInv, VarsOK, FilesOK, LocksOK, PastOK, files, history
<1>7. t \in q.ts /\ \A u \in q.ts : docLock[u] = r \/ t <= u
  BY <1>2 DEF NextLock, Missing, HeldBy
<1>8. CASE Missing(r) = {t}
  <2> DEFINE p == [q EXCEPT !.at = Afterwards(q)]
  <2>1. /\ p \in RequestRecords /\ Shape(p) /\ (HoldsGroups(p) <=> HoldsGroups(q))
        /\ p.at \in MustHold /\ p.at \in MayHold /\ p.at \notin Locking /\ p.ts = q.ts
    BY <1>1, <1>3, AfterwardsIs
  <2>2. Set(r, p)
    BY <1>2, <1>8 DEF Goto
  <2> HIDE DEF p
  <2>3. \A u \in q.ts : docLock'[u] = r
    BY <1>3, <1>4, <1>8 DEF Missing, HeldBy
  <2>4. Owns(r, p, groupLock', docLock')
    BY <1>1, <1>3, <1>4, <1>7, <2>1, <2>3 DEF Owns
  <2>5. TypeInv' /\ Becomes(r, p)
    BY <1>5, <1>6, <2>1, <2>2, <2>4, Assemble
  <2>6. QED
    BY <1>1, <1>2, <1>4, <1>5, <1>7, <2>5 DEF p
<1>9. CASE Missing(r) # {t}
  <2>1. req' = req
    BY <1>2, <1>9
  <2>2. Becomes(r, q)
    BY <2>1 DEF TypeInv, ReqOK, Becomes
  <2>3. Set(r, q)
    BY <2>1 DEF TypeInv, ReqOK, Set
  <2>4. Owns(r, q, groupLock', docLock')
    <3> HIDE DEF q
    <3>1. \A v \in Tickets : docLock'[v] = r => q.at \in MayHold /\ v \in q.ts
      BY <1>1, <1>3, <1>4, <1>7 DEF Owns, MayHold
    <3>2. q.at \notin MustHold
      BY <1>1 DEF Locking, MustHold
    <3>3. ASSUME NEW v \in Tickets, NEW u \in Tickets, docLock'[v] = r, u \in q.ts, docLock'[u] # r
          PROVE  v < u
      <4>1. docLock[u] # r /\ u # t /\ v \in Nat /\ u \in Nat
        BY <1>4, <3>3, GroupsAssumption
      <4>2. CASE v = t
        BY <1>7, <3>3, <4>1, <4>2
      <4>3. CASE v # t
        BY <1>1, <1>3, <1>4, <3>3, <4>1, <4>3 DEF Owns
      <4>4. QED
        BY <4>2, <4>3
    <3>4. QED
      BY <1>1, <1>3, <3>1, <3>2, <3>3 DEF Owns
  <2>5. TypeInv'
    BY <1>3, <1>5, <1>6, <2>3, <2>4, Assemble
  <2>6. QED
    BY <1>1, <1>2, <1>4, <1>5, <1>7, <2>2, <2>5
<1>10. QED
  BY <1>8, <1>9

\* A request that ends: the rest of the lemmas of this kind follow from EndKeeps.
Ends(r, outcome, cut) ==
  /\ Becomes(r, Over(req[r], outcome, cut))
  /\ groupLock' = IF groupLock = r THEN None ELSE groupLock
  /\ plan' = IF groupLock = r THEN NoPlan ELSE plan

LEMMA ReadKeeps ==
  ASSUME TypeInv, NEW r \in Requests, ReadTicket(r)
  PROVE  /\ TypeInv' /\ Mine(r) /\ UNCHANGED <<files, history, failures>>
         /\ req[r].at = "read" /\ req[r].op \in {"edit", "moveInGroup"}
         /\ \/ Ends(r, "failed", FALSE)
            \/ \E t \in file, p \in RequestRecords :
                 /\ UNCHANGED <<groupLock, docLock, plan>> /\ Becomes(r, p)
                 /\ p.at = "patch" /\ req[r].ts = {t}
                 /\ p.op = req[r].op /\ p.ts = req[r].ts /\ p.new = req[r].new /\ p.cut = req[r].cut
                 /\ p.call = req[r].call /\ p.todo = req[r].todo /\ p.done = req[r].done
                 /\ p.copy[t] = text[t] \cup {r}
<1> DEFINE q == req[r]
<1>1. q.at = "read" /\ q.op \in {"edit", "moveInGroup"} /\ UNCHANGED <<files, history, failures>>
  BY DEF ReadTicket, At
<1>2. PICK t \in q.ts :
        IF Held(t)
        THEN /\ Set(r, [q EXCEPT !.at = "patch", !.copy[t] = text[t] \cup {r}])
             /\ UNCHANGED <<groupLock, docLock, plan>>
        ELSE End(r, "failed", FALSE)
  BY DEF ReadTicket
<1>3. /\ q \in RequestRecords /\ Shape(q) /\ Owns(r, q, groupLock, docLock)
      /\ FilesOK /\ FilesOK' /\ PastOK'
  BY <1>1 DEF TypeInv, ReqOK, LockInv, VarsOK, FilesOK, PastOK, files, history
<1>4. CASE ~Held(t)
  <2>1. End(r, "failed", FALSE)
    BY <1>2, <1>4
  <2>2. QED
    BY <1>1, <1>3, <2>1, EndKeeps DEF Ends
<1>5. CASE Held(t)
  <2> DEFINE d == [q.copy EXCEPT ![t] = text[t] \cup {r}]
             p == [q EXCEPT !.at = "patch", !.copy[t] = text[t] \cup {r}]
  <2>1. q.ts = {t} /\ t \in Tickets /\ t \in file
    BY <1>1, <1>3, <1>5 DEF Shape, Singles, Single, Held
  <2>2. d \in [Tickets -> SUBSET Requests] /\ d[t] = text[t] \cup {r} /\ "patch" \in Ats
    BY <1>3, <2>1 DEF FilesOK, RequestRecords, Ats
  <2>3. p = [q EXCEPT !.at = "patch", !.copy = d]
    BY <1>3 DEF RequestRecords
  <2>4. Set(r, p) /\ UNCHANGED <<groupLock, docLock, plan>>
    BY <1>2, <1>5
  <2> HIDE DEF p, d
  <2>5. p \in RequestRecords
    BY <1>3, <2>2, <2>3 DEF RequestRecords
  <2>6. /\ p.op = q.op /\ p.at = "patch" /\ p.ts = q.ts /\ p.new = q.new /\ p.cut = q.cut
        /\ p.call = q.call /\ p.ok = q.ok /\ p.err = q.err
        /\ p.copy = d /\ p.todo = q.todo /\ p.done = q.done
    BY <1>3, <2>3 DEF RequestRecords
  <2>7. Shape(p)
    BY <1>1, <1>3, <2>6 DEF Shape, InBulk, InSplit, HasNew
  <2>8. Owns(r, p, groupLock, docLock)
    <3>1. HoldsGroups(p) <=> HoldsGroups(q)
      BY <1>1, <2>6 DEF HoldsGroups
    <3>2. q.at \in MustHold /\ p.at \in MustHold /\ p.at \in MayHold /\ p.at \notin Locking
      BY <1>1, <2>6 DEF MustHold, MayHold, Locking
    <3>3. QED
      BY <1>3, <2>6, <3>1, <3>2 DEF Owns
  <2>9. VarsOK'
    BY <1>3, <2>4 DEF TypeInv, VarsOK, LocksOK
  <2>10. TypeInv' /\ Mine(r) /\ Becomes(r, p)
    BY <2>4, <2>5, <2>7, <2>8, <2>9, StayKeeps
  <2>11. QED
    BY <1>1, <2>1, <2>2, <2>4, <2>5, <2>6, <2>10
<1>6. QED
  BY <1>4, <1>5

LEMMA StoredIs ==
  ASSUME FilesOK, NEW t \in Tickets, NEW d \in SUBSET Requests, Stored(t, d)
  PROVE  /\ file' \subseteq Tickets /\ text' \in [Tickets -> SUBSET Requests]
         /\ file' = file \cup {t} /\ text'[t] = d
         /\ \A u \in Tickets : u # t => text'[u] = text[u]
BY DEF FilesOK, Stored

LEMMA DeletedIs ==
  ASSUME FilesOK, NEW t \in Tickets, Deleted(t)
  PROVE  /\ file' \subseteq Tickets /\ text' \in [Tickets -> SUBSET Requests]
         /\ file' = file \ {t} /\ text'[t] = {}
         /\ \A u \in Tickets : u # t => text'[u] = text[u]
BY DEF FilesOK, Deleted

LEMMA PatchKeeps ==
  ASSUME TypeInv, NEW r \in Requests, PatchTicket(r)
  PROVE  /\ TypeInv' /\ Mine(r) /\ UNCHANGED <<born, group, history, failures>>
         /\ req[r].at = "patch" /\ req[r].op \in {"edit", "moveInGroup"}
         /\ \E t \in Tickets : Stored(t, req[r].copy[t]) /\ req[r].ts = {t}
         /\ \/ /\ Ends(r, "done", FALSE) /\ req[r].op = "edit"
            \/ \E p \in RequestRecords :
                 /\ UNCHANGED <<groupLock, plan>> /\ Becomes(r, p) /\ groupLock = r
                 /\ p.at = "write" /\ req[r].op = "moveInGroup"
                 /\ p.op = req[r].op /\ p.ts = req[r].ts /\ p.new = req[r].new /\ p.cut = req[r].cut
                 /\ p.call = req[r].call /\ p.todo = req[r].todo /\ p.done = req[r].done
                 /\ p.call.name = "moveInGroup"
<1> DEFINE q == req[r]
<1>1. q.at = "patch" /\ UNCHANGED <<born, group, history, failures>>
  BY DEF PatchTicket, At
<1>2. PICK t \in q.ts : Stored(t, q.copy[t])
  BY DEF PatchTicket
<1>3. /\ q \in RequestRecords /\ Shape(q) /\ Owns(r, q, groupLock, docLock) /\ FilesOK /\ LocksOK
      /\ PastOK'
  BY <1>1 DEF TypeInv, ReqOK, LockInv, VarsOK, PastOK, history
<1>4. q.op \in {"edit", "moveInGroup"} /\ q.ts = {t} /\ t \in Tickets
  BY <1>1, <1>2, <1>3 DEF Shape, Singles, Single
<1>5. q.copy[t] \in SUBSET Requests
  BY <1>3, <1>4 DEF RequestRecords
<1>6. FilesOK'
  BY <1>1, <1>2, <1>3, <1>4, <1>5, StoredIs DEF FilesOK
<1>7. CASE q.op = "edit"
  <2>1. End(r, "done", FALSE)
    BY <1>1, <1>7 DEF PatchTicket
  <2>2. QED
    BY <1>1, <1>2, <1>3, <1>4, <1>6, <1>7, <2>1, EndKeeps DEF Ends
<1>8. CASE q.op = "moveInGroup"
  <2> DEFINE p == [q EXCEPT !.at = "write", !.ok = "done"]
  <2>1. Set(r, p) /\ docLock' = Unlocked(r) /\ UNCHANGED <<groupLock, plan>>
    BY <1>8 DEF PatchTicket
  <2> HIDE DEF p
  <2>2. p = [q EXCEPT !.at = "write", !.ok = "done"] /\ "write" \in Ats /\ "done" \in Ats
    BY DEF p, Ats, Ended
  <2>3. p \in RequestRecords
    BY <1>3, <2>2 DEF RequestRecords
  <2>4. /\ p.op = q.op /\ p.at = "write" /\ p.ts = q.ts /\ p.new = q.new /\ p.cut = q.cut
        /\ p.call = q.call /\ p.ok = "done" /\ p.err = q.err
        /\ p.copy = q.copy /\ p.todo = q.todo /\ p.done = q.done
    BY <1>3, <2>2 DEF RequestRecords
  <2>5. q.call.name = "moveInGroup" /\ q.call.g \in Groups /\ q.err = "failed"
    BY <1>1, <1>3, <1>8 DEF Shape
  <2>6. Shape(p)
    <3>1. Calling1(p)
      BY <1>8, <2>4, <2>5 DEF Calling1, Onward
    <3>2. QED
      BY <1>3, <1>8, <2>4, <3>1 DEF Shape, InBulk, InSplit, HasNew
  <2>7. /\ docLock' \in [Tickets -> Requests \cup {None}]
        /\ \A u \in Tickets : docLock'[u] = IF docLock[u] = r THEN None ELSE docLock[u]
    BY <1>3, <2>1, Unlocks
  <2>8. VarsOK'
    BY <1>3, <1>6, <2>1, <2>7 DEF VarsOK, LocksOK
  <2>9. Mine(r)
    BY <2>1, <2>7 DEF Mine
  <2>10. groupLock = r /\ r # None
    BY <1>1, <1>3, <1>8, NoneIsNobody, GroupsAssumption DEF Owns, HoldsGroups
  <2>11. Owns(r, p, groupLock', docLock')
    <3>1. p.at \notin MustHold /\ HoldsGroups(p)
      BY <2>4 DEF MustHold, HoldsGroups
    <3>2. QED
      BY <2>1, <2>7, <2>10, <3>1, OwnsNoTicket
  <2>12. TypeInv' /\ Becomes(r, p)
    BY <2>1, <2>3, <2>6, <2>8, <2>9, <2>11, Assemble
  <2>13. QED
    BY <1>1, <1>2, <1>4, <1>8, <2>1, <2>3, <2>4, <2>5, <2>9, <2>10, <2>12
<1>9. QED
  BY <1>4, <1>7, <1>8

LEMMA UnlinkKeeps ==
  ASSUME TypeInv, NEW r \in Requests, Unlink(r)
  PROVE  /\ TypeInv' /\ Mine(r)
         /\ UNCHANGED <<born, group, torn, relisted, overwritten, failures>>
         /\ req[r].at = "unlink" /\ req[r].op = "remove"
         /\ \E t \in Tickets :
              /\ req[r].ts = {t} /\ docLock[t] = r
              /\ \/ /\ Deleted(t) /\ Ends(r, "done", FALSE)
                    /\ haunted' = IF ListedMeanwhile(t) THEN haunted \cup {t} ELSE haunted
                 \/ t \notin file /\ UNCHANGED <<file, text, haunted>> /\ Ends(r, "failed", FALSE)
<1> DEFINE q == req[r]
<1>1. q.at = "unlink" /\ UNCHANGED <<born, group, torn, relisted, overwritten, failures>>
  BY DEF Unlink, At
<1>2. PICK t \in q.ts :
        IF Held(t)
        THEN /\ Deleted(t) /\ End(r, "done", FALSE)
             /\ haunted' = IF ListedMeanwhile(t) THEN haunted \cup {t} ELSE haunted
        ELSE UNCHANGED <<file, text, haunted>> /\ End(r, "failed", FALSE)
  BY DEF Unlink
<1>3. q \in RequestRecords /\ Shape(q) /\ Owns(r, q, groupLock, docLock) /\ FilesOK /\ PastOK
  BY <1>1 DEF TypeInv, ReqOK, LockInv, VarsOK
<1>4. q.op = "remove" /\ q.ts = {t} /\ t \in Tickets
  BY <1>1, <1>2, <1>3 DEF Shape, Singles, Single
<1>5. docLock[t] = r
  BY <1>1, <1>3, <1>4 DEF Owns, MustHold
<1>6. FilesOK'
  BY <1>1, <1>2, <1>3, <1>4, DeletedIs DEF FilesOK
<1>7. PastOK'
  BY <1>1, <1>2, <1>3, <1>4 DEF PastOK
<1>8. QED
  BY <1>1, <1>2, <1>3, <1>4, <1>5, <1>6, <1>7, EndKeeps DEF Ends, Held

LEMMA StopsKeeps ==
  ASSUME TypeInv, NEW r \in Requests, Stops(r)
  PROVE  /\ TypeInv' /\ Mine(r) /\ UNCHANGED <<files, history>>
         /\ req[r].at \in {"lock", "unlinking", "recording", "read", "patch", "unlink", "record",
                           "relock"}
         /\ Ends(r, "failed", req[r].at \in {"relock", "recording", "record"})
<1>1. /\ req[r].at \in {"lock", "unlinking", "recording", "read", "patch", "unlink", "record",
                        "relock"}
      /\ Fails /\ UNCHANGED <<files, history>>
      /\ End(r, "failed", req[r].at \in {"relock", "recording", "record"})
  BY DEF Stops, At
<1>2. FilesOK' /\ PastOK'
  BY <1>1, FailsTyped DEF TypeInv, VarsOK, FilesOK, PastOK, files, history
<1> DEFINE cut == req[r].at \in {"relock", "recording", "record"}
<1>3. cut \in BOOLEAN /\ End(r, "failed", cut)
  BY <1>1
<1> HIDE DEF cut
<1>4. TypeInv' /\ Mine(r) /\ Ends(r, "failed", cut)
  BY <1>2, <1>3, EndKeeps DEF Ends
<1>5. QED
  BY <1>1, <1>4 DEF cut

-------------------------------------------------------------------------------
(* Bulk updates.                                                             *)

Like(p, q) ==
  /\ p.op = q.op /\ p.ts = q.ts /\ p.new = q.new /\ p.cut = q.cut
  /\ p.copy = q.copy /\ p.todo = q.todo /\ p.done = q.done

\* A request that has no lock goes on without one.
LEMMA FreeKeeps ==
  ASSUME TypeInv, NEW r \in Requests, req[r].at \notin MayHold, ~HoldsGroups(req[r]),
         NEW p \in RequestRecords, Shape(p), p.at \notin MustHold, ~HoldsGroups(p), Set(r, p),
         UNCHANGED <<files, groupLock, docLock, plan, history, failures>>
  PROVE  TypeInv' /\ Mine(r) /\ Becomes(r, p)
<1>1. VarsOK'
  BY Rest DEF TypeInv, VarsOK, LocksOK
<1>2. groupLock # r
  BY DEF TypeInv, LockInv, Owns
<1>3. Owns(r, p, groupLock, docLock)
  BY <1>2, HoldsNoTicket, OwnsNoTicket
<1>4. QED
  BY <1>1, <1>3, StayKeeps

\* A request that keeps its tickets.
LEMMA HoldingKeeps ==
  ASSUME TypeInv, FilesOK', PastOK', UNCHANGED <<groupLock, docLock, plan>>,
         NEW r \in Requests, NEW p \in RequestRecords, Shape(p), Set(r, p), p.ts = req[r].ts,
         HoldsGroups(p) <=> HoldsGroups(req[r]),
         p.at \in MayHold \ Locking, p.at \in MustHold => req[r].at \in MustHold
  PROVE  TypeInv' /\ Mine(r) /\ Becomes(r, p)
<1>1. VarsOK'
  BY DEF TypeInv, VarsOK, LocksOK
<1>2. Owns(r, req[r], groupLock, docLock)
  BY DEF TypeInv, LockInv
<1>3. Owns(r, p, groupLock, docLock)
  BY <1>2 DEF Owns
<1>4. QED
  BY <1>1, <1>3, StayKeeps

LEMMA ReadBulkKeeps ==
  ASSUME TypeInv, NEW r \in Requests, ReadTickets(r)
  PROVE  /\ TypeInv' /\ Mine(r) /\ UNCHANGED <<files, history, failures>>
         /\ req[r].at = "read" /\ req[r].op = "bulkUpdate"
         /\ \/ Ends(r, "failed", FALSE)
            \/ \E p \in RequestRecords :
                 /\ UNCHANGED <<groupLock, docLock, plan>> /\ Becomes(r, p)
                 /\ p.at = "bulk" /\ req[r].ts \subseteq file
                 /\ p.op = req[r].op /\ p.ts = req[r].ts /\ p.new = req[r].new /\ p.cut = req[r].cut
                 /\ p.done = req[r].done /\ \A t \in p.todo : p.copy[t] = text[t] \cup {r}
<1> DEFINE q == req[r]
<1>1. q.at = "read" /\ q.op = "bulkUpdate" /\ UNCHANGED <<files, history, failures>>
  BY DEF ReadTickets, At
<1>2. /\ q \in RequestRecords /\ Shape(q) /\ FilesOK /\ FilesOK' /\ PastOK'
  BY <1>1 DEF TypeInv, ReqOK, VarsOK, FilesOK, PastOK, files, history
<1>3. CASE End(r, "failed", FALSE)
  BY <1>1, <1>2, <1>3, EndKeeps DEF Ends
<1> DEFINE d(changed) == [t \in Tickets |-> IF t \in changed THEN text[t] \cup {r} ELSE {}]
           p(changed) == [q EXCEPT !.at = "bulk", !.todo = changed, !.copy = d(changed)]
<1>4. ASSUME NEW changed \in SUBSET q.ts, Set(r, p(changed)), UNCHANGED <<groupLock, docLock, plan>>,
             q.ts \subseteq file
      PROVE  /\ TypeInv' /\ Mine(r)
             /\ \E x \in RequestRecords :
                  /\ Becomes(r, x) /\ x.at = "bulk"
                  /\ x.op = q.op /\ x.ts = q.ts /\ x.new = q.new /\ x.cut = q.cut
                  /\ x.done = q.done /\ \A t \in x.todo : x.copy[t] = text[t] \cup {r}
  <2>1. d(changed) \in [Tickets -> SUBSET Requests] /\ "bulk" \in Ats /\ q.ts \subseteq Tickets
    BY <1>2 DEF FilesOK, Ats, RequestRecords
  <2>2. \A t \in changed : d(changed)[t] = text[t] \cup {r}
    BY <2>1
  <2>3. PICK c : c = d(changed)
    OBVIOUS
  <2>4. PICK x : x = [q EXCEPT !.at = "bulk", !.todo = changed, !.copy = c]
    OBVIOUS
  <2>5. Set(r, x)
    BY <1>4, <2>3, <2>4
  <2>6. c \in [Tickets -> SUBSET Requests] /\ \A t \in changed : c[t] = text[t] \cup {r}
    BY <2>1, <2>2, <2>3
  <2> HIDE DEF d, p
  <2>7. x \in RequestRecords
    BY <1>2, <2>1, <2>4, <2>6 DEF RequestRecords
  <2>8. /\ x.op = q.op /\ x.at = "bulk" /\ x.ts = q.ts /\ x.new = q.new /\ x.cut = q.cut
        /\ x.copy = c /\ x.todo = changed /\ x.done = q.done
    BY <1>2, <2>4 DEF RequestRecords
  <2>9. Shape(x)
    BY <1>1, <1>2, <2>8 DEF Shape, Singles, InBulk, InSplit, HasNew
  <2>10. /\ HoldsGroups(x) <=> HoldsGroups(q)
         /\ x.at \in MayHold \ Locking /\ q.at \in MustHold
    BY <1>1, <2>8 DEF HoldsGroups, MayHold, MustHold, Locking
  <2>11. TypeInv' /\ Mine(r) /\ Becomes(r, x)
    BY <1>2, <1>4, <2>5, <2>7, <2>8, <2>9, <2>10, HoldingKeeps
  <2>12. QED
    BY <2>6, <2>7, <2>8, <2>11
<1>5. \/ End(r, "failed", FALSE)
      \/ /\ q.ts \subseteq file /\ UNCHANGED <<groupLock, docLock, plan>>
         /\ \E changed \in SUBSET q.ts : Set(r, p(changed))
  BY DEF ReadTickets, Held
<1> HIDE DEF p, d
<1>6. QED
  BY <1>1, <1>3, <1>4, <1>5

LEMMA WriteNextKeeps ==
  ASSUME TypeInv, NEW r \in Requests, NEW interrupted \in BOOLEAN, WriteNext(r, interrupted)
  PROVE  /\ TypeInv' /\ Mine(r) /\ UNCHANGED <<born, group, groupLock, docLock, plan, history>>
         /\ req[r].at = "bulk" /\ req[r].op = "bulkUpdate"
         /\ \E t \in Tickets, p \in RequestRecords :
              /\ t \in req[r].todo /\ Stored(t, req[r].copy[t]) /\ docLock[t] = r
              /\ Becomes(r, p)
              /\ p.op = req[r].op /\ p.ts = req[r].ts /\ p.new = req[r].new /\ p.copy = req[r].copy
              /\ \/ p.at = "revert" /\ p.cut = TRUE
                 \/ /\ p.at = "bulk" /\ p.todo = req[r].todo \ {t} /\ p.done = req[r].done \cup {t}
                    /\ p.cut = req[r].cut
<1> DEFINE q == req[r]
<1>1. q.at = "bulk" /\ UNCHANGED <<born, group, groupLock, docLock, plan, history>>
  BY DEF WriteNext, At
<1>2. PICK t \in q.todo :
        /\ Stored(t, q.copy[t])
        /\ IF interrupted
           THEN Fails /\ Set(r, [q EXCEPT !.at = "revert", !.cut = TRUE])
           ELSE /\ Set(r, [q EXCEPT !.todo = q.todo \ {t}, !.done = q.done \cup {t}])
                /\ UNCHANGED failures
  BY DEF WriteNext
<1>3. /\ q \in RequestRecords /\ Shape(q) /\ Owns(r, q, groupLock, docLock) /\ FilesOK
      /\ PastOK'
  BY <1>1, <1>2, FailsTyped DEF TypeInv, ReqOK, LockInv, VarsOK, PastOK, history
<1>4. t \in Tickets /\ t \in q.ts /\ q.op = "bulkUpdate" /\ docLock[t] = r
  BY <1>1, <1>3 DEF Shape, RequestRecords, InBulk, Owns, MustHold
<1>5. q.copy[t] \in SUBSET Requests
  BY <1>3, <1>4 DEF RequestRecords
<1>6. FilesOK'
  BY <1>1, <1>2, <1>3, <1>4, <1>5, StoredIs DEF FilesOK
<1>7. CASE interrupted
  <2> DEFINE p == [q EXCEPT !.at = "revert", !.cut = TRUE]
  <2>1. Set(r, p) /\ "revert" \in Ats
    BY <1>2, <1>7 DEF Ats
  <2>2. p \in RequestRecords
    BY <1>3, <2>1 DEF RequestRecords
  <2>3. /\ p.op = q.op /\ p.at = "revert" /\ p.ts = q.ts /\ p.new = q.new /\ p.cut = TRUE
        /\ p.copy = q.copy /\ p.todo = q.todo /\ p.done = q.done
    BY <1>3 DEF RequestRecords
  <2> HIDE DEF p
  <2>4. Shape(p)
    BY <1>1, <1>3, <1>4, <2>3 DEF Shape, Singles, InBulk, InSplit, HasNew
  <2>5. /\ HoldsGroups(p) <=> HoldsGroups(q)
        /\ p.at \in MayHold \ Locking /\ q.at \in MustHold
    BY <1>1, <2>3 DEF HoldsGroups, MayHold, MustHold, Locking
  <2>6. TypeInv' /\ Mine(r) /\ Becomes(r, p)
    BY <1>1, <1>3, <1>6, <2>1, <2>2, <2>3, <2>4, <2>5, HoldingKeeps
  <2>7. QED
    BY <1>1, <1>2, <1>4, <2>2, <2>3, <2>6
<1>8. CASE ~interrupted
  <2> DEFINE p == [q EXCEPT !.todo = q.todo \ {t}, !.done = q.done \cup {t}]
  <2>1. Set(r, p)
    BY <1>2, <1>8
  <2>2. p \in RequestRecords
    BY <1>3, <1>4 DEF RequestRecords
  <2>3. /\ p.op = q.op /\ p.at = q.at /\ p.ts = q.ts /\ p.new = q.new /\ p.cut = q.cut
        /\ p.copy = q.copy /\ p.todo = q.todo \ {t} /\ p.done = q.done \cup {t}
    BY <1>3 DEF RequestRecords
  <2> HIDE DEF p
  <2>4. Shape(p)
    BY <1>1, <1>3, <1>4, <2>3 DEF Shape, Singles, InBulk, InSplit, HasNew
  <2>5. /\ HoldsGroups(p) <=> HoldsGroups(q)
        /\ p.at \in MayHold \ Locking /\ q.at \in MustHold
    BY <1>1, <2>3 DEF HoldsGroups, MayHold, MustHold, Locking
  <2>6. TypeInv' /\ Mine(r) /\ Becomes(r, p)
    BY <1>1, <1>3, <1>6, <2>1, <2>2, <2>3, <2>4, <2>5, HoldingKeeps
  <2>7. QED
    BY <1>1, <1>2, <1>4, <2>2, <2>3, <2>6
<1>9. QED
  BY <1>7, <1>8

LEMMA BulkFailsKeeps ==
  ASSUME TypeInv, NEW r \in Requests, BulkFails(r)
  PROVE  /\ TypeInv' /\ Mine(r) /\ UNCHANGED <<files, groupLock, docLock, plan, history>>
         /\ req[r].at = "bulk" /\ req[r].op = "bulkUpdate"
         /\ \E p \in RequestRecords : Becomes(r, p) /\ p.at = "revert" /\ Like(p, req[r])
<1> DEFINE q == req[r]
           p == [q EXCEPT !.at = "revert"]
<1>1. /\ q.at = "bulk" /\ UNCHANGED <<files, groupLock, docLock, plan, history>>
      /\ Set(r, p) /\ Fails
  BY DEF BulkFails, At, Goto
<1>2. q \in RequestRecords /\ Shape(q) /\ FilesOK' /\ PastOK'
  BY <1>1, FailsTyped DEF TypeInv, ReqOK, VarsOK, FilesOK, PastOK, files, history
<1>3. "revert" \in Ats
  BY DEF Ats
<1>4. /\ p \in RequestRecords
      /\ p.op = q.op /\ p.at = "revert" /\ p.ts = q.ts /\ p.new = q.new /\ p.cut = q.cut
      /\ p.call = q.call /\ p.ok = q.ok /\ p.err = q.err
      /\ p.copy = q.copy /\ p.todo = q.todo /\ p.done = q.done
  BY <1>2, <1>3, AtIs
<1> HIDE DEF p
<1>5. q.op = "bulkUpdate"
  BY <1>1, <1>2 DEF Shape, InBulk
<1>6. Shape(p)
  BY <1>1, <1>2, <1>4, <1>5 DEF Shape, Singles, InBulk, InSplit, HasNew
<1>7. /\ HoldsGroups(p) <=> HoldsGroups(q)
      /\ p.at \in MayHold \ Locking /\ q.at \in MustHold
  BY <1>1, <1>4 DEF HoldsGroups, MayHold, MustHold, Locking
<1>8. TypeInv' /\ Mine(r) /\ Becomes(r, p)
  BY <1>1, <1>2, <1>4, <1>6, <1>7, HoldingKeeps
<1>9. QED
  BY <1>1, <1>4, <1>5, <1>8 DEF Like

\* A bulk update goes on to its sprints, or ends.
Sprinting(r, ats) ==
  \/ Becomes(r, Over(req[r], "done", req[r].cut))
  \/ \E p \in RequestRecords : Becomes(r, p) /\ p.at \in ats /\ Like(p, req[r])

LEMMA BulkCalls ==
  ASSUME NEW q \in RequestRecords, Shape(q), q.op = "bulkUpdate",
         NEW name \in {"addTickets", "removeTickets", "set"}, NEW g \in Groups,
         NEW ts \in SUBSET Tickets, name = "set" => Single(ts),
         NEW from \in Groups \cup {None, "any"}, NEW ok \in Ats, NEW err \in Ats,
         \/ name = "addTickets" /\ ok = "done" /\ err = "relock"
         \/ name = "removeTickets" /\ ok = "left" /\ err = "rejoin"
         \/ name = "set" /\ ok = "rejoined" /\ err = "rejoined",
         NEW p, p = Calls(q, name, g, ts, from, ok, err)
  PROVE  /\ p \in RequestRecords /\ Shape(p) /\ p.at = "group" /\ Like(p, q)
         /\ p.at \notin MustHold /\ ~HoldsGroups(p)
<1>1. name \in CallNames
  BY DEF CallNames
<1>2. /\ p \in RequestRecords
      /\ p.op = q.op /\ p.at = "group" /\ p.ts = q.ts /\ p.new = q.new /\ p.cut = q.cut
      /\ p.call.name = name /\ p.call.g = g /\ p.call.ts = ts /\ p.call.from = from
      /\ p.ok = ok /\ p.err = err /\ p.copy = q.copy /\ p.todo = q.todo /\ p.done = q.done
  BY <1>1, CallsIs, SMTT(60)
<1>3. Onward(p)
  BY <1>2 DEF Onward
<1>4. Shape(p)
  BY <1>2, <1>3 DEF Shape, Calling1, Singles, InBulk, InSplit, HasNew
<1>5. p.at \notin MustHold /\ ~HoldsGroups(p)
  BY <1>2 DEF MustHold, HoldsGroups
<1>6. QED
  BY <1>2, <1>4, <1>5 DEF Like

LEMMA BulkWrittenKeeps ==
  ASSUME TypeInv, NEW r \in Requests, BulkWritten(r)
  PROVE  /\ TypeInv' /\ Mine(r) /\ UNCHANGED <<files, groupLock, plan, history, failures>>
         /\ req[r].at = "bulk" /\ req[r].op = "bulkUpdate" /\ Sprinting(r, {"leave", "group"})
<1> DEFINE q == req[r]
<1>1. /\ q.at = "bulk" /\ docLock' = Unlocked(r)
      /\ UNCHANGED <<files, groupLock, plan, history, failures>>
  BY DEF BulkWritten, At
<1>2. /\ q \in RequestRecords /\ Shape(q) /\ LocksOK /\ q.op = "bulkUpdate" /\ groupLock # r
      /\ q.sprint \in Groups \cup {None, "same"} /\ q.cut \in BOOLEAN /\ q.ts \in SUBSET Tickets
  BY <1>1 DEF TypeInv, ReqOK, VarsOK, Shape, InBulk, LockInv, Owns, HoldsGroups, RequestRecords
<1>3. PICK p : /\ Set(r, p)
               /\ p = CASE q.sprint = "same" -> Over(q, "done", q.cut)
                        [] q.sprint = None -> [q EXCEPT !.at = "leave"]
                        [] OTHER -> Calls(q, "addTickets", q.sprint, q.ts, "any", "done", "relock")
  BY DEF BulkWritten
<1>4. /\ p \in RequestRecords /\ Shape(p) /\ p.at \notin MustHold /\ ~HoldsGroups(p)
      /\ p = Over(q, "done", q.cut) \/ (p.at \in {"leave", "group"} /\ Like(p, q))
  <2>1. CASE q.sprint = "same"
    <3>1. p = Over(q, "done", q.cut)
      BY <1>3, <2>1, GroupsAssumption
    <3>2. p \in RequestRecords /\ Shape(p) /\ p.at \notin MayHold /\ ~HoldsGroups(p)
      BY <1>2, <3>1, OverIs, OverShape
    <3>3. QED
      BY <3>1, <3>2 DEF MustHold, MayHold
  <2>2. CASE q.sprint = None
    <3>1. p = [q EXCEPT !.at = "leave"] /\ "leave" \in Ats
      BY <1>3, <2>2, GroupsAssumption DEF Ats
    <3>2. /\ p \in RequestRecords
          /\ p.op = q.op /\ p.at = "leave" /\ p.ts = q.ts /\ p.new = q.new /\ p.cut = q.cut
          /\ p.call = q.call /\ p.ok = q.ok /\ p.err = q.err
          /\ p.copy = q.copy /\ p.todo = q.todo /\ p.done = q.done
      BY <1>2, <3>1, AtIs
    <3>3. Shape(p)
      BY <1>2, <3>2 DEF Shape, Singles, InBulk, InSplit, HasNew
    <3>4. QED
      BY <3>2, <3>3 DEF Like, MustHold, HoldsGroups
  <2>3. CASE q.sprint \in Groups
    <3>1. p = Calls(q, "addTickets", q.sprint, q.ts, "any", "done", "relock")
      BY <1>3, <2>3, GroupsAssumption
    <3>2. {"done", "relock"} \subseteq Ats
      BY DEF Ats, Ended, Locking
    <3>3. QED
      BY <1>2, <2>3, <3>1, <3>2, BulkCalls
  <2>4. QED
    BY <1>2, <2>1, <2>2, <2>3
<1>5. /\ docLock' \in [Tickets -> Requests \cup {None}]
      /\ \A t \in Tickets : docLock'[t] = IF docLock[t] = r THEN None ELSE docLock[t]
  BY <1>1, <1>2, Unlocks
<1>6. VarsOK'
  BY <1>1, <1>2, <1>5, Rest DEF LocksOK
<1>7. Mine(r)
  BY <1>1, <1>5 DEF Mine
<1>8. Owns(r, p, groupLock', docLock')
  BY <1>1, <1>2, <1>4, <1>5, OwnsNoTicket, NoneIsNobody, GroupsAssumption
<1>9. TypeInv' /\ Becomes(r, p)
  BY <1>3, <1>4, <1>6, <1>7, <1>8, Assemble
<1>10. QED
  BY <1>1, <1>2, <1>4, <1>7, <1>9 DEF Sprinting

LEMMA LeaveKeeps ==
  ASSUME TypeInv, NEW r \in Requests, LeaveSprint(r)
  PROVE  /\ TypeInv' /\ Mine(r)
         /\ UNCHANGED <<files, groupLock, docLock, plan, history, failures>>
         /\ req[r].at \in {"leave", "left"} /\ req[r].op = "bulkUpdate" /\ Sprinting(r, {"group"})
<1> DEFINE q == req[r]
           rest == IF q.at = "left" THEN q.leave \ {q.call.g} ELSE q.leave
<1>1. /\ q.at \in {"leave", "left"}
      /\ UNCHANGED <<files, groupLock, docLock, plan, history, failures>>
  BY DEF LeaveSprint
<1>2. /\ q \in RequestRecords /\ Shape(q) /\ q.op = "bulkUpdate" /\ q.cut \in BOOLEAN
      /\ q.ts \subseteq Tickets
  BY <1>1 DEF TypeInv, ReqOK, Shape, InBulk, RequestRecords
<1>3. q.at \notin MayHold /\ ~HoldsGroups(q)
  BY <1>1 DEF MayHold, Locking, HoldsGroups
<1>4. rest \in SUBSET Groups
  BY <1>2 DEF RequestRecords
<1>5. CASE rest = {}
  <2>1. Set(r, Over(q, "done", q.cut))
    BY <1>5 DEF LeaveSprint
  <2>2. PICK p : p = Over(q, "done", q.cut)
    OBVIOUS
  <2>3. p \in RequestRecords /\ Shape(p) /\ p.at \notin MayHold /\ ~HoldsGroups(p)
    BY <1>2, <2>2, OverIs, OverShape
  <2>4. p.at \notin MustHold
    BY <2>3 DEF MayHold, MustHold
  <2>5. TypeInv' /\ Mine(r) /\ Becomes(r, p)
    BY <1>1, <1>3, <2>1, <2>2, <2>3, <2>4, FreeKeeps
  <2>6. QED
    BY <1>1, <1>2, <2>2, <2>5 DEF Sprinting
<1>6. ASSUME NEW g \in rest, NEW ts \in SUBSET Tickets,
             Set(r, Calls([q EXCEPT !.leave = rest], "removeTickets", g, ts, "any", "left", "rejoin"))
      PROVE  TypeInv' /\ Mine(r) /\ Sprinting(r, {"group"})
  <2>1. PICK n : n = [q EXCEPT !.leave = rest]
    OBVIOUS
  <2>2. PICK p : p = Calls(n, "removeTickets", g, ts, "any", "left", "rejoin")
    OBVIOUS
  <2>3. Set(r, p)
    BY <1>6, <2>1, <2>2
  <2> HIDE DEF rest
  <2>4. n \in RequestRecords
    BY <1>2, <1>4, <2>1 DEF RequestRecords
  <2>5. n.at = q.at /\ n.call = q.call /\ n.ok = q.ok /\ n.err = q.err /\ Like(n, q)
    BY <1>2, <2>1 DEF RequestRecords, Like
  <2>6. Shape(n)
    BY <1>1, <1>2, <2>5 DEF Shape, Like, Singles, InBulk, InSplit, HasNew
  <2>7. {"left", "rejoin"} \subseteq Ats /\ g \in Groups
    BY <1>4 DEF Ats
  <2>8. /\ p \in RequestRecords /\ Shape(p) /\ p.at = "group" /\ Like(p, n)
        /\ p.at \notin MustHold /\ ~HoldsGroups(p)
    BY <1>2, <2>2, <2>4, <2>5, <2>6, <2>7, BulkCalls DEF Like
  <2>9. TypeInv' /\ Mine(r) /\ Becomes(r, p)
    BY <1>1, <1>3, <2>3, <2>8, FreeKeeps
  <2>10. Like(p, q)
    BY <2>5, <2>8 DEF Like
  <2>11. QED
    BY <2>8, <2>9, <2>10 DEF Sprinting
<1>7. CASE rest # {}
  <2>1. PICK g \in rest :
          Set(r, Calls([q EXCEPT !.leave = rest], "removeTickets", g,
                       {t \in q.ts : <<g, t>> \in q.snap}, "any", "left", "rejoin"))
    BY <1>7 DEF LeaveSprint
  <2>2. {t \in q.ts : <<g, t>> \in q.snap} \in SUBSET Tickets
    BY <1>2
  <2>3. QED
    BY <1>1, <1>2, <1>6, <2>1, <2>2
<1>8. QED
  BY <1>5, <1>7

LEMMA RejoinKeeps ==
  ASSUME TypeInv, NEW r \in Requests, Rejoin(r)
  PROVE  /\ TypeInv' /\ Mine(r)
         /\ UNCHANGED <<files, groupLock, docLock, plan, history, failures>>
         /\ req[r].at \in {"rejoin", "rejoined"} /\ req[r].op = "bulkUpdate"
         /\ Sprinting(r, {"relock", "group"})
<1> DEFINE q == req[r]
           back == IF q.at = "rejoin" THEN {p \in q.snap : p[1] \notin q.leave} ELSE q.snap
<1>1. /\ q.at \in {"rejoin", "rejoined"}
      /\ UNCHANGED <<files, groupLock, docLock, plan, history, failures>>
  BY DEF Rejoin
<1>2. q \in RequestRecords /\ Shape(q) /\ q.op = "bulkUpdate"
  BY <1>1 DEF TypeInv, ReqOK, Shape, InBulk
<1>3. q.at \notin MayHold /\ ~HoldsGroups(q)
  BY <1>1 DEF MayHold, Locking, HoldsGroups
<1>4. back \in SUBSET (Groups \X Tickets)
  BY <1>2 DEF RequestRecords
<1>5. CASE back = {}
  <2>1. Set(r, [q EXCEPT !.at = "relock"])
    BY <1>5 DEF Rejoin, Goto
  <2>2. PICK p : p = [q EXCEPT !.at = "relock"]
    OBVIOUS
  <2>3. "relock" \in Ats
    BY DEF Ats, Locking
  <2>4. /\ p \in RequestRecords
        /\ p.op = q.op /\ p.at = "relock" /\ p.ts = q.ts /\ p.new = q.new /\ p.cut = q.cut
        /\ p.call = q.call /\ p.ok = q.ok /\ p.err = q.err
        /\ p.copy = q.copy /\ p.todo = q.todo /\ p.done = q.done
    BY <1>2, <2>2, <2>3, AtIs
  <2>5. Shape(p)
    BY <1>2, <2>4 DEF Shape, Singles, InBulk, InSplit, HasNew
  <2>6. p.at \notin MustHold /\ ~HoldsGroups(p)
    BY <2>4 DEF HoldsGroups, MustHold
  <2>7. TypeInv' /\ Mine(r) /\ Becomes(r, p)
    BY <1>1, <1>3, <2>1, <2>2, <2>4, <2>5, <2>6, FreeKeeps
  <2>8. QED
    BY <1>1, <1>2, <2>4, <2>7 DEF Sprinting, Like
<1>6. ASSUME NEW x \in back,
             Set(r, Calls([q EXCEPT !.snap = back \ {x}], "set", x[1], {x[2]}, None,
                          "rejoined", "rejoined"))
      PROVE  TypeInv' /\ Mine(r) /\ Sprinting(r, {"relock", "group"})
  <2>1. PICK n : n = [q EXCEPT !.snap = back \ {x}]
    OBVIOUS
  <2>2. PICK p : p = Calls(n, "set", x[1], {x[2]}, None, "rejoined", "rejoined")
    OBVIOUS
  <2>3. Set(r, p)
    BY <1>6, <2>1, <2>2
  <2> HIDE DEF back
  <2>4. n \in RequestRecords
    BY <1>2, <1>4, <2>1 DEF RequestRecords
  <2>5. n.at = q.at /\ n.call = q.call /\ n.ok = q.ok /\ n.err = q.err /\ Like(n, q)
    BY <1>2, <2>1 DEF RequestRecords, Like
  <2>6. Shape(n)
    BY <1>1, <1>2, <2>5 DEF Shape, Like, Singles, InBulk, InSplit, HasNew
  <2>7. x[1] \in Groups /\ {x[2]} \in SUBSET Tickets /\ Single({x[2]}) /\ "rejoined" \in Ats
    BY <1>4 DEF Ats, Single
  <2>8. /\ p \in RequestRecords /\ Shape(p) /\ p.at = "group" /\ Like(p, n)
        /\ p.at \notin MustHold /\ ~HoldsGroups(p)
    BY <1>2, <2>2, <2>4, <2>5, <2>6, <2>7, BulkCalls DEF Like
  <2>9. TypeInv' /\ Mine(r) /\ Becomes(r, p)
    BY <1>1, <1>3, <2>3, <2>8, FreeKeeps
  <2>10. Like(p, q)
    BY <2>5, <2>8 DEF Like
  <2>11. QED
    BY <2>8, <2>9, <2>10 DEF Sprinting
<1>7. CASE back # {}
  <2>1. PICK x \in back :
          Set(r, Calls([q EXCEPT !.snap = back \ {x}], "set", x[1], {x[2]}, None,
                       "rejoined", "rejoined"))
    BY <1>7 DEF Rejoin
  <2>2. QED
    BY <1>1, <1>2, <1>6, <2>1
<1>8. QED
  BY <1>5, <1>7

LEMMA RevertKeeps ==
  ASSUME TypeInv, NEW r \in Requests, Revert(r)
  PROVE  /\ TypeInv' /\ Mine(r) /\ UNCHANGED <<born, group, history>>
         /\ req[r].at = "revert" /\ req[r].op = "bulkUpdate"
         /\ \/ /\ req[r].done = {} /\ UNCHANGED <<file, text>> /\ Ends(r, "failed", req[r].cut)
            \/ \E t \in Tickets, p \in RequestRecords, fails \in BOOLEAN :
                 /\ UNCHANGED <<groupLock, docLock, plan>> /\ Becomes(r, p)
                 /\ t \in req[r].done /\ docLock[t] = r
                 /\ \/ Held(t) /\ ~fails /\ Stored(t, text[t] \ {r})
                    \/ (~Held(t) \/ fails) /\ UNCHANGED <<file, text>>
                 /\ p.at = "revert" /\ p.done = req[r].done \ {t} /\ p.cut = (req[r].cut \/ fails)
                 /\ p.op = req[r].op /\ p.ts = req[r].ts /\ p.new = req[r].new
                 /\ p.todo = req[r].todo /\ p.copy = req[r].copy
<1> DEFINE q == req[r]
<1>1. q.at = "revert" /\ UNCHANGED <<born, group, history>>
  BY DEF Revert, At
<1>2. /\ q \in RequestRecords /\ Shape(q) /\ Owns(r, q, groupLock, docLock) /\ FilesOK
      /\ q.cut \in BOOLEAN
  BY DEF TypeInv, ReqOK, LockInv, VarsOK, RequestRecords
<1>3. q.op = "bulkUpdate"
  BY <1>1, <1>2 DEF Shape, InBulk
<1>4. CASE q.done = {}
  <2>1. UNCHANGED <<file, text, failures>> /\ End(r, "failed", q.cut)
    BY <1>4 DEF Revert, ToRevert
  <2>2. FilesOK' /\ PastOK'
    BY <1>1, <1>2, <2>1 DEF TypeInv, VarsOK, FilesOK, PastOK, history
  <2>3. QED
    BY <1>1, <1>2, <1>3, <1>4, <2>1, <2>2, EndKeeps DEF Ends
<1>5. CASE q.done # {}
  <2>1. PICK t \in q.done, fails \in BOOLEAN :
          /\ Set(r, [q EXCEPT !.done = q.done \ {t}, !.cut = q.cut \/ fails])
          /\ IF fails THEN Fails ELSE UNCHANGED failures
          /\ IF Held(t) /\ ~fails THEN Stored(t, text[t] \ {r}) ELSE UNCHANGED <<file, text>>
    BY <1>5 DEF Revert, ToRevert
  <2>2. UNCHANGED <<groupLock, docLock, plan>>
    BY <1>5 DEF Revert, ToRevert
  <2>3. t \in Tickets /\ t \in q.ts /\ docLock[t] = r
    BY <1>1, <1>2 DEF Shape, RequestRecords, Owns, MustHold
  <2>4. text[t] \ {r} \in SUBSET Requests
    BY <1>2, <2>3 DEF FilesOK
  <2>5. FilesOK'
    BY <1>1, <1>2, <2>1, <2>3, <2>4, StoredIs DEF FilesOK
  <2>6. PastOK'
    BY <1>1, <2>1, FailsTyped DEF TypeInv, VarsOK, PastOK, history
  <2>7. PICK cut \in BOOLEAN : cut = (q.cut \/ fails)
    OBVIOUS
  <2>8. PICK p : p = [q EXCEPT !.done = q.done \ {t}, !.cut = cut]
    OBVIOUS
  <2>9. Set(r, p)
    BY <2>1, <2>7, <2>8
  <2>10. p \in RequestRecords
    BY <1>2, <2>8 DEF RequestRecords
  <2>11. /\ p.op = q.op /\ p.at = q.at /\ p.ts = q.ts /\ p.new = q.new /\ p.cut = cut
         /\ p.copy = q.copy /\ p.todo = q.todo /\ p.done = q.done \ {t}
    BY <1>2, <2>8 DEF RequestRecords
  <2>12. Shape(p)
    BY <1>1, <1>2, <1>3, <2>11 DEF Shape, Singles, InBulk, InSplit, HasNew
  <2>13. /\ HoldsGroups(p) <=> HoldsGroups(q)
         /\ p.at \in MayHold \ Locking /\ q.at \in MustHold
    BY <1>1, <2>11 DEF HoldsGroups, MayHold, MustHold, Locking
  <2>14. TypeInv' /\ Mine(r) /\ Becomes(r, p)
    BY <2>2, <2>5, <2>6, <2>9, <2>10, <2>11, <2>12, <2>13, HoldingKeeps
  <2>15. \/ Held(t) /\ ~fails /\ Stored(t, text[t] \ {r})
         \/ (~Held(t) \/ fails) /\ UNCHANGED <<file, text>>
    BY <2>1
  <2>16. p.cut = (q.cut \/ fails)
    BY <2>7, <2>11
  <2>17. QED
    BY <1>1, <1>3, <2>2, <2>3, <2>10, <2>11, <2>14, <2>15, <2>16
<1>6. QED
  BY <1>4, <1>5

-------------------------------------------------------------------------------
(* Splits.                                                                   *)

SetGoesOn(ok, err) ==
  \/ ok \in {"assign", "recording"} /\ err = "undo"
  \/ ok \in {"undo old", "discard"} /\ err = ok

SetCalled(p, q, ts, ok, err) ==
  /\ p \in RequestRecords
  /\ p.op = q.op /\ p.at = "group" /\ p.ts = q.ts /\ p.new = q.new /\ p.cut = q.cut
  /\ p.call.name = "set" /\ p.call.ts = ts
  /\ p.ok = ok /\ p.err = err /\ p.copy = q.copy /\ p.todo = q.todo /\ p.done = q.done
  /\ p.sprint = q.sprint

LEMMA SetCallIs ==
  ASSUME NEW q \in RequestRecords, NEW g \in Groups \cup {None}, NEW ts \in SUBSET Tickets,
         NEW from \in Groups \cup {None, "any"}, NEW ok \in Ats, NEW err \in Ats
  PROVE  SetCalled(Calls(q, "set", g, ts, from, ok, err), q, ts, ok, err)
<1> DEFINE c == [name |-> "set", g |-> g, ts |-> ts, from |-> from]
           p == Calls(q, "set", g, ts, from, ok, err)
<1>1. c \in CallRecords /\ "group" \in Ats /\ c.name = "set" /\ c.ts = ts
  BY DEF CallRecords, CallNames, Ats
<1>2. p = [q EXCEPT !.at = "group", !.call = c, !.ok = ok, !.err = err]
  BY DEF Calls
<1> HIDE DEF c, p
<1>3. p \in RequestRecords
  BY <1>1, <1>2 DEF RequestRecords
<1>4. /\ p.op = q.op /\ p.at = "group" /\ p.ts = q.ts /\ p.new = q.new /\ p.cut = q.cut
      /\ p.call = c /\ p.ok = ok /\ p.err = err
      /\ p.copy = q.copy /\ p.todo = q.todo /\ p.done = q.done /\ p.sprint = q.sprint
  BY <1>1, <1>2 DEF RequestRecords
<1>5. SetCalled(p, q, ts, ok, err)
  BY <1>1, <1>3, <1>4 DEF SetCalled
<1>6. QED
  BY <1>5 DEF p

\* A split that asks for a sprint, on its way or on its way back.
Asks(p, q) ==
  /\ p \in RequestRecords /\ Shape(p) /\ p.at = "group" /\ Like(p, q)
  /\ p.at \notin MustHold /\ ~HoldsGroups(p)

LEMMA SplitCalls ==
  ASSUME NEW q \in RequestRecords, Shape(q), q.op = "split", q.new \in Tickets,
         NEW g \in Groups \cup {None}, NEW ts \in SUBSET Tickets, Single(ts),
         NEW from \in Groups \cup {None, "any"}, NEW ok \in Ats, NEW err \in Ats,
         SetGoesOn(ok, err)
  PROVE  Asks(Calls(q, "set", g, ts, from, ok, err), q)
<1> DEFINE p == Calls(q, "set", g, ts, from, ok, err)
<1>1. SetCalled(p, q, ts, ok, err)
  BY SetCallIs
<1> HIDE DEF p
<1>2. /\ p \in RequestRecords
      /\ p.op = q.op /\ p.at = "group" /\ p.ts = q.ts /\ p.new = q.new /\ p.cut = q.cut
      /\ p.call.name = "set" /\ p.call.ts = ts
      /\ p.ok = ok /\ p.err = err /\ p.copy = q.copy /\ p.todo = q.todo /\ p.done = q.done
      /\ p.sprint = q.sprint
  BY <1>1 DEF SetCalled
<1>3. Onward(p)
  BY <1>2 DEF Onward, SetGoesOn
<1>4. Calling1(p)
  BY <1>2, <1>3 DEF Calling1, OnGroup
<1>5. Shape(p)
  BY <1>2, <1>4 DEF Shape, InBulk, InSplit, HasNew
<1>6. p.at \notin MustHold /\ ~HoldsGroups(p)
  BY <1>2 DEF MustHold, HoldsGroups
<1>7. Asks(p, q)
  BY <1>2, <1>5, <1>6 DEF Asks, Like
<1>8. QED
  BY <1>7 DEF p

LEMMA ReadSplitKeeps ==
  ASSUME TypeInv, NEW r \in Requests, ReadSplit(r)
  PROVE  /\ TypeInv' /\ Mine(r) /\ UNCHANGED <<files, history, failures>>
         /\ req[r].at = "read" /\ req[r].op = "split"
         /\ \/ Ends(r, "failed", FALSE)
            \/ \E t \in file, p \in RequestRecords :
                 /\ UNCHANGED <<groupLock, docLock, plan>> /\ Becomes(r, p)
                 /\ p.at = "birth" /\ req[r].ts = {t}
                 /\ p.op = req[r].op /\ p.ts = req[r].ts /\ p.new = req[r].new /\ p.cut = req[r].cut
                 /\ p.todo = req[r].todo /\ p.done = req[r].done /\ p.copy[t] = text[t]
<1> DEFINE q == req[r]
<1>1. q.at = "read" /\ q.op = "split" /\ UNCHANGED <<files, history, failures>>
  BY DEF ReadSplit, At
<1>2. PICK t \in q.ts :
        IF Held(t)
        THEN /\ Set(r, [q EXCEPT !.at = "birth", !.copy[t] = text[t]])
             /\ UNCHANGED <<groupLock, docLock, plan>>
        ELSE End(r, "failed", FALSE)
  BY DEF ReadSplit
<1>3. q \in RequestRecords /\ Shape(q) /\ FilesOK /\ FilesOK' /\ PastOK'
  BY <1>1 DEF TypeInv, ReqOK, VarsOK, FilesOK, PastOK, files, history
<1>4. CASE ~Held(t)
  <2>1. End(r, "failed", FALSE)
    BY <1>2, <1>4
  <2>2. QED
    BY <1>1, <1>3, <2>1, EndKeeps DEF Ends
<1>5. CASE Held(t)
  <2>1. q.ts = {t} /\ t \in Tickets /\ t \in file
    BY <1>1, <1>3, <1>5 DEF Shape, Singles, Single, Held
  <2>2. PICK d : d = [q.copy EXCEPT ![t] = text[t]]
    OBVIOUS
  <2>3. PICK p : p = [q EXCEPT !.at = "birth", !.copy = d]
    OBVIOUS
  <2>4. Set(r, p) /\ UNCHANGED <<groupLock, docLock, plan>>
    BY <1>2, <1>3, <1>5, <2>2, <2>3 DEF RequestRecords
  <2>5. d \in [Tickets -> SUBSET Requests] /\ d[t] = text[t] /\ "birth" \in Ats
    BY <1>3, <2>1, <2>2 DEF FilesOK, RequestRecords, Ats
  <2>6. p \in RequestRecords
    BY <1>3, <2>3, <2>5 DEF RequestRecords
  <2>7. /\ p.op = q.op /\ p.at = "birth" /\ p.ts = q.ts /\ p.new = q.new /\ p.cut = q.cut
        /\ p.call = q.call /\ p.ok = q.ok /\ p.err = q.err
        /\ p.copy = d /\ p.todo = q.todo /\ p.done = q.done /\ p.sprint = q.sprint
    BY <1>3, <2>3 DEF RequestRecords
  <2>8. Shape(p)
    BY <1>1, <1>3, <2>7 DEF Shape, InBulk, InSplit, HasNew
  <2>9. /\ HoldsGroups(p) <=> HoldsGroups(q)
        /\ p.at \in MayHold \ Locking /\ q.at \in MustHold
    BY <1>1, <2>7 DEF HoldsGroups, MayHold, MustHold, Locking
  <2>10. TypeInv' /\ Mine(r) /\ Becomes(r, p)
    BY <1>3, <2>4, <2>6, <2>7, <2>8, <2>9, HoldingKeeps
  <2>11. QED
    BY <1>1, <2>1, <2>4, <2>5, <2>6, <2>7, <2>10
<1>6. QED
  BY <1>4, <1>5

LEMMA WriteNewKeeps ==
  ASSUME TypeInv, NEW r \in Requests, WriteNew(r)
  PROVE  /\ TypeInv' /\ Mine(r)
         /\ UNCHANGED <<group, groupLock, docLock, plan, history, failures>>
         /\ req[r].at = "birth" /\ req[r].op = "split"
         /\ \E n \in Tickets \ born, p \in RequestRecords :
              /\ Stored(n, {r}) /\ born' = born \cup {n} /\ Becomes(r, p)
              /\ p.at = "retain" /\ p.new = n /\ p.op = req[r].op /\ p.ts = req[r].ts
              /\ p.cut = req[r].cut /\ p.copy = req[r].copy
              /\ p.todo = req[r].todo /\ p.done = req[r].done
<1> DEFINE q == req[r]
<1>1. q.at = "birth" /\ UNCHANGED <<group, groupLock, docLock, plan, history, failures>>
  BY DEF WriteNew, At
<1>2. PICK n \in Tickets \ born :
        /\ Stored(n, {r}) /\ born' = born \cup {n}
        /\ Set(r, [q EXCEPT !.at = "retain", !.new = n])
  BY DEF WriteNew
<1>3. q \in RequestRecords /\ Shape(q) /\ FilesOK /\ PastOK'
  BY <1>1 DEF TypeInv, ReqOK, VarsOK, PastOK, history
<1>4. q.op = "split" /\ {r} \in SUBSET Requests
  BY <1>1, <1>3 DEF Shape, InSplit
<1>5. FilesOK'
  BY <1>1, <1>2, <1>3, <1>4, StoredIs DEF FilesOK
<1>6. PICK p : p = [q EXCEPT !.at = "retain", !.new = n] /\ "retain" \in Ats
  BY DEF Ats
<1>7. p \in RequestRecords
  BY <1>3, <1>6 DEF RequestRecords
<1>8. /\ p.op = q.op /\ p.at = "retain" /\ p.ts = q.ts /\ p.new = n /\ p.cut = q.cut
      /\ p.copy = q.copy /\ p.todo = q.todo /\ p.done = q.done /\ p.sprint = q.sprint
  BY <1>3, <1>6 DEF RequestRecords
<1>9. Shape(p)
  BY <1>1, <1>3, <1>4, <1>8 DEF Shape, InBulk, InSplit, HasNew
<1>10. /\ HoldsGroups(p) <=> HoldsGroups(q)
       /\ p.at \in MayHold \ Locking /\ q.at \in MustHold
  BY <1>1, <1>8 DEF HoldsGroups, MayHold, MustHold, Locking
<1>11. TypeInv' /\ Mine(r) /\ Becomes(r, p)
  BY <1>1, <1>2, <1>3, <1>5, <1>6, <1>7, <1>8, <1>9, <1>10, HoldingKeeps
<1>12. QED
  BY <1>1, <1>2, <1>4, <1>7, <1>8, <1>11

LEMMA RetainKeeps ==
  ASSUME TypeInv, NEW r \in Requests, Retain(r)
  PROVE  /\ TypeInv' /\ Mine(r) /\ UNCHANGED <<born, group, groupLock, plan, history, failures>>
         /\ req[r].at = "retain" /\ req[r].op = "split"
         /\ \E t \in Tickets : req[r].ts = {t} /\ Stored(t, text[t] \cup {r}) /\ docLock[t] = r
         /\ \E p \in RequestRecords :
              Becomes(r, p) /\ p.at \in {"group", "assign"} /\ Like(p, req[r])
<1> DEFINE q == req[r]
<1>1. /\ q.at = "retain" /\ docLock' = Unlocked(r)
      /\ UNCHANGED <<born, group, groupLock, plan, history, failures>>
  BY DEF Retain, At
<1>2. PICK t \in q.ts : Stored(t, text[t] \cup {r})
  BY DEF Retain
<1>3. /\ q \in RequestRecords /\ Shape(q) /\ Owns(r, q, groupLock, docLock) /\ FilesOK /\ LocksOK
      /\ PastOK' /\ q.sprint \in Groups \cup {None, "same"} /\ q.from \in Groups \cup {None}
      /\ q.ts \in SUBSET Tickets
  BY <1>1 DEF TypeInv, ReqOK, LockInv, VarsOK, PastOK, history, RequestRecords
<1>4. /\ q.op = "split" /\ q.ts = {t} /\ t \in Tickets /\ docLock[t] = r /\ q.new \in Tickets
      /\ groupLock # r /\ Single(q.ts)
  BY <1>1, <1>2, <1>3 DEF Shape, Singles, Single, InSplit, HasNew, Owns, MustHold, HoldsGroups
<1>5. FilesOK'
  <2>1. text[t] \cup {r} \in SUBSET Requests
    BY <1>3, <1>4 DEF FilesOK
  <2>2. QED
    BY <1>1, <1>2, <1>3, <1>4, <2>1, StoredIs DEF FilesOK
<1>6. PICK p : /\ Set(r, p)
               /\ p = IF Moves(q) THEN Calls(q, "set", q.sprint, q.ts, q.from, "assign", "undo")
                      ELSE [q EXCEPT !.at = "assign"]
  BY DEF Retain
<1>7. /\ p \in RequestRecords /\ Shape(p) /\ p.at \in {"group", "assign"} /\ Like(p, q)
      /\ p.at \notin MustHold /\ ~HoldsGroups(p)
  <2>1. {"assign", "undo"} \subseteq Ats /\ SetGoesOn("assign", "undo")
    BY DEF Ats, SetGoesOn
  <2>2. CASE Moves(q)
    <3>1. q.sprint \in Groups \cup {None} /\ q.from \in Groups \cup {None, "any"}
      BY <1>3, <1>4 DEF Shape
    <3>2. p = Calls(q, "set", q.sprint, q.ts, q.from, "assign", "undo")
      BY <1>6, <2>2
    <3>3. Asks(p, q)
      BY <1>3, <1>4, <2>1, <3>1, <3>2, SplitCalls
    <3>4. QED
      BY <3>3 DEF Asks
  <2>3. CASE ~Moves(q)
    <3>1. p = [q EXCEPT !.at = "assign"]
      BY <1>6, <2>3
    <3>2. /\ p \in RequestRecords
          /\ p.op = q.op /\ p.at = "assign" /\ p.ts = q.ts /\ p.new = q.new /\ p.cut = q.cut
          /\ p.call = q.call /\ p.ok = q.ok /\ p.err = q.err
          /\ p.copy = q.copy /\ p.todo = q.todo /\ p.done = q.done /\ p.sprint = q.sprint
      BY <1>3, <2>1, <3>1, AtIs
    <3>3. Shape(p)
      BY <1>3, <1>4, <3>2 DEF Shape, InBulk, InSplit, HasNew
    <3>4. QED
      BY <3>2, <3>3 DEF Like, MustHold, HoldsGroups
  <2>4. QED
    BY <2>2, <2>3
<1>8. /\ docLock' \in [Tickets -> Requests \cup {None}]
      /\ \A u \in Tickets : docLock'[u] = IF docLock[u] = r THEN None ELSE docLock[u]
  BY <1>1, <1>3, Unlocks
<1>9. VarsOK'
  BY <1>1, <1>3, <1>5, <1>8 DEF VarsOK, LocksOK
<1>10. Mine(r)
  BY <1>1, <1>8 DEF Mine
<1>11. Owns(r, p, groupLock', docLock')
  BY <1>1, <1>4, <1>7, <1>8, OwnsNoTicket, NoneIsNobody, GroupsAssumption
<1>12. TypeInv' /\ Becomes(r, p)
  BY <1>6, <1>7, <1>9, <1>10, <1>11, Assemble
<1>13. QED
  BY <1>1, <1>2, <1>4, <1>7, <1>10, <1>12

LEMMA SplitFailsKeeps ==
  ASSUME TypeInv, NEW r \in Requests, SplitFails(r)
  PROVE  /\ TypeInv' /\ Mine(r) /\ UNCHANGED <<files, groupLock, docLock, plan, history>>
         /\ req[r].at \in {"birth", "retain"} /\ req[r].op = "split"
         /\ \E p \in RequestRecords : Becomes(r, p) /\ p.at = "discard" /\ Like(p, req[r])
<1> DEFINE q == req[r]
           p == [q EXCEPT !.at = "discard"]
<1>1. /\ q.at \in {"birth", "retain"} /\ UNCHANGED <<files, groupLock, docLock, plan, history>>
      /\ Set(r, p) /\ Fails
  BY DEF SplitFails, At, Goto
<1>2. q \in RequestRecords /\ Shape(q) /\ FilesOK' /\ PastOK'
  BY <1>1, FailsTyped DEF TypeInv, ReqOK, VarsOK, FilesOK, PastOK, files, history
<1>3. "discard" \in Ats
  BY DEF Ats
<1>4. /\ p \in RequestRecords
      /\ p.op = q.op /\ p.at = "discard" /\ p.ts = q.ts /\ p.new = q.new /\ p.cut = q.cut
      /\ p.call = q.call /\ p.ok = q.ok /\ p.err = q.err
      /\ p.copy = q.copy /\ p.todo = q.todo /\ p.done = q.done /\ p.sprint = q.sprint
  BY <1>2, <1>3, AtIs
<1> HIDE DEF p
<1>5. q.op = "split"
  BY <1>1, <1>2 DEF Shape, InSplit
<1>6. Shape(p)
  BY <1>1, <1>2, <1>4, <1>5 DEF Shape, InBulk, InSplit, HasNew
<1>7. /\ HoldsGroups(p) <=> HoldsGroups(q)
      /\ p.at \in MayHold \ Locking /\ q.at \in MustHold
  BY <1>1, <1>4 DEF HoldsGroups, MayHold, MustHold, Locking
<1>8. TypeInv' /\ Mine(r) /\ Becomes(r, p)
  BY <1>1, <1>2, <1>4, <1>6, <1>7, HoldingKeeps
<1>9. QED
  BY <1>1, <1>4, <1>5, <1>8 DEF Like

LEMMA AssignKeeps ==
  ASSUME TypeInv, NEW r \in Requests, AssignNew(r)
  PROVE  /\ TypeInv' /\ Mine(r)
         /\ UNCHANGED <<files, groupLock, docLock, plan, history, failures>>
         /\ req[r].at = "assign" /\ req[r].op = "split"
         /\ \E p : Becomes(r, p) /\ Asks(p, req[r])
<1> DEFINE q == req[r]
<1>1. /\ q.at = "assign" /\ UNCHANGED <<files, groupLock, docLock, plan, history, failures>>
      /\ Set(r, Calls(q, "set", q.newSprint, {q.new}, None, "recording", "undo"))
  BY DEF AssignNew, At
<1>2. /\ q \in RequestRecords /\ Shape(q) /\ q.op = "split" /\ q.new \in Tickets
      /\ q.newSprint \in Groups \cup {None}
  BY <1>1 DEF TypeInv, ReqOK, RequestRecords, Shape, InSplit, HasNew
<1>3. q.at \notin MayHold /\ ~HoldsGroups(q)
  BY <1>1 DEF MayHold, Locking, HoldsGroups
<1>4. /\ {"recording", "undo"} \subseteq Ats /\ SetGoesOn("recording", "undo")
      /\ {q.new} \in SUBSET Tickets /\ Single({q.new})
  BY <1>2 DEF Ats, Locking, SetGoesOn, Single
<1>5. PICK p : p = Calls(q, "set", q.newSprint, {q.new}, None, "recording", "undo") /\ Asks(p, q)
  BY <1>2, <1>4, SplitCalls
<1>6. TypeInv' /\ Mine(r) /\ Becomes(r, p)
  BY <1>1, <1>3, <1>5, FreeKeeps DEF Asks
<1>7. QED
  BY <1>1, <1>2, <1>5, <1>6

LEMMA RecordKeeps ==
  ASSUME TypeInv, NEW r \in Requests, Record(r)
  PROVE  /\ TypeInv' /\ Mine(r) /\ UNCHANGED <<files, history, failures>>
         /\ req[r].at = "record" /\ req[r].op = "split" /\ Ends(r, "done", FALSE)
<1>1. req[r].at = "record" /\ UNCHANGED <<files, history, failures>> /\ End(r, "done", FALSE)
  BY DEF Record, At
<1>2. FilesOK' /\ PastOK' /\ Shape(req[r])
  BY <1>1 DEF TypeInv, ReqOK, VarsOK, FilesOK, PastOK, files, history
<1>3. req[r].op = "split"
  BY <1>1, <1>2 DEF Shape, InSplit
<1>4. QED
  BY <1>1, <1>2, <1>3, EndKeeps DEF Ends

LEMMA UndoKeeps ==
  ASSUME TypeInv, NEW r \in Requests, UndoSprints(r)
  PROVE  /\ TypeInv' /\ Mine(r)
         /\ UNCHANGED <<files, groupLock, docLock, plan, history, failures>>
         /\ req[r].at \in {"undo", "undo old"} /\ req[r].op = "split"
         /\ \E p : Becomes(r, p) /\ Asks(p, req[r])
<1> DEFINE q == req[r]
<1>1. /\ q.at \in {"undo", "undo old"}
      /\ UNCHANGED <<files, groupLock, docLock, plan, history, failures>>
  BY DEF UndoSprints, At
<1>2. /\ q \in RequestRecords /\ Shape(q) /\ q.op = "split" /\ q.new \in Tickets
      /\ q.from \in Groups \cup {None} /\ q.ts \in SUBSET Tickets /\ Single(q.ts)
  BY <1>1 DEF TypeInv, ReqOK, RequestRecords, Shape, Singles, InSplit, HasNew
<1>3. q.at \notin MayHold /\ ~HoldsGroups(q)
  BY <1>1 DEF MayHold, Locking, HoldsGroups
<1>4. /\ {"undo old", "discard"} \subseteq Ats
      /\ SetGoesOn("undo old", "undo old") /\ SetGoesOn("discard", "discard")
      /\ {q.new} \in SUBSET Tickets /\ Single({q.new})
  BY <1>2 DEF Ats, Locking, SetGoesOn, Single
<1>5. \E p : Set(r, p) /\ Asks(p, q)
  <2>1. CASE q.at = "undo"
    <3>1. PICK then \in {"undo old", "discard"} :
            Set(r, Calls(q, "set", None, {q.new}, "any", then, then))
      BY <2>1 DEF UndoSprints, At
    <3>2. Asks(Calls(q, "set", None, {q.new}, "any", then, then), q)
      BY <1>2, <1>4, SplitCalls
    <3>3. QED
      BY <3>1, <3>2
  <2>2. CASE q.at = "undo old"
    <3>1. Set(r, Calls(q, "set", q.from, q.ts, "any", "discard", "discard"))
      BY <2>2 DEF UndoSprints, At
    <3>2. Asks(Calls(q, "set", q.from, q.ts, "any", "discard", "discard"), q)
      BY <1>2, <1>4, SplitCalls
    <3>3. QED
      BY <3>1, <3>2
  <2>3. QED
    BY <1>1, <2>1, <2>2
<1>6. PICK p : Set(r, p) /\ Asks(p, q)
  BY <1>5
<1>7. TypeInv' /\ Mine(r) /\ Becomes(r, p)
  BY <1>1, <1>3, <1>6, FreeKeeps DEF Asks
<1>8. QED
  BY <1>1, <1>2, <1>6, <1>7

InLists(n) == \E g \in Groups : n \in group[g].has \cup plan.to[g].has \cup plan.back[g].has

LEMMA DiscardKeeps ==
  ASSUME TypeInv, NEW r \in Requests, NEW fails \in BOOLEAN, Discard(r, fails)
  PROVE  /\ TypeInv' /\ Mine(r) /\ UNCHANGED <<born, group, groupLock, docLock, plan, torn, relisted>>
         /\ req[r].at = "discard" /\ req[r].op = "split"
         /\ req[r].new # None => ~Writing(req[r].new)
         /\ \/ /\ req[r].new = None \/ fails
               /\ UNCHANGED <<file, text, haunted, overwritten>>
            \/ /\ req[r].new \in Tickets /\ ~fails /\ Deleted(req[r].new)
               /\ haunted' = (IF InLists(req[r].new) THEN haunted \cup {req[r].new} ELSE haunted)
               /\ overwritten' = (IF docLock[req[r].new] = None THEN overwritten
                                  ELSE overwritten \cup {req[r].new})
         /\ \E p \in RequestRecords :
              /\ Becomes(r, p) /\ p.at = "restore" /\ p.cut = (req[r].cut \/ fails)
              /\ p.op = req[r].op /\ p.ts = req[r].ts /\ p.new = req[r].new
              /\ p.copy = req[r].copy /\ p.todo = req[r].todo /\ p.done = req[r].done
<1> DEFINE q == req[r]
           n == q.new
<1>1. /\ q.at = "discard" /\ UNCHANGED <<born, group, groupLock, docLock, plan, torn, relisted>>
      /\ (n # None => ~Writing(n)) /\ Set(r, [q EXCEPT !.at = "restore", !.cut = q.cut \/ fails])
      /\ IF fails THEN Fails ELSE UNCHANGED failures
  BY DEF Discard, At
<1>2. /\ q \in RequestRecords /\ Shape(q) /\ FilesOK /\ PastOK /\ q.cut \in BOOLEAN
      /\ n \in Tickets \cup {None}
  BY DEF TypeInv, ReqOK, VarsOK, RequestRecords
<1>3. q.op = "split"
  BY <1>1, <1>2 DEF Shape, InSplit
<1>4. \/ (n = None \/ fails) /\ UNCHANGED <<file, text, haunted, overwritten>>
      \/ /\ n \in Tickets /\ ~fails /\ Deleted(n)
         /\ haunted' = (IF InLists(n) THEN haunted \cup {n} ELSE haunted)
         /\ overwritten' = (IF docLock[n] = None THEN overwritten ELSE overwritten \cup {n})
  BY <1>2 DEF Discard, InLists
<1>5. FilesOK'
  <2>1. file' \subseteq Tickets /\ text' \in [Tickets -> SUBSET Requests]
    BY <1>2, <1>4, DeletedIs DEF FilesOK
  <2>2. QED
    BY <1>1, <1>2, <2>1 DEF FilesOK
<1>6. PastOK'
  <2>1. haunted' \subseteq Tickets /\ overwritten' \subseteq Tickets /\ torn' \subseteq Tickets
    BY <1>1, <1>2, <1>4 DEF PastOK
  <2>2. QED
    BY <1>1, <1>2, <2>1, FailsTyped DEF PastOK
<1>7. PICK cut \in BOOLEAN : cut = (q.cut \/ fails)
  OBVIOUS
<1>8. PICK p : p = [q EXCEPT !.at = "restore", !.cut = cut]
  OBVIOUS
<1>9. Set(r, p) /\ "restore" \in Ats
  BY <1>1, <1>7, <1>8 DEF Ats
<1>10. p \in RequestRecords
  BY <1>2, <1>8, <1>9 DEF RequestRecords
<1>11. /\ p.op = q.op /\ p.at = "restore" /\ p.ts = q.ts /\ p.new = q.new /\ p.cut = cut
       /\ p.copy = q.copy /\ p.todo = q.todo /\ p.done = q.done /\ p.sprint = q.sprint
  BY <1>2, <1>8 DEF RequestRecords
<1>12. Shape(p)
  BY <1>1, <1>2, <1>3, <1>11 DEF Shape, InBulk, InSplit, HasNew
<1>13. /\ HoldsGroups(p) <=> HoldsGroups(q)
       /\ p.at \in MayHold \ Locking /\ p.at \notin MustHold
  BY <1>1, <1>11 DEF HoldsGroups, MayHold, MustHold, Locking
<1>14. TypeInv' /\ Mine(r) /\ Becomes(r, p)
  BY <1>1, <1>5, <1>6, <1>9, <1>10, <1>11, <1>12, <1>13, HoldingKeeps
<1>15. p.cut = (q.cut \/ fails)
  BY <1>7, <1>11
<1> HIDE DEF n
<1>16. QED
  BY <1>1, <1>3, <1>4, <1>10, <1>11, <1>14, <1>15 DEF n

LEMMA RestoreKeeps ==
  ASSUME TypeInv, NEW r \in Requests, NEW fails \in BOOLEAN, Restore(r, fails)
  PROVE  /\ TypeInv' /\ Mine(r) /\ UNCHANGED <<born, group, torn, relisted, haunted>>
         /\ req[r].at = "restore" /\ req[r].op = "split"
         /\ \E t \in Tickets :
              /\ req[r].ts = {t}
              /\ \/ ~fails /\ Stored(t, req[r].copy[t])
                 \/ fails /\ UNCHANGED <<file, text>>
              /\ overwritten' = IF docLock[t] = r THEN overwritten ELSE overwritten \cup {t}
         /\ \E cut \in BOOLEAN : cut = (req[r].cut \/ fails) /\ Ends(r, "failed", cut)
<1> DEFINE q == req[r]
<1>1. /\ q.at = "restore" /\ UNCHANGED <<born, group, torn, relisted, haunted>>
      /\ IF fails THEN Fails ELSE UNCHANGED failures
      /\ End(r, "failed", q.cut \/ fails)
  BY DEF Restore, At
<1>2. PICK t \in q.ts :
        /\ IF fails THEN UNCHANGED <<file, text>> ELSE Stored(t, q.copy[t])
        /\ overwritten' = IF docLock[t] = r THEN overwritten ELSE overwritten \cup {t}
  BY DEF Restore
<1>3. /\ q \in RequestRecords /\ Shape(q) /\ FilesOK /\ PastOK /\ q.cut \in BOOLEAN
      /\ q.ts \in SUBSET Tickets
  BY DEF TypeInv, ReqOK, VarsOK, RequestRecords
<1>4. q.op = "split" /\ q.ts = {t} /\ t \in Tickets
  BY <1>1, <1>2, <1>3 DEF Shape, Singles, Single, InSplit
<1>5. q.copy[t] \in SUBSET Requests
  BY <1>3, <1>4 DEF RequestRecords
<1>6. FilesOK'
  <2>1. file' \subseteq Tickets /\ text' \in [Tickets -> SUBSET Requests]
    BY <1>2, <1>3, <1>4, <1>5, StoredIs DEF FilesOK
  <2>2. QED
    BY <1>1, <1>3, <2>1 DEF FilesOK
<1>7. PastOK'
  BY <1>1, <1>2, <1>3, <1>4, FailsTyped DEF PastOK
<1>8. PICK cut \in BOOLEAN : cut = (q.cut \/ fails)
  OBVIOUS
<1>9. TypeInv' /\ Mine(r) /\ Ends(r, "failed", cut)
  BY <1>1, <1>6, <1>7, <1>8, EndKeeps DEF Ends
<1>10. QED
  BY <1>1, <1>2, <1>4, <1>8, <1>9

-------------------------------------------------------------------------------
(* The end of the process, and type correctness.                             *)

Parted(r) == /\ req[r].at = "write"
             /\ req[r].call.name \in {"complete", "set", "create", "uncreate"}

LEMMA CrashKeeps ==
  ASSUME TypeInv, Crash
  PROVE  /\ TypeInv' /\ UNCHANGED <<files, relisted, haunted, overwritten>>
         /\ groupLock' = None /\ plan' = NoPlan
         /\ \A r \in Requests :
              req'[r] = IF req[r].at \in Ended THEN req[r] ELSE Over(req[r], "failed", TRUE)
         /\ torn \subseteq torn' /\ \A r \in Requests : Parted(r) => req[r].call.ts \subseteq torn'
<1>1. /\ UNCHANGED <<files, relisted, haunted, overwritten>> /\ groupLock' = None /\ plan' = NoPlan
      /\ docLock' = [t \in Tickets |-> None] /\ Fails
      /\ req' = [r \in Requests |-> IF req[r].at \in Ended THEN req[r]
                                    ELSE Over(req[r], "failed", TRUE)]
  BY DEF Crash
<1>2. torn' = torn \cup UNION {req[r].call.ts : r \in {r \in Requests : Parted(r)}}
  BY DEF Crash, Parted, At
<1>3. \A r \in Requests : req[r] \in RequestRecords /\ Shape(req[r]) /\ req[r].call.ts \subseteq Tickets
  BY DEF TypeInv, ReqOK, RequestRecords, CallRecords
<1>4. torn' \subseteq Tickets /\ torn \subseteq torn'
      /\ \A r \in Requests : Parted(r) => req[r].call.ts \subseteq torn'
  BY <1>2, <1>3 DEF TypeInv, VarsOK, PastOK
<1>5. FilesOK' /\ PastOK'
  BY <1>1, <1>4, FailsTyped DEF TypeInv, VarsOK, FilesOK, PastOK, files
<1>6. LocksOK' /\ \A t \in Tickets : docLock'[t] = None
  BY <1>1, NoPlanTyped DEF LocksOK
<1>7. ASSUME NEW r \in Requests
      PROVE  /\ req'[r] = IF req[r].at \in Ended THEN req[r] ELSE Over(req[r], "failed", TRUE)
             /\ req'[r] \in RequestRecords /\ Shape(req'[r])
             /\ req'[r].at \notin MustHold /\ ~HoldsGroups(req'[r])
  <2>1. req'[r] = IF req[r].at \in Ended THEN req[r] ELSE Over(req[r], "failed", TRUE)
    BY <1>1
  <2>2. CASE req[r].at \in Ended
    BY <1>3, <2>1, <2>2 DEF Ended, MustHold, HoldsGroups
  <2>3. CASE req[r].at \notin Ended
    <3>1. PICK p : p = Over(req[r], "failed", TRUE) /\ req'[r] = p
      BY <2>1, <2>3
    <3>2. p \in RequestRecords /\ Shape(p) /\ p.at \notin MayHold /\ ~HoldsGroups(p)
      BY <1>3, <3>1, OverIs, OverShape
    <3>3. p.at \notin MustHold
      BY <3>2 DEF MustHold, MayHold
    <3>4. QED
      BY <2>1, <3>1, <3>2, <3>3
  <2>4. QED
    BY <2>2, <2>3
<1>8. ReqOK'
  <2>1. DOMAIN req' = Requests /\ req' = [r \in Requests |-> req'[r]]
    BY <1>1
  <2>2. QED
    BY <1>7, <2>1 DEF ReqOK
<1>9. LockInv'
  <2>1. \A r \in Requests : groupLock' # r /\ \A t \in Tickets : docLock'[t] # r
    BY <1>1, <1>6, NoneIsNobody, GroupsAssumption
  <2>2. \A r \in Requests : Owns(r, req'[r], groupLock', docLock')
    BY <1>7, <2>1, OwnsNoTicket
  <2>3. QED
    BY <2>2 DEF LockInv
<1>10. QED
  BY <1>1, <1>4, <1>5, <1>6, <1>7, <1>8, <1>9 DEF TypeInv, VarsOK

LEMMA TypeInit == Init => TypeInv
<1> SUFFICES ASSUME Init PROVE TypeInv
  OBVIOUS
<1>1. Idle \in RequestRecords /\ Idle.at = "idle" /\ Shape(Idle)
  BY IdleTyped DEF Shape, Singles, InBulk, InSplit, HasNew
<1>2. \A r \in Requests : req[r] = Idle
  BY DEF Init
<1>3. ReqOK
  BY <1>1 DEF Init, ReqOK
<1>4. VarsOK
  <2>1. FilesOK
    BY GroupsAssumption DEF Init, FilesOK
  <2>2. LocksOK
    BY NoPlanTyped DEF Init, LocksOK
  <2>3. PastOK
    BY GroupsAssumption DEF Init, PastOK
  <2>4. QED
    BY <2>1, <2>2, <2>3 DEF VarsOK
<1>5. LockInv
  <2>1. \A r \in Requests : groupLock # r /\ \A t \in Tickets : docLock[t] # r
    BY NoneIsNobody, GroupsAssumption DEF Init
  <2>2. Idle.at \notin MustHold /\ ~HoldsGroups(Idle)
    BY <1>1 DEF MustHold, HoldsGroups
  <2>3. \A r \in Requests : Owns(r, req[r], groupLock, docLock)
    BY <1>2, <2>1, <2>2, OwnsNoTicket
  <2>4. QED
    BY <2>3 DEF LockInv
<1>6. QED
  BY <1>3, <1>4, <1>5 DEF TypeInv

LEMMA TypeNext == TypeInv /\ [Next]_vars => TypeInv'
<1> SUFFICES ASSUME TypeInv, [Next]_vars PROVE TypeInv'
  OBVIOUS
<1>1. CASE UNCHANGED vars
  BY <1>1 DEF vars, TypeInv, VarsOK, FilesOK, LocksOK, PastOK, ReqOK, LockInv
<1>2. CASE Crash
  BY <1>2, CrashKeeps
<1>3. ASSUME NEW r \in Requests, Begin(r) PROVE TypeInv'
  BY <1>3, BeginKeeps
<1>4. ASSUME NEW r \in Requests, GroupStep(r) PROVE TypeInv'
  BY <1>4, CreateKeeps, UpdateKeeps, ChangeKeeps, CompleteKeeps, RemoveGroupKeeps, OrderKeeps,
     SetKeeps, StripKeeps, WriteKeeps, CallFailsKeeps, RollBackKeeps, RollBackFailsKeeps
     DEF GroupStep
<1>5. ASSUME NEW r \in Requests, TicketStep(r) PROVE TypeInv'
  BY <1>5, LockKeeps, ReadKeeps, PatchKeeps, UnlinkKeeps, StopsKeeps DEF TicketStep
<1>6. ASSUME NEW r \in Requests, BulkStep(r) PROVE TypeInv'
  BY <1>6, ReadBulkKeeps, WriteNextKeeps, BulkFailsKeeps, BulkWrittenKeeps, LeaveKeeps,
     RejoinKeeps, RevertKeeps DEF BulkStep
<1>7. ASSUME NEW r \in Requests, SplitStep(r) PROVE TypeInv'
  BY <1>7, ReadSplitKeeps, WriteNewKeeps, RetainKeeps, SplitFailsKeeps, AssignKeeps, RecordKeeps,
     UndoKeeps, DiscardKeeps, RestoreKeeps DEF SplitStep
<1>8. QED
  BY <1>1, <1>2, <1>3, <1>4, <1>5, <1>6, <1>7 DEF Next

\* Every variable has its type, for any number of tickets, groups and requests, and a request
\* that is over holds no lock: whatever way a command of Groups.ts or TicketCommands.ts ends,
\* it gives back the locks it took.
THEOREM TypeCorrect == Spec => []TypeOK
<1>1. Init => TypeInv
  BY TypeInit
<1>2. TypeInv /\ [Next]_vars => TypeInv'
  BY TypeNext
<1>3. TypeInv => TypeOK
  BY TypeInvImplies
<1>4. QED
  BY <1>1, <1>2, <1>3, PTL DEF Spec

-------------------------------------------------------------------------------
(* Nobody waits for ever.                                                    *)

LEMMA LargestTicket ==
  ASSUME NEW n \in Nat, NEW ts \in SUBSET (0..n), ts # {}
  PROVE  \E t \in ts : \A u \in ts : u <= t
<1> DEFINE ks == {k \in Nat : n - k \in ts}
<1>1. PICK t0 \in ts : TRUE
  OBVIOUS
<1>2. n - t0 \in ks
  BY <1>1
<1>3. PICK k \in ks : \A m \in ks : <<m, k>> \notin OpToRel(<, Nat)
  <2>1. ks \subseteq Nat /\ ks # {}
    BY <1>2
  <2>2. QED
    BY <2>1, NatLessThanWellFounded, WFMin
<1>4. ASSUME NEW u \in ts PROVE u <= n - k
  <2>1. n - u \in ks
    OBVIOUS
  <2>2. ~(n - u < k)
    BY <1>3, <2>1 DEF OpToRel
  <2>3. QED
    BY <2>1, <2>2
<1>5. QED
  BY <1>3, <1>4

\* A request that waits at a ticket holds only smaller ones, one that waits at the group files
\* holds nothing; a request that has the group files and goes to a ticket waits at the ticket.
LEMMA NoRing ==
  ASSUME NEW n \in Nat, Tickets \subseteq 0..n, TypeInv,
         NEW rs \in SUBSET Requests, rs # {}
  PROVE  \E r \in rs : \A q \in rs : ~WaitsFor(r, q)
<1> SUFFICES ASSUME \A r \in rs : \E q \in rs : WaitsFor(r, q)
             PROVE  FALSE
  OBVIOUS
<1> DEFINE awaited == {t \in Tickets : \E r \in rs : req[r].at \in Locking /\ NextLock(r, t)}
<1>1. \A r \in rs : Owns(r, req[r], groupLock, docLock)
  BY DEF TypeInv, LockInv
<1>2. awaited \in SUBSET (0..n)
  OBVIOUS
<1>3. CASE awaited # {}
  <2>1. PICK t \in awaited : \A u \in awaited : u <= t
    BY <1>2, <1>3, LargestTicket
  <2>2. PICK r \in rs : req[r].at \in Locking /\ NextLock(r, t)
    OBVIOUS
  <2>3. PICK q \in rs : WaitsFor(r, q)
    OBVIOUS
  <2>4. docLock[t] = q
    <3>1. req[r].at # "group"
      BY <2>2 DEF Locking
    <3>2. PICK u \in Tickets : NextLock(r, u) /\ docLock[u] = q
      BY <2>3, <3>1 DEF WaitsFor, At
    <3>3. u <= t /\ t <= u
      BY <2>2, <3>2 DEF NextLock
    <3>4. u = t
      BY <3>3, GroupsAssumption
    <3>5. QED
      BY <3>2, <3>4
  <2>5. req[q].at \in MayHold
    BY <1>1, <2>4 DEF Owns
  <2>6. PICK p \in rs : WaitsFor(q, p)
    OBVIOUS
  <2>7. PICK u \in Tickets : NextLock(q, u) /\ req[q].at \in Locking
    BY <2>5, <2>6 DEF WaitsFor, At, MayHold, Locking
  <2>8. u \in req[q].ts /\ docLock[u] # q
    BY <2>7 DEF NextLock, Missing, HeldBy
  <2>9. t < u
    BY <1>1, <2>4, <2>7, <2>8 DEF Owns
  <2>10. u <= t
    BY <2>1, <2>7
  <2>11. QED
    BY <2>9, <2>10, GroupsAssumption
<1>4. CASE awaited = {}
  <2>1. \A r, q \in rs : WaitsFor(r, q) => req[r].at = "group" /\ groupLock = q
    BY <1>4 DEF WaitsFor, At
  <2>2. PICK r \in rs, q \in rs : req[r].at = "group" /\ groupLock = q
    BY <2>1
  <2>3. req[q].at = "group"
    BY <2>1
  <2>4. ~HoldsGroups(req[q])
    BY <2>3 DEF HoldsGroups
  <2>5. QED
    BY <1>1, <2>2, <2>4 DEF Owns
<1>5. QED
  BY <1>3, <1>4

\* However many requests there are, they never wait for each other in a ring: tickets are locked
\* in the order of their numbers, and whoever waits for the group files holds nothing.
THEOREM NobodyWaitsForEver ==
  ASSUME NEW n \in Nat, Tickets \subseteq 0..n
  PROVE  Spec => []NoCircularWait
<1>1. TypeInv => NoCircularWait
  BY NoRing DEF NoCircularWait
<1>2. QED
  BY <1>1, TypeInit, TypeNext, PTL DEF Spec

-------------------------------------------------------------------------------
(* A call of Groups that reads the files: whichever it is, the request leaves *)
(* the group files or goes on to write them.                                  *)

Reading(r) ==
  /\ req[r].at = "group" /\ groupLock = None
  /\ UNCHANGED <<files, docLock, history, failures>>

Writes(r, p) ==
  /\ Becomes(r, p) /\ groupLock' = r /\ p.at \in {"write", "lock"}
  /\ p.call.name = req[r].call.name /\ Like(p, req[r])

Reader(r) ==
  \/ CreateGroup(r) \/ UpdateGroup(r) \/ ChangeTickets(r) \/ Complete(r) \/ RemoveGroup(r)
  \/ UpdateTicketOrder(r) \/ SetSprintMembership(r)

LEMMA PlansWrites ==
  ASSUME TypeInv, NEW r \in Requests, NEW call, NEW now, NEW next, NEW to,
         Plans1(r, call, now, next, to)
  PROVE  \E p : /\ Becomes(r, p) /\ p.at = "write" /\ p.call = call /\ Like(p, req[r])
                /\ groupLock' = r
                /\ plan' = [now |-> now, next |-> next, to |-> to, back |-> group]
<1>1. req[r] \in RequestRecords
  BY DEF TypeInv, ReqOK
<1>2. PICK p : p = [req[r] EXCEPT !.at = "write", !.call = call]
  OBVIOUS
<1>3. p.at = "write" /\ p.call = call /\ Like(p, req[r])
  BY <1>1, <1>2 DEF RequestRecords, Like
<1>4. QED
  BY <1>2, <1>3 DEF Plans1

LEMMA PlansWrites1 ==
  ASSUME TypeInv, NEW r \in Requests, NEW call, call.name = req[r].call.name,
         NEW now, NEW next, NEW to, Plans1(r, call, now, next, to)
  PROVE  \E p : Writes(r, p)
BY PlansWrites DEF Writes

LEMMA ReaderReads ==
  ASSUME NEW r \in Requests, Reader(r) \/ RemoveTicketFromAllGroups(r)
  PROVE  Reading(r) /\ (Reader(r) => req[r].call.name # "strip")
BY DEF Reader, Reading, Calling, At, CreateGroup, UpdateGroup, ChangeTickets, Complete, RemoveGroup,
       UpdateTicketOrder, SetSprintMembership, RemoveTicketFromAllGroups

LEMMA ReaderKeeps ==
  ASSUME TypeInv, NEW r \in Requests, Reader(r)
  PROVE  TypeInv' /\ Mine(r) /\ (Leaves(r) \/ \E p : Writes(r, p))
<1>1. req[r] \in RequestRecords /\ req[r].call \in CallRecords /\ Shape(req[r])
  BY DEF TypeInv, ReqOK, RequestRecords
<1>2. ASSUME CreateGroup(r) PROVE TypeInv' /\ Mine(r) /\ (Leaves(r) \/ \E p : Writes(r, p))
  <2>1. \A g : [req[r].call EXCEPT !.g = g].name = req[r].call.name
    BY <1>1 DEF CallRecords
  <2>2. QED
    BY <1>2, <2>1, CreateKeeps, PlansWrites1
<1>3. ASSUME UpdateGroup(r) PROVE TypeInv' /\ Mine(r) /\ (Leaves(r) \/ \E p : Writes(r, p))
  BY <1>3, UpdateKeeps, PlansWrites1
<1>4. ASSUME ChangeTickets(r) PROVE TypeInv' /\ Mine(r) /\ (Leaves(r) \/ \E p : Writes(r, p))
  BY <1>4, ChangeKeeps, PlansWrites1
<1>5. ASSUME Complete(r) PROVE TypeInv' /\ Mine(r) /\ (Leaves(r) \/ \E p : Writes(r, p))
  <2>1. \A ts : [req[r].call EXCEPT !.ts = ts].name = req[r].call.name
    BY <1>1 DEF CallRecords
  <2>2. QED
    BY <1>5, <2>1, CompleteKeeps, PlansWrites1
<1>6. ASSUME RemoveGroup(r) PROVE TypeInv' /\ Mine(r) /\ (Leaves(r) \/ \E p : Writes(r, p))
  BY <1>6, RemoveGroupKeeps, PlansWrites1
<1>7. ASSUME SetSprintMembership(r) PROVE TypeInv' /\ Mine(r) /\ (Leaves(r) \/ \E p : Writes(r, p))
  BY <1>7, SetKeeps, PlansWrites1
<1>8. ASSUME UpdateTicketOrder(r) PROVE TypeInv' /\ Mine(r) /\ (Leaves(r) \/ \E p : Writes(r, p))
  <2>1. req[r].at = "group" /\ req[r].call.name = "moveInGroup"
    BY <1>8 DEF UpdateTicketOrder, Calling, At
  <2>2. TypeInv' /\ Mine(r)
    BY <1>8, OrderKeeps
  <2>3. CASE Leaves(r)
    BY <2>2, <2>3
  <2>4. CASE ~Leaves(r)
    <3>1. PICK p \in Ordered(req[r]) : groupLock' = r /\ Becomes(r, p)
      BY <1>8, <2>4, OrderKeeps
    <3>2. /\ p.op = req[r].op /\ p.at \in {"write", "lock"}
          /\ p.ts = req[r].ts /\ p.new = req[r].new /\ p.cut = req[r].cut /\ p.call = req[r].call
          /\ p.copy = req[r].copy /\ p.todo = req[r].todo /\ p.done = req[r].done
      BY <1>1, <2>1, OrderedIs
    <3>3. QED
      BY <2>2, <3>1, <3>2 DEF Writes, Like
  <2>5. QED
    BY <2>3, <2>4
<1>9. QED
  BY <1>2, <1>3, <1>4, <1>5, <1>6, <1>7, <1>8 DEF Reader

LEMMA StripWrites ==
  ASSUME TypeInv, NEW r \in Requests, RemoveTicketFromAllGroups(r)
  PROVE  TypeInv' /\ Mine(r) /\ (Leaves(r) \/ \E p : Writes(r, p))
BY StripKeeps, PlansWrites1

-------------------------------------------------------------------------------
(* What a group lists exists.                                                 *)

\* When nobody is at the group files, nothing is planned.
Unplanned == groupLock = None => plan = NoPlan

LEMMA UnplannedInit == Init => Unplanned
  BY DEF Init, Unplanned

LEMMA UnplannedNext == TypeInv /\ Unplanned /\ [Next]_vars => Unplanned'
<1> SUFFICES ASSUME TypeInv, Unplanned, [Next]_vars PROVE Unplanned'
  OBVIOUS
<1>1. ASSUME NEW r \in Requests
      PROVE  /\ UNCHANGED <<groupLock, plan>> => Unplanned'
             /\ groupLock' = None /\ plan' = NoPlan => Unplanned'
             /\ groupLock' = r => Unplanned'
             /\ groupLock' = groupLock /\ groupLock = r => Unplanned'
             /\ \A outcome, cut : End(r, outcome, cut) => Unplanned'
  BY NoneIsNobody, GroupsAssumption DEF Unplanned, End
<1>2. ASSUME NEW r \in Requests, GroupStep(r)
      PROVE  Unplanned'
  <2>1. \A call, now, next, to : Planned(r, call, now, next, to) \/ Refuse(r) => Unplanned'
    BY <1>1 DEF Planned, Refuse
  <2>2. CreateGroup(r) \/ UpdateGroup(r) \/ ChangeTickets(r) \/ Complete(r) => Unplanned'
    BY <2>1 DEF CreateGroup, UpdateGroup, ChangeTickets, Complete
  <2>3. \/ RemoveGroup(r) \/ UpdateTicketOrder(r) \/ SetSprintMembership(r)
        \/ RemoveTicketFromAllGroups(r)
        => Unplanned'
    BY <1>1, <2>1 DEF RemoveGroup, UpdateTicketOrder, SetSprintMembership, RemoveTicketFromAllGroups
  <2>4. ASSUME NEW interrupted \in BOOLEAN, WriteGroup(r, interrupted)
        PROVE  Unplanned'
    <3>1. groupLock = r
      BY <2>4, Writer DEF WriteGroup, At
    <3>2. (groupLock' = None /\ plan' = NoPlan) \/ groupLock' = groupLock
      BY <2>4 DEF WriteGroup
    <3> QED  BY <1>1, <3>1, <3>2
  <2>5. CASE GroupCallFails(r)
    BY <1>1, <2>5 DEF GroupCallFails
  <2>6. CASE RollBackCreation(r) \/ RollBackFails(r)
    <3>1. groupLock = r
      BY <2>6, Writer DEF RollBackCreation, RollBackFails, At
    <3>2. (groupLock' = None /\ plan' = NoPlan) \/ groupLock' = groupLock
      BY <2>6 DEF RollBackCreation, RollBackFails
    <3> QED  BY <1>1, <3>1, <3>2
  <2> QED  BY <1>2, <2>2, <2>3, <2>4, <2>5, <2>6 DEF GroupStep
<1>3. ASSUME NEW r \in Requests, TicketStep(r)
      PROVE  Unplanned'
  BY <1>1, <1>3 DEF TicketStep, LockTicket, ReadTicket, PatchTicket, Unlink, Stops
<1>4. ASSUME NEW r \in Requests, BulkStep(r)
      PROVE  Unplanned'
  BY <1>1, <1>4 DEF BulkStep, ReadTickets, WriteNext, BulkFails, BulkWritten, LeaveSprint, Rejoin,
                    Revert
<1>5. ASSUME NEW r \in Requests, SplitStep(r)
      PROVE  Unplanned'
  BY <1>1, <1>5 DEF SplitStep, ReadSplit, WriteNew, Retain, SplitFails, AssignNew, Record,
                    UndoSprints, Discard, Restore
<1>6. ASSUME NEW r \in Requests, Begin(r)
      PROVE  Unplanned'
  BY <1>1, <1>6 DEF Begin
<1>7. CASE Crash
  BY <1>7 DEF Crash, Unplanned
<1>8. CASE UNCHANGED vars
  BY <1>8 DEF vars, Unplanned
<1> QED  BY <1>2, <1>3, <1>4, <1>5, <1>6, <1>7, <1>8 DEF Next

Listed(f, h, fl) == \A g \in Groups : \A t \in f[g].has : t \in h \/ t \in fl

\* A removal that goes to the file: a list that has its ticket got it again.
Gone(q, f, rl) ==
  q.at \in {"unlinking", "unlink"} => \A t \in q.ts : \A g \in Groups : t \in f[g].has => t \in rl

\* A removal that clears the lists: no list outside the plan has its ticket, and none that it
\* writes will.
Cleared(q, f, pl) ==
  q.at = "write" /\ q.call.name = "strip" =>
    \A g \in Groups : \A t \in q.call.ts :
      /\ g \notin pl.now \cup pl.next => t \notin f[g].has
      /\ t \notin pl.to[g].has

\* Whoever holds the group files, but for setSprintMembership, has looked for all that it is
\* going to list.
Found(q, pl, h, fl) == HoldsGroups(q) /\ q.call.name # "set" => Listed(pl.to, h, fl)

ListOK(q, f, pl, rl, h, fl) ==
  /\ Gone(q, f, rl) /\ Gone(q, pl.back, rl)
  /\ Cleared(q, f, pl)
  /\ Found(q, pl, h, fl)

ListInv ==
  /\ Listed(group, haunted, file) /\ Listed(plan.back, haunted, file)
  /\ \A r \in Requests : ListOK(req[r], group, plan, relisted, haunted, file)

LEMMA ListInvImplies == ListInv => ListedTicketsExist
  BY DEF ListInv, Listed, ListedTicketsExist, Held

\* Somebody's step leaves the files of the groups as they are: what others rely on stays.
Apart(r) ==
  /\ group' = group /\ relisted' = relisted /\ haunted \subseteq haunted'
  /\ groupLock \notin {None, r} => plan' = plan
  /\ plan'.back = plan.back \/ plan'.back = group \/ plan' = NoPlan
  /\ \A t \in file : \/ t \in file' \cup haunted'
                     \/ \A g \in Groups : t \notin group[g].has \cup plan.to[g].has \cup plan.back[g].has

LEMMA NothingPlanned ==
  ASSUME NEW f, f = NoPlan.back \/ f = NoPlan.to, NEW g \in Groups
  PROVE  f[g].has = {}
  BY DEF NoPlan, NoFiles, NoFile

\* The lists that are there, or planned, remain accounted for.
LEMMA ListedApart ==
  ASSUME NEW r \in Requests, Apart(r), NEW f, f \in {group, plan.to, plan.back},
         Listed(f, haunted, file)
  PROVE  Listed(f, haunted', file')
  BY DEF Listed, Apart

LEMMA ListApart ==
  ASSUME TypeInv, ListInv, NEW r \in Requests, NEW p, Becomes(r, p), Apart(r),
         ListOK(p, group, plan', relisted, haunted', file')
  PROVE  ListInv'
<1>1. group' = group /\ relisted' = relisted
  BY DEF Apart
<1>2. Listed(group, haunted', file') /\ Listed(plan.back, haunted', file')
  BY ListedApart DEF ListInv
<1>3. plan'.back = plan.back \/ plan'.back = group \/ plan' = NoPlan
  BY DEF Apart
<1>4. Listed(plan'.back, haunted', file')
  <2>1. CASE plan' = NoPlan
    BY <2>1, NothingPlanned DEF Listed
  <2> QED  BY <1>2, <1>3, <2>1
<1>5. ASSUME NEW s \in Requests
      PROVE  ListOK(req'[s], group, plan', relisted, haunted', file')
  <2>1. CASE s = r
    BY <2>1 DEF Becomes
  <2>2. CASE s # r
    <3>1. req'[s] = req[s]
      BY <2>2 DEF Becomes
    <3>2. /\ Gone(req[s], group, relisted) /\ Gone(req[s], plan.back, relisted)
          /\ Cleared(req[s], group, plan) /\ Found(req[s], plan, haunted, file)
      BY DEF ListInv, ListOK
    <3>3. Gone(req[s], plan'.back, relisted)
      <4>1. CASE plan' = NoPlan
        BY <4>1, NothingPlanned DEF Gone
      <4> QED  BY <1>3, <3>2, <4>1
    <3>4. CASE HoldsGroups(req[s])
      <4>1. groupLock = s /\ s # None
        BY <3>4, NoneIsNobody, GroupsAssumption DEF TypeInv, LockInv, Owns
      <4>2. plan' = plan
        BY <4>1, <2>2 DEF Apart
      <4>3. Found(req[s], plan, haunted', file')
        BY <3>2, ListedApart DEF Found
      <4> QED  BY <3>1, <3>2, <3>3, <4>2, <4>3 DEF ListOK
    <3>5. CASE ~HoldsGroups(req[s])
      <4>1. Cleared(req[s], group, plan') /\ Found(req[s], plan', haunted', file')
        BY <3>5 DEF Cleared, Found, HoldsGroups
      <4> QED  BY <3>1, <3>2, <3>3, <4>1 DEF ListOK
    <3> QED  BY <3>4, <3>5
  <2> QED  BY <2>1, <2>2
<1> QED  BY <1>1, <1>2, <1>4, <1>5 DEF ListInv

\* Who goes on with the group files as it had them.
LEMMA ListStays ==
  ASSUME TypeInv, ListInv, NEW r \in Requests, NEW p, Becomes(r, p), Apart(r), plan' = plan,
         p.at \notin {"unlinking", "unlink"} \/ (p.ts = req[r].ts /\ req[r].at = "unlinking"),
         HoldsGroups(p) => HoldsGroups(req[r]) /\ p.call = req[r].call,
         p.at = "write" => p.call.name # "strip"
  PROVE  ListInv'
<1>1. /\ Gone(req[r], group, relisted) /\ Gone(req[r], plan.back, relisted)
      /\ Found(req[r], plan, haunted, file)
  BY DEF ListInv, ListOK
<1>2. Gone(p, group, relisted) /\ Gone(p, plan.back, relisted)
  BY <1>1 DEF Gone
<1>3. Cleared(p, group, plan)
  BY DEF Cleared
<1>4. Found(p, plan, haunted', file')
  BY <1>1, ListedApart DEF Found
<1> QED  BY <1>2, <1>3, <1>4, ListApart DEF ListOK

\* Most stages have nothing to do with the lists.
Elsewhere(q) == q.at \notin {"unlinking", "unlink"} /\ ~HoldsGroups(q)

LEMMA ListElsewhere ==
  ASSUME TypeInv, ListInv, NEW r \in Requests, NEW p, Becomes(r, p), Apart(r), Elsewhere(p)
  PROVE  ListInv'
<1>1. Gone(p, group, relisted) /\ Gone(p, plan'.back, relisted)
  BY DEF Elsewhere, Gone
<1>2. Cleared(p, group, plan') /\ Found(p, plan', haunted', file')
  BY DEF Elsewhere, HoldsGroups, Cleared, Found
<1> QED  BY <1>1, <1>2, ListApart DEF ListOK

\* The end of a call other than that of a removal.
LEMMA WentElsewhere ==
  ASSUME TypeInv, NEW r \in Requests, req[r].at \in {"group", "write"},
         NEW at \in {req[r].ok, req[r].err}, req[r].call.name # "strip" \/ at = req[r].err
  PROVE  Elsewhere(Went(req[r], at))
<1> DEFINE p == Went(req[r], at)
<1>0. req[r] \in RequestRecords /\ Shape(req[r]) /\ Onward(req[r])
  BY DEF TypeInv, ReqOK, Shape, Calling1
<1>1. p.at = at /\ at \in Waiting \cup {"done", "failed"}
  <2> HIDE DEF p
  <2>1. p = Went(req[r], at)
    BY DEF p
  <2> QED  BY <1>0, <2>1, WentIs
<1>2. at # "unlinking"
  BY <1>0 DEF Onward, GroupOps
<1>3. p.at \notin {"unlinking", "unlink", "write", "lock", "read", "patch"}
  <2> HIDE DEF p
  <2> QED  BY <1>1, <1>2 DEF Waiting
<1> QED  BY <1>3 DEF Elsewhere, HoldsGroups

LEMMA FilesApart ==
  ASSUME TypeInv, NEW r \in Requests, UNCHANGED files, UNCHANGED <<relisted, haunted>>,
         groupLock \notin {None, r} => plan' = plan,
         plan'.back = plan.back \/ plan'.back = group \/ plan' = NoPlan
  PROVE  Apart(r)
  BY DEF Apart, files

LEMMA OverElsewhere ==
  ASSUME NEW q \in RequestRecords, NEW outcome \in {"done", "failed"}, NEW cut \in BOOLEAN
  PROVE  Elsewhere(Over(q, outcome, cut))
<1> DEFINE p == Over(q, outcome, cut)
<1>1. p.at = outcome
  <2> HIDE DEF p
  <2>1. p = Over(q, outcome, cut)
    BY DEF p
  <2> QED  BY <2>1, OverIs
<1> HIDE DEF p
<1>2. Elsewhere(p)
  BY <1>1 DEF Elsewhere, HoldsGroups
<1> QED  BY <1>2 DEF p

LEMMA ListEnds ==
  ASSUME TypeInv, ListInv, NEW r \in Requests, NEW outcome \in {"done", "failed"},
         NEW cut \in BOOLEAN, Ends(r, outcome, cut), Apart(r)
  PROVE  ListInv'
<1>1. Becomes(r, Over(req[r], outcome, cut))
  BY DEF Ends
<1>2. Elsewhere(Over(req[r], outcome, cut))
  BY OverElsewhere DEF TypeInv, ReqOK
<1> QED  BY <1>1, <1>2, ListElsewhere

\* What a call plans to write was there, or it has looked for it.
LEMMA GivenListed ==
  ASSUME group \in [Groups -> GroupFiles], ListInv, NEW g \in Groups, NEW new \in GroupFiles,
         NEW ts, \A t \in new.has : t \in haunted \/ t \in file
  PROVE  Listed(Given(g, new, ts), haunted, file)
<1>1. Listed(group, haunted, file)
  BY DEF ListInv
<1>2. \A h \in Groups : [group[h] EXCEPT !.has = @ \ ts].has = group[h].has \ ts
  BY DEF GroupFiles
<1>3. ASSUME NEW h \in Groups
      PROVE  \A t \in Given(g, new, ts)[h].has : t \in haunted \/ t \in file
  <2>1. CASE h = g
    BY <2>1 DEF Given
  <2>2. CASE h # g
    <3>1. Given(g, new, ts)[h] = [group[h] EXCEPT !.has = @ \ ts]
      BY <2>2 DEF Given
    <3>2. Given(g, new, ts)[h].has = group[h].has \ ts
      BY <1>2, <3>1
    <3> QED  BY <1>1, <3>2 DEF Listed
  <2> QED  BY <2>1, <2>2
<1> QED  BY <1>3 DEF Listed

Finds(r, p) ==
  /\ Writes(r, p) /\ plan'.back = group
  /\ p.call.name # "set" => Listed(plan'.to, haunted, file)

LEMMA PlansFound ==
  ASSUME TypeInv, NEW r \in Requests, NEW call, call.name = req[r].call.name,
         NEW now, NEW next, NEW to, Plans1(r, call, now, next, to),
         call.name = "set" \/ Listed(to, haunted, file)
  PROVE  \E p : Finds(r, p)
<1>1. PICK p : /\ Becomes(r, p) /\ p.at = "write" /\ p.call = call /\ Like(p, req[r])
               /\ groupLock' = r
               /\ plan' = [now |-> now, next |-> next, to |-> to, back |-> group]
  BY PlansWrites
<1>2. plan'.to = to /\ plan'.back = group
  BY <1>1
<1> QED  BY <1>1, <1>2 DEF Finds, Writes

LEMMA ReaderFinds ==
  ASSUME TypeInv, ListInv, NEW r \in Requests, Reader(r), ~Leaves(r)
  PROVE  \E p : Finds(r, p)
<1>1. /\ req[r] \in RequestRecords /\ req[r].call \in CallRecords
      /\ group \in [Groups -> GroupFiles]
  BY DEF TypeInv, ReqOK, VarsOK, FilesOK, RequestRecords
<1>2. Listed(group, haunted, file)
  BY DEF ListInv
<1>3. CASE CreateGroup(r)
  <2>1. PICK g \in Groups, ts \in SUBSET Tickets :
          /\ ts \subseteq file
          /\ Plans1(r, [req[r].call EXCEPT !.g = g], {g}, Evictions(group, g, ts),
                    Given(g, [status |-> "open", has |-> ts], ts))
    BY <1>3, CreateKeeps
  <2>2. [req[r].call EXCEPT !.g = g].name = req[r].call.name
    BY <1>1 DEF CallRecords
  <2>3. [status |-> "open", has |-> ts] \in GroupFiles
    BY DEF GroupFiles
  <2>4. Listed(Given(g, [status |-> "open", has |-> ts], ts), haunted, file)
    BY <1>1, <2>1, <2>3, GivenListed
  <2> QED  BY <2>1, <2>2, <2>4, PlansFound
<1>4. CASE UpdateGroup(r)
  <2>1. PICK g \in Groups, status \in {"open", "completed"} :
          Plans1(r, req[r].call, {}, {g}, Given(g, [group[g] EXCEPT !.status = status], {}))
    BY <1>4, UpdateKeeps
  <2>2. /\ [group[g] EXCEPT !.status = status] \in GroupFiles
        /\ [group[g] EXCEPT !.status = status].has = group[g].has
    BY <1>1 DEF GroupFiles
  <2>3. Listed(Given(g, [group[g] EXCEPT !.status = status], {}), haunted, file)
    BY <1>1, <1>2, <2>2, GivenListed DEF Listed
  <2> QED  BY <2>1, <2>3, PlansFound
<1>5. CASE ChangeTickets(r)
  <2>1. PICK g \in Groups, next \in SUBSET Tickets :
          /\ next \ file \subseteq group[g].has
          /\ Plans1(r, req[r].call, Evictions(group, g, next), {g},
                    Given(g, [group[g] EXCEPT !.has = next], next))
    BY <1>5, ChangeKeeps
  <2>2. /\ [group[g] EXCEPT !.has = next] \in GroupFiles
        /\ [group[g] EXCEPT !.has = next].has = next
    BY <1>1 DEF GroupFiles
  <2>3. \A t \in next : t \in haunted \/ t \in file
    BY <1>2, <2>1 DEF Listed
  <2>4. Listed(Given(g, [group[g] EXCEPT !.has = next], next), haunted, file)
    BY <1>1, <2>2, <2>3, GivenListed
  <2> QED  BY <2>1, <2>4, PlansFound
<1>6. CASE Complete(r)
  <2>1. PICK g \in Groups, dest \in Groups \cup {None}, carry \in SUBSET Tickets :
          /\ carry \subseteq group[g].has /\ group[g].has \subseteq file
          /\ Plans1(r, [req[r].call EXCEPT !.ts = carry],
                    IF dest = None \/ carry = {} THEN {} ELSE {dest}, {g},
                    CompleteTo(g, dest, carry))
    BY <1>6, CompleteKeeps
  <2>2. [req[r].call EXCEPT !.ts = carry].name = req[r].call.name
    BY <1>1 DEF CallRecords
  <2>3. ASSUME NEW h \in Groups
        PROVE  CompleteTo(g, dest, carry)[h].has \subseteq group[h].has \cup carry
    <3>1. CompleteTo(g, dest, carry)[h] =
            CASE h = g -> [status |-> "completed", has |-> group[g].has \ carry]
              [] h = dest -> [group[h] EXCEPT !.has = @ \cup carry]
              [] OTHER -> group[h]
      BY DEF CompleteTo
    <3>2. [group[h] EXCEPT !.has = @ \cup carry].has = group[h].has \cup carry
      BY <1>1 DEF GroupFiles
    <3>3. CASE h = g
      BY <3>1, <3>3
    <3>4. CASE h # g /\ h = dest
      <4>1. CompleteTo(g, dest, carry)[h] = [group[h] EXCEPT !.has = @ \cup carry]
        BY <3>4 DEF CompleteTo
      <4> QED  BY <3>2, <4>1
    <3>5. CASE h # g /\ h # dest
      BY <3>1, <3>5
    <3> QED  BY <3>3, <3>4, <3>5
  <2>4. Listed(CompleteTo(g, dest, carry), haunted, file)
    BY <1>2, <2>1, <2>3 DEF Listed
  <2> QED  BY <2>1, <2>2, <2>4, PlansFound
<1>7. CASE RemoveGroup(r)
  <2>1. PICK g \in Groups : Plans1(r, req[r].call, {}, {g}, Given(g, NoFile, {}))
    BY <1>7, RemoveGroupKeeps
  <2>2. NoFile \in GroupFiles /\ NoFile.has = {}
    BY NoPlanTyped DEF NoFile
  <2>3. Listed(Given(g, NoFile, {}), haunted, file)
    BY <1>1, <2>2, GivenListed
  <2> QED  BY <2>1, <2>3, PlansFound
<1>8. CASE SetSprintMembership(r)
  <2>1. PICK g \in Groups \cup {None}, ts \in SUBSET Tickets :
          /\ req[r].call.name = "set"
          /\ Plans1(r, req[r].call, Misplaced(g, ts), {}, Moved(g, ts))
    BY <1>8, SetKeeps
  <2> QED  BY <2>1, PlansFound
<1>9. CASE UpdateTicketOrder(r)
  <2>1. PICK g \in Groups, p \in Ordered(req[r]) :
          /\ groupLock' = r
          /\ plan' = [now |-> {}, next |-> {g}, to |-> group, back |-> group]
          /\ Becomes(r, p)
    BY <1>9, OrderKeeps
  <2>2. req[r].at = "group" /\ req[r].call.name = "moveInGroup" /\ Shape(req[r])
    BY <1>9 DEF UpdateTicketOrder, Calling, At, TypeInv, ReqOK
  <2>3. p.at \in {"write", "lock"} /\ p.call = req[r].call /\ Like(p, req[r])
    BY <1>1, <2>2, OrderedIs DEF Like
  <2>4. plan'.to = group /\ plan'.back = group
    BY <2>1
  <2> QED  BY <1>2, <2>1, <2>3, <2>4 DEF Finds, Writes
<1> QED  BY <1>3, <1>4, <1>5, <1>6, <1>7, <1>8, <1>9 DEF Reader

LEMMA ListReads ==
  ASSUME TypeInv, ListInv, NEW r \in Requests, Reader(r)
  PROVE  ListInv'
<1>1. Reading(r) /\ req[r].call.name # "strip"
  BY ReaderReads
<1>2. CASE Leaves(r)
  <2>1. PICK at \in {req[r].ok, req[r].err} : Becomes(r, Went(req[r], at)) /\ plan' = plan
    BY <1>2 DEF Leaves
  <2>2. Elsewhere(Went(req[r], at))
    BY <1>1, WentElsewhere DEF Reading
  <2>3. Apart(r)
    BY <1>1, <2>1, FilesApart DEF Reading, history
  <2> QED  BY <2>1, <2>2, <2>3, ListElsewhere
<1>3. CASE ~Leaves(r)
  <2>1. PICK p : Finds(r, p)
    BY <1>3, ReaderFinds
  <2>2. /\ Becomes(r, p) /\ p.at \in {"write", "lock"} /\ p.call.name = req[r].call.name
        /\ plan'.back = group /\ (p.call.name # "set" => Listed(plan'.to, haunted, file))
    BY <2>1 DEF Finds, Writes
  <2>3. Apart(r)
    BY <1>1, <2>2, FilesApart DEF Reading, history
  <2>4. haunted' = haunted /\ file' = file
    BY <1>1 DEF Reading, history, files
  <2>5. ListOK(p, group, plan', relisted, haunted', file')
    BY <1>1, <2>2, <2>4 DEF ListOK, Gone, Cleared, Found
  <2> QED  BY <2>2, <2>3, <2>5, ListApart
<1> QED  BY <1>2, <1>3

\* removeTicketFromAllGroups: either no list has the ticket, or all that have it are planned.
LEMMA ListStrips ==
  ASSUME TypeInv, Unplanned, ListInv, NEW r \in Requests, RemoveTicketFromAllGroups(r)
  PROVE  ListInv'
<1> DEFINE ts == req[r].call.ts
<1>1. Reading(r) /\ req[r].call.name = "strip"
  BY ReaderReads, StripKeeps
<1>2. haunted' = haunted /\ file' = file /\ Listed(group, haunted, file)
  BY <1>1 DEF Reading, history, files, ListInv
<1>3. group \in [Groups -> GroupFiles] /\ req[r] \in RequestRecords /\ Shape(req[r])
  BY DEF TypeInv, VarsOK, FilesOK, ReqOK
<1>4. CASE Leaves(r) /\ Listing(ts) = {}
  <2>1. PICK at \in {req[r].ok, req[r].err} : Becomes(r, Went(req[r], at)) /\ plan' = plan
    BY <1>4 DEF Leaves
  <2> DEFINE p == Went(req[r], at)
  <2>2. /\ p.at = at /\ at \in Waiting \cup {"done", "failed"} /\ p.ts = req[r].ts
        /\ ~HoldsGroups(p)
    <3> HIDE DEF p
    <3>1. p = Went(req[r], at)
      BY DEF p
    <3> QED  BY <1>1, <1>3, <3>1, WentIs DEF Reading
  <2>3. Becomes(r, p) /\ plan' = plan
    BY <2>1
  <2> HIDE DEF p
  <2>4. req[r].ts = ts
    BY <1>1, <1>3 DEF Shape, Calling1, Onward, Reading, GroupOps
  <2>5. \A g \in Groups : group[g].has \cap ts = {}
    BY <1>4 DEF Listing
  <2>6. Gone(p, group, relisted)
    BY <2>2, <2>4, <2>5 DEF Gone
  <2>7. Gone(p, plan.back, relisted)
    <3>1. plan = NoPlan
      BY <1>1 DEF Reading, Unplanned
    <3> QED  BY <3>1, NothingPlanned DEF Gone
  <2>8. Cleared(p, group, plan') /\ Found(p, plan', haunted', file')
    BY <2>2 DEF Cleared, Found, HoldsGroups
  <2>9. Apart(r)
    BY <1>1, <2>3, FilesApart DEF Reading, history
  <2> QED  BY <2>3, <2>6, <2>7, <2>8, <2>9, ListApart DEF ListOK
<1>5. CASE Plans1(r, req[r].call, Listing(ts), {}, Given(None, NoFile, ts))
  <2>1. PICK p : /\ Becomes(r, p) /\ p.at = "write" /\ p.call = req[r].call /\ Like(p, req[r])
                 /\ groupLock' = r
                 /\ plan' = [now |-> Listing(ts), next |-> {}, to |-> Given(None, NoFile, ts),
                             back |-> group]
    BY <1>5, PlansWrites
  <2>2. Gone(p, group, relisted) /\ Gone(p, plan'.back, relisted)
    BY <2>1 DEF Gone
  <2>3. ASSUME NEW g \in Groups, NEW t \in ts
        PROVE  /\ g \notin plan'.now \cup plan'.next => t \notin group[g].has
               /\ t \notin plan'.to[g].has
    <3>1. plan'.now = Listing(ts) /\ plan'.to = Given(None, NoFile, ts)
      BY <2>1
    <3>2. g # None
      BY GroupsAssumption
    <3>3. Given(None, NoFile, ts)[g].has = group[g].has \ ts
      <4>1. group \in [Groups -> GroupFiles] /\ NoFile \in GroupFiles
        BY <1>3, NoPlanTyped
      <4>2. \A h \in Groups : h # None => Given(None, NoFile, ts)[h].has = group[h].has \ ts
        BY <4>1 DEF Given, GroupFiles
      <4> QED  BY <3>2, <4>2
    <3> QED  BY <3>1, <3>3 DEF Listing
  <2>4. Cleared(p, group, plan')
    BY <2>1, <2>3 DEF Cleared
  <2>5. Listed(plan'.to, haunted', file')
    <3>1. plan'.to = Given(None, NoFile, ts)
      BY <2>1
    <3>2. None \notin Groups
      BY GroupsAssumption
    <3>3. \A g \in Groups : Given(None, NoFile, ts)[g].has \subseteq group[g].has
      BY <1>3, <3>2, NoPlanTyped, GivenIs
    <3> QED  BY <1>2, <3>1, <3>3 DEF Listed
  <2>6. Found(p, plan', haunted', file')
    BY <2>5 DEF Found
  <2>7. Apart(r)
    BY <1>1, <2>1, FilesApart DEF Reading, history
  <2> QED  BY <2>1, <2>2, <2>4, <2>6, <2>7, ListApart DEF ListOK
<1> QED  BY <1>4, <1>5, StripKeeps

\* The writing of a file: what it newly lists is there, or is noted; a removal that has written
\* all of them leaves its ticket in none.
LEMMA ListWrites ==
  ASSUME TypeInv, ListInv, NEW r \in Requests, NEW interrupted \in BOOLEAN,
         WriteGroup(r, interrupted)
  PROVE  ListInv'
<1> DEFINE call == req[r].call
<1>1. groupLock = r /\ req[r].at = "write" /\ r # None
  BY WriteKeeps, Writer
<1>2. PICK g \in Wave :
        /\ g \in Groups /\ group' = [group EXCEPT ![g] = plan.to[g]]
        /\ Noted(r, g)
        /\ torn' = IF req[r].call.name = "update"
                   THEN torn \cup {t \in Tickets : ~InOne(group', t)} ELSE torn
        /\ \/ Remaining(g) = {} /\ Released(r)
              /\ Becomes(r, Went(req[r], IF interrupted THEN req[r].err ELSE req[r].ok))
              /\ (interrupted => req[r].call.name \notin {"create", "uncreate"})
           \/ Remaining(g) # {} /\ NextFile(g)
  BY WriteKeeps
<1>3. /\ group \in [Groups -> GroupFiles] /\ LocksOK /\ req[r] \in RequestRecords /\ Shape(req[r])
      /\ req \in [Requests -> RequestRecords] /\ file' = file
  BY DEF TypeInv, VarsOK, FilesOK, ReqOK, WriteGroup
<1>4. group'[g] = plan.to[g] /\ \A h \in Groups : h # g => group'[h] = group[h]
  BY <1>2, <1>3
<1>5. /\ Listed(group, haunted, file) /\ Listed(plan.back, haunted, file)
      /\ Cleared(req[r], group, plan) /\ Found(req[r], plan, haunted, file)
  BY DEF ListInv, ListOK
<1>6. haunted \subseteq haunted'
  BY <1>2 DEF Noted
<1>7. \A f : Listed(f, haunted, file) => Listed(f, haunted', file')
  BY <1>3, <1>6 DEF Listed
<1>8. Listed(group', haunted', file')
  <2>1. CASE call.name = "set"
    <3>1. haunted' = haunted \cup {t \in group'[g].has \ group[g].has : ~Held(t)}
      BY <1>2, <2>1 DEF Noted
    <3> QED  BY <1>3, <1>4, <1>5, <3>1 DEF Listed, Held
  <2>2. CASE call.name # "set"
    <3>1. Listed(plan.to, haunted, file)
      BY <1>1, <1>5, <2>2 DEF Found, HoldsGroups
    <3> QED  BY <1>3, <1>4, <1>5, <1>6, <3>1 DEF Listed
  <2> QED  BY <2>1, <2>2
<1>9. \/ plan'.back = plan.back /\ plan'.to = plan.to /\ UNCHANGED req /\ Remaining(g) # {}
      \/ plan' = NoPlan
  BY <1>2, <1>3, NextFileTyped DEF Released, NextFile
<1>10. Listed(plan'.back, haunted', file')
  <2>1. CASE plan' = NoPlan
    BY <2>1, NothingPlanned DEF Listed
  <2>2. CASE plan'.back = plan.back
    BY <1>5, <1>7, <2>2
  <2> QED  BY <1>9, <2>1, <2>2
<1>11. call.name = "strip" /\ Remaining(g) = {}
       => \A h \in Groups : \A t \in call.ts : t \notin group'[h].has
  BY <1>1, <1>4, <1>5 DEF Cleared, Remaining
<1>12. ASSUME NEW s \in Requests, s # r
       PROVE  ListOK(req[s], group', plan', relisted', haunted', file')
  <2>1. ~HoldsGroups(req[s])
    BY <1>1, <1>12 DEF TypeInv, LockInv, Owns
  <2>2. Cleared(req[s], group', plan') /\ Found(req[s], plan', haunted', file')
    BY <2>1 DEF Cleared, Found, HoldsGroups
  <2>3. Gone(req[s], group, relisted) /\ Gone(req[s], plan.back, relisted)
    BY DEF ListInv, ListOK
  <2>4. ASSUME req[s].at \in {"unlinking", "unlink"}, NEW t \in req[s].ts, NEW h \in Groups,
               t \in group'[h].has
        PROVE  t \in relisted'
    <3>1. t \in relisted \/ t \in {u \in group'[g].has \ group[g].has : BeingRemoved(u)}
      <4>1. CASE t \in group[h].has
        BY <2>3, <2>4, <4>1 DEF Gone
      <4>2. CASE t \notin group[h].has
        <5>1. h = g
          BY <1>4, <2>4, <4>2
        <5>2. req[s].op = "remove"
          BY <2>4 DEF TypeInv, ReqOK, Shape
        <5>3. BeingRemoved(t)
          BY <2>4, <5>2 DEF BeingRemoved
        <5> QED  BY <2>4, <4>2, <5>1, <5>3
      <4> QED  BY <4>1, <4>2
    <3>2. ~(call.name = "strip" /\ Remaining(g) = {} /\ t \in call.ts)
      BY <1>11, <2>4
    <3> QED  BY <1>2, <3>1, <3>2 DEF Noted
  <2>5. Gone(req[s], plan'.back, relisted')
    <3>1. CASE plan' = NoPlan
      BY <3>1, NothingPlanned DEF Gone
    <3>2. CASE plan'.back = plan.back /\ Remaining(g) # {}
      <4>1. relisted \subseteq relisted'
        BY <1>2, <3>2 DEF Noted
      <4> QED  BY <2>3, <3>2, <4>1 DEF Gone
    <3> QED  BY <1>9, <3>1, <3>2
  <2> QED  BY <2>2, <2>4, <2>5 DEF ListOK, Gone
<1>13. CASE Remaining(g) # {} /\ NextFile(g)
  <2>1. /\ req' = req /\ plan'.now = plan.now \ {g} /\ plan'.next = plan.next \ {g}
        /\ plan'.to = plan.to
    BY <1>3, <1>13, NextFileTyped DEF NextFile
  <2>2. Gone(req[r], group', relisted') /\ Gone(req[r], plan'.back, relisted')
    BY <1>1 DEF Gone
  <2>3. Cleared(req[r], group', plan')
    BY <1>4, <1>5, <2>1 DEF Cleared
  <2>4. Found(req[r], plan', haunted', file')
    BY <1>5, <1>7, <2>1 DEF Found
  <2>5. ListOK(req[r], group', plan', relisted', haunted', file')
    BY <2>2, <2>3, <2>4 DEF ListOK
  <2> QED  BY <1>8, <1>10, <1>12, <2>1, <2>5 DEF ListInv
<1>14. CASE Remaining(g) = {} /\ Released(r)
  <2>1. PICK at \in {req[r].ok, req[r].err} : Becomes(r, Went(req[r], at)) /\ plan' = NoPlan
    BY <1>14 DEF Released
  <2> DEFINE p == Went(req[r], at)
  <2>2. p.ts = req[r].ts /\ ~HoldsGroups(p)
    <3> HIDE DEF p
    <3>1. p = Went(req[r], at)
      BY DEF p
    <3> QED  BY <1>1, <1>3, <3>1, WentIs
  <2>3. Becomes(r, p) /\ (call.name # "strip" => Elsewhere(p))
    BY <1>1, <2>1, WentElsewhere
  <2> HIDE DEF p
  <2>4. Gone(p, group', relisted')
    <3>1. CASE call.name = "strip"
      <4>1. req[r].ts = call.ts
        BY <1>1, <1>3, <3>1 DEF Shape, Calling1, Onward, GroupOps
      <4> QED  BY <1>11, <1>14, <2>2, <3>1, <4>1 DEF Gone
    <3>2. CASE call.name # "strip"
      BY <2>3, <3>2 DEF Gone, Elsewhere
    <3> QED  BY <3>1, <3>2
  <2>5. Gone(p, plan'.back, relisted')
    BY <2>1, NothingPlanned DEF Gone
  <2>6. Cleared(p, group', plan') /\ Found(p, plan', haunted', file')
    BY <2>2 DEF Cleared, Found, HoldsGroups
  <2>7. ASSUME NEW s \in Requests
        PROVE  ListOK(req'[s], group', plan', relisted', haunted', file')
    <3>1. CASE s = r
      BY <2>3, <2>4, <2>5, <2>6, <3>1 DEF ListOK, Becomes
    <3>2. CASE s # r
      BY <1>12, <2>3, <3>2 DEF Becomes
    <3> QED  BY <3>1, <3>2
  <2> QED  BY <1>8, <1>10, <2>7 DEF ListInv
<1> QED  BY <1>2, <1>13, <1>14

LEMMA ListGroupEnds ==
  ASSUME TypeInv, ListInv, NEW r \in Requests,
         GroupCallFails(r) \/ RollBackCreation(r) \/ RollBackFails(r)
  PROVE  ListInv'
<1>1. CASE GroupCallFails(r)
  <2>1. /\ UNCHANGED <<files, relisted, haunted, overwritten>> /\ req[r].at \in {"group", "write"}
        /\ Becomes(r, Went(req[r], req[r].err))
        /\ groupLock \notin {None, r} => plan' = plan
        /\ plan' = plan \/ plan' = NoPlan
    BY <1>1, CallFailsKeeps DEF Released
  <2>2. Apart(r)
    BY <2>1, FilesApart
  <2>3. Elsewhere(Went(req[r], req[r].err))
    BY <2>1, WentElsewhere
  <2> QED  BY <2>1, <2>2, <2>3, ListElsewhere
<1>2. CASE RollBackCreation(r)
  <2>1. UNCHANGED <<files, groupLock, history>> /\ groupLock = r /\ plan \in Plans
    BY <1>2, RollBackKeeps DEF TypeInv, VarsOK, LocksOK
  <2>2. PICK p : Becomes(r, p) /\ p.at = "write" /\ p.call.name = "uncreate"
    BY <1>2, RollBackKeeps
  <2>3. plan' = [plan EXCEPT !.now = {req[r].call.g}, !.to = plan.back,
                   !.next = Evictions(plan.back, req[r].call.g, req[r].call.ts)]
    BY <1>2, RollBackKeeps
  <2>4. plan'.to = plan.back /\ plan'.back = plan.back
    BY <2>1, <2>3 DEF Plans
  <2>5. Apart(r)
    BY <2>1, <2>4, FilesApart DEF history
  <2>6. Gone(p, group, relisted) /\ Gone(p, plan'.back, relisted) /\ Cleared(p, group, plan')
    BY <2>2 DEF Gone, Cleared
  <2>7. Found(p, plan', haunted', file')
    BY <2>1, <2>4 DEF Found, ListInv, history, files
  <2> QED  BY <2>2, <2>5, <2>6, <2>7, ListApart DEF ListOK
<1>3. CASE RollBackFails(r)
  <2>1. /\ UNCHANGED <<files, relisted, haunted, overwritten>> /\ groupLock = r
        /\ req[r].at = "write" /\ req[r].call.name = "uncreate"
    BY <1>3, RollBackFailsKeeps
  <2>2. CASE Released(r)
    <3>1. PICK at \in {req[r].ok, req[r].err} : Becomes(r, Went(req[r], at)) /\ plan' = NoPlan
      BY <2>2 DEF Released
    <3>2. Elsewhere(Went(req[r], at))
      BY <2>1, WentElsewhere
    <3>3. Apart(r)
      BY <2>1, <3>1, FilesApart
    <3> QED  BY <3>1, <3>2, <3>3, ListElsewhere
  <2>3. ASSUME NEW g, NextFile(g)
        PROVE  ListInv'
    <3>1. Becomes(r, req[r])
      BY <2>3 DEF NextFile, Becomes, TypeInv, ReqOK
    <3>2. plan'.to = plan.to /\ plan'.back = plan.back
      BY <2>3, NextFileTyped DEF NextFile, TypeInv, VarsOK
    <3>3. Apart(r)
      BY <2>1, <3>2, FilesApart
    <3>4. Gone(req[r], group, relisted) /\ Gone(req[r], plan'.back, relisted)
          /\ Cleared(req[r], group, plan')
      BY <2>1 DEF Gone, Cleared
    <3>5. Found(req[r], plan', haunted', file')
      BY <2>1, <3>2 DEF Found, ListInv, ListOK, files
    <3> QED  BY <3>1, <3>3, <3>4, <3>5, ListApart DEF ListOK
  <2>4. Released(r) \/ \E g \in Wave : Remaining(g) # {} /\ NextFile(g)
    BY <1>3, RollBackFailsKeeps
  <2> QED  BY <2>2, <2>3, <2>4
<1> QED  BY <1>1, <1>2, <1>3

LEMMA ListBegins ==
  ASSUME TypeInv, ListInv, NEW r \in Requests, Begin(r)
  PROVE  ListInv'
<1>1. PICK p : Fresh(p) /\ Becomes(r, p)
  BY BeginKeeps
<1>2. Apart(r)
  BY FilesApart DEF Begin, history
<1>3. Elsewhere(p)
  BY <1>1 DEF Fresh, Elsewhere, HoldsGroups
<1> QED  BY <1>1, <1>2, <1>3, ListElsewhere

LEMMA ListLocks ==
  ASSUME TypeInv, ListInv, NEW r \in Requests, LockTicket(r)
  PROVE  ListInv'
<1>1. UNCHANGED <<files, groupLock, plan, history, failures>> /\ req[r].at \in Locking
  BY LockKeeps
<1>2. Apart(r)
  BY <1>1, FilesApart DEF history
<1>3. CASE Becomes(r, req[r])
  <2>1. req[r].at \notin {"unlink", "write"}
    BY <1>1 DEF Locking
  <2> QED  BY <1>1, <1>2, <1>3, <2>1, ListStays
<1>4. CASE Becomes(r, [req[r] EXCEPT !.at = Afterwards(req[r])])
  <2> DEFINE p == [req[r] EXCEPT !.at = Afterwards(req[r])]
  <2>1. req[r] \in RequestRecords /\ Shape(req[r])
    BY DEF TypeInv, ReqOK
  <2>2. /\ Becomes(r, p) /\ p.at \in MustHold /\ p.at = Afterwards(req[r]) /\ p.ts = req[r].ts
        /\ (HoldsGroups(p) <=> HoldsGroups(req[r])) /\ p.call = req[r].call
    BY <1>1, <1>4, <2>1, AfterwardsIs
  <2> HIDE DEF p
  <2>3. p.at = "unlink" => req[r].at = "unlinking"
    BY <1>1, <2>1, <2>2 DEF Afterwards, Locking, Shape
  <2>4. p.at \notin {"unlinking", "write"}
    BY <2>2 DEF MustHold
  <2> QED  BY <1>1, <1>2, <2>2, <2>3, <2>4, ListStays
<1>5. Becomes(r, req[r]) \/ Becomes(r, [req[r] EXCEPT !.at = Afterwards(req[r])])
  BY LockKeeps
<1> QED  BY <1>3, <1>4, <1>5

\* The file of a ticket is written: nothing that is listed goes away.
LEMMA StoredApart ==
  ASSUME TypeInv, NEW r \in Requests, NEW t \in Tickets, NEW d, Stored(t, d), group' = group,
         haunted' = haunted, relisted' = relisted, groupLock \notin {None, r} => plan' = plan,
         plan' = plan \/ plan' = NoPlan
  PROVE  Apart(r)
  BY DEF Apart, Stored

LEMMA ListTickets ==
  ASSUME TypeInv, ListInv, NEW r \in Requests,
         ReadTicket(r) \/ PatchTicket(r) \/ Unlink(r) \/ Stops(r)
  PROVE  ListInv'
<1>1. CASE ReadTicket(r)
  <2>1. UNCHANGED <<files, history, failures>>
    BY <1>1, ReadKeeps
  <2>2. CASE Ends(r, "failed", FALSE)
    <3>1. Apart(r)
      BY <2>1, <2>2, FilesApart DEF Ends, history
    <3> QED  BY <2>2, <3>1, ListEnds
  <2>3. ASSUME NEW p, UNCHANGED <<groupLock, docLock, plan>>, Becomes(r, p), p.at = "patch",
               p.op = req[r].op, p.call = req[r].call
        PROVE  ListInv'
    <3>1. Apart(r)
      BY <2>1, <2>3, FilesApart DEF history
    <3>2. HoldsGroups(p) => HoldsGroups(req[r])
      BY <2>3, ReadKeeps, <1>1 DEF HoldsGroups
    <3> QED  BY <2>3, <3>1, <3>2, ListStays
  <2> QED  BY <1>1, <2>2, <2>3, ReadKeeps
<1>2. CASE PatchTicket(r)
  <2>1. UNCHANGED <<born, group, history, failures>>
    BY <1>2, PatchKeeps
  <2>2. PICK t \in Tickets : Stored(t, req[r].copy[t])
    BY <1>2, PatchKeeps
  <2>3. CASE Ends(r, "done", FALSE)
    <3>1. Apart(r)
      BY <2>1, <2>2, <2>3, StoredApart DEF Ends, history
    <3> QED  BY <2>3, <3>1, ListEnds
  <2>4. ASSUME NEW p, UNCHANGED <<groupLock, plan>>, Becomes(r, p), p.call.name = "moveInGroup",
               p.at = "write", p.call = req[r].call, req[r].op = "moveInGroup"
        PROVE  ListInv'
    <3>1. Apart(r)
      BY <2>1, <2>2, <2>4, StoredApart DEF history
    <3>2. HoldsGroups(req[r])
      BY <1>2, <2>4, PatchKeeps DEF HoldsGroups
    <3> QED  BY <2>4, <3>1, <3>2, ListStays
  <2> QED  BY <1>2, <2>3, <2>4, PatchKeeps
<1>3. CASE Unlink(r)
  <2>1. UNCHANGED <<born, group, torn, relisted, overwritten, failures>> /\ req[r].at = "unlink"
    BY <1>3, UnlinkKeeps
  <2>2. PICK t \in Tickets :
          /\ req[r].ts = {t}
          /\ \/ /\ Deleted(t) /\ Ends(r, "done", FALSE)
                /\ haunted' = IF ListedMeanwhile(t) THEN haunted \cup {t} ELSE haunted
             \/ t \notin file /\ UNCHANGED <<file, text, haunted>> /\ Ends(r, "failed", FALSE)
    BY <1>3, UnlinkKeeps
  <2>3. Gone(req[r], group, relisted) /\ Gone(req[r], plan.back, relisted)
    BY DEF ListInv, ListOK
  <2>4. ASSUME NEW g \in Groups, t \in group[g].has \cup plan.to[g].has \cup plan.back[g].has
        PROVE  ListedMeanwhile(t)
    BY <2>1, <2>2, <2>3, <2>4 DEF Gone, ListedMeanwhile
  <2>5. \A u \in file : \/ u \in file' \cup haunted'
                        \/ \A g \in Groups : u \notin group[g].has \cup plan.to[g].has \cup plan.back[g].has
    BY <2>2, <2>4 DEF Deleted
  <2>6. haunted \subseteq haunted'
    BY <2>2
  <2>7. (groupLock \notin {None, r} => plan' = plan) /\ (plan' = plan \/ plan' = NoPlan)
    BY <2>2 DEF Ends
  <2>8. Apart(r)
    BY <2>1, <2>5, <2>6, <2>7 DEF Apart
  <2> QED  BY <2>2, <2>8, ListEnds
<1>4. CASE Stops(r)
  <2>1. UNCHANGED <<files, history>>
    BY <1>4, StopsKeeps
  <2>2. PICK cut \in BOOLEAN : Ends(r, "failed", cut)
    <3> DEFINE late == req[r].at \in {"relock", "recording", "record"}
    <3>1. Ends(r, "failed", late)
      BY <1>4, StopsKeeps
    <3>2. late \in BOOLEAN
      OBVIOUS
    <3> HIDE DEF late
    <3> QED  BY <3>1, <3>2
  <2>3. Apart(r)
    BY <2>1, <2>2, FilesApart DEF Ends, history
  <2> QED  BY <2>2, <2>3, ListEnds
<1> QED  BY <1>1, <1>2, <1>3, <1>4

LEMMA ListBulk ==
  ASSUME TypeInv, ListInv, NEW r \in Requests, BulkStep(r)
  PROVE  ListInv'
<1>1. CASE ReadTickets(r)
  <2>1. UNCHANGED <<files, history, failures>>
    BY <1>1, ReadBulkKeeps
  <2>2. CASE Ends(r, "failed", FALSE)
    <3>1. Apart(r)
      BY <2>1, <2>2, FilesApart DEF Ends, history
    <3> QED  BY <2>2, <3>1, ListEnds
  <2>3. ASSUME NEW p, UNCHANGED <<groupLock, docLock, plan>>, Becomes(r, p), p.at = "bulk"
        PROVE  ListInv'
    <3>1. Apart(r)
      BY <2>1, <2>3, FilesApart DEF history
    <3>2. Elsewhere(p)
      BY <2>3 DEF Elsewhere, HoldsGroups
    <3> QED  BY <2>3, <3>1, <3>2, ListElsewhere
  <2> QED  BY <1>1, <2>2, <2>3, ReadBulkKeeps
<1>2. ASSUME NEW interrupted \in BOOLEAN, WriteNext(r, interrupted)
      PROVE  ListInv'
  <2>1. UNCHANGED <<born, group, groupLock, docLock, plan, history>>
    BY <1>2, WriteNextKeeps
  <2>2. PICK t \in Tickets, p \in RequestRecords :
          /\ t \in req[r].todo /\ Stored(t, req[r].copy[t]) /\ docLock[t] = r
          /\ Becomes(r, p)
          /\ p.op = req[r].op /\ p.ts = req[r].ts /\ p.new = req[r].new /\ p.copy = req[r].copy
          /\ \/ p.at = "revert" /\ p.cut = TRUE
             \/ /\ p.at = "bulk" /\ p.todo = req[r].todo \ {t} /\ p.done = req[r].done \cup {t}
                /\ p.cut = req[r].cut
    BY <1>2, WriteNextKeeps
  <2>3. Apart(r)
    BY <2>1, <2>2, StoredApart DEF history
  <2>4. Elsewhere(p)
    BY <2>2 DEF Elsewhere, HoldsGroups
  <2> QED  BY <2>2, <2>3, <2>4, ListElsewhere
<1>3. CASE BulkFails(r)
  <2>1. UNCHANGED <<files, groupLock, docLock, plan, history>>
    BY <1>3, BulkFailsKeeps
  <2>2. PICK p : Becomes(r, p) /\ p.at = "revert"
    BY <1>3, BulkFailsKeeps
  <2>3. Apart(r)
    BY <2>1, FilesApart DEF history
  <2>4. Elsewhere(p)
    BY <2>2 DEF Elsewhere, HoldsGroups
  <2> QED  BY <2>2, <2>3, <2>4, ListElsewhere
<1>4. CASE BulkWritten(r) \/ LeaveSprint(r) \/ Rejoin(r)
  <2>1. UNCHANGED <<files, groupLock, plan, history, failures>>
    BY <1>4, BulkWrittenKeeps, LeaveKeeps, RejoinKeeps
  <2>2. Sprinting(r, {"leave", "group", "relock"})
    BY <1>4, BulkWrittenKeeps, LeaveKeeps, RejoinKeeps DEF Sprinting
  <2>3. Apart(r)
    BY <2>1, FilesApart DEF history
  <2>4. CASE Becomes(r, Over(req[r], "done", req[r].cut))
    <3>1. req[r] \in RequestRecords /\ req[r].cut \in BOOLEAN
      BY DEF TypeInv, ReqOK, RequestRecords
    <3>2. Elsewhere(Over(req[r], "done", req[r].cut))
      BY <3>1, OverElsewhere
    <3> QED  BY <2>3, <2>4, <3>2, ListElsewhere
  <2>5. ASSUME NEW p, Becomes(r, p), p.at \in {"leave", "group", "relock"}
        PROVE  ListInv'
    <3>1. Elsewhere(p)
      BY <2>5 DEF Elsewhere, HoldsGroups
    <3> QED  BY <2>3, <2>5, <3>1, ListElsewhere
  <2> QED  BY <2>2, <2>4, <2>5 DEF Sprinting
<1>5. CASE Revert(r)
  <2>1. UNCHANGED <<born, group, history>>
    BY <1>5, RevertKeeps
  <2>2. CASE UNCHANGED <<file, text>> /\ Ends(r, "failed", req[r].cut)
    <3>1. Apart(r)
      BY <2>1, <2>2, FilesApart DEF Ends, history, files
    <3>2. req[r].cut \in BOOLEAN
      BY DEF TypeInv, ReqOK, RequestRecords
    <3> QED  BY <2>2, <3>1, <3>2, ListEnds
  <2>3. ASSUME NEW t \in Tickets, NEW p, UNCHANGED <<groupLock, docLock, plan>>, Becomes(r, p),
               Stored(t, text[t] \ {r}) \/ UNCHANGED <<file, text>>, p.at = "revert"
        PROVE  ListInv'
    <3>1. Apart(r)
      <4>1. CASE Stored(t, text[t] \ {r})
        BY <2>1, <2>3, <4>1, StoredApart DEF history
      <4>2. CASE UNCHANGED <<file, text>>
        BY <2>1, <2>3, <4>2, FilesApart DEF history, files
      <4> QED  BY <2>3, <4>1, <4>2
    <3>2. Elsewhere(p)
      BY <2>3 DEF Elsewhere, HoldsGroups
    <3> QED  BY <2>3, <3>1, <3>2, ListElsewhere
  <2>4. \/ UNCHANGED <<file, text>> /\ Ends(r, "failed", req[r].cut)
        \/ \E t \in Tickets, p \in RequestRecords :
             /\ UNCHANGED <<groupLock, docLock, plan>> /\ Becomes(r, p) /\ p.at = "revert"
             /\ Stored(t, text[t] \ {r}) \/ UNCHANGED <<file, text>>
    BY <1>5, RevertKeeps
  <2> QED  BY <2>2, <2>3, <2>4
<1> QED  BY <1>1, <1>2, <1>3, <1>4, <1>5 DEF BulkStep

LEMMA ListSplits ==
  ASSUME TypeInv, ListInv, NEW r \in Requests, SplitStep(r)
  PROVE  ListInv'
<1>1. CASE ReadSplit(r)
  <2>1. UNCHANGED <<files, history, failures>>
    BY <1>1, ReadSplitKeeps
  <2>2. CASE Ends(r, "failed", FALSE)
    <3>1. Apart(r)
      BY <2>1, <2>2, FilesApart DEF Ends, history
    <3> QED  BY <2>2, <3>1, ListEnds
  <2>3. ASSUME NEW p, UNCHANGED <<groupLock, docLock, plan>>, Becomes(r, p), p.at = "birth"
        PROVE  ListInv'
    <3>1. Apart(r)
      BY <2>1, <2>3, FilesApart DEF history
    <3>2. Elsewhere(p)
      BY <2>3 DEF Elsewhere, HoldsGroups
    <3> QED  BY <2>3, <3>1, <3>2, ListElsewhere
  <2> QED  BY <1>1, <2>2, <2>3, ReadSplitKeeps
<1>2. CASE WriteNew(r)
  <2>1. UNCHANGED <<group, groupLock, docLock, plan, history, failures>>
    BY <1>2, WriteNewKeeps
  <2>2. PICK n \in Tickets \ born, p \in RequestRecords :
          Stored(n, {r}) /\ Becomes(r, p) /\ p.at = "retain"
    BY <1>2, WriteNewKeeps
  <2>3. Apart(r)
    BY <2>1, <2>2, StoredApart DEF history
  <2>4. Elsewhere(p)
    BY <2>2 DEF Elsewhere, HoldsGroups
  <2> QED  BY <2>2, <2>3, <2>4, ListElsewhere
<1>3. CASE Retain(r)
  <2>1. UNCHANGED <<born, group, groupLock, plan, history, failures>>
    BY <1>3, RetainKeeps
  <2>2. PICK t \in Tickets : Stored(t, text[t] \cup {r})
    BY <1>3, RetainKeeps
  <2>3. PICK p : Becomes(r, p) /\ p.at \in {"group", "assign"}
    BY <1>3, RetainKeeps
  <2>4. Apart(r)
    BY <2>1, <2>2, StoredApart DEF history
  <2>5. Elsewhere(p)
    BY <2>3 DEF Elsewhere, HoldsGroups
  <2> QED  BY <2>3, <2>4, <2>5, ListElsewhere
<1>4. CASE SplitFails(r)
  <2>1. UNCHANGED <<files, groupLock, docLock, plan, history>>
    BY <1>4, SplitFailsKeeps
  <2>2. PICK p : Becomes(r, p) /\ p.at = "discard"
    BY <1>4, SplitFailsKeeps
  <2>3. Apart(r)
    BY <2>1, FilesApart DEF history
  <2>4. Elsewhere(p)
    BY <2>2 DEF Elsewhere, HoldsGroups
  <2> QED  BY <2>2, <2>3, <2>4, ListElsewhere
<1>5. CASE AssignNew(r) \/ UndoSprints(r)
  <2>1. UNCHANGED <<files, groupLock, docLock, plan, history, failures>>
    BY <1>5, AssignKeeps, UndoKeeps
  <2>2. PICK p : Becomes(r, p) /\ Asks(p, req[r])
    BY <1>5, AssignKeeps, UndoKeeps
  <2>3. Apart(r)
    BY <2>1, FilesApart DEF history
  <2>4. Elsewhere(p)
    BY <2>2 DEF Elsewhere, HoldsGroups, Asks
  <2> QED  BY <2>2, <2>3, <2>4, ListElsewhere
<1>6. CASE Record(r)
  <2>1. UNCHANGED <<files, history, failures>> /\ Ends(r, "done", FALSE)
    BY <1>6, RecordKeeps
  <2>2. Apart(r)
    BY <2>1, FilesApart DEF Ends, history
  <2> QED  BY <2>1, <2>2, ListEnds
<1>7. ASSUME NEW fails \in BOOLEAN, Discard(r, fails)
      PROVE  ListInv'
  <2>1. UNCHANGED <<born, group, groupLock, docLock, plan, torn, relisted>>
    BY <1>7, DiscardKeeps
  <2>2. PICK p \in RequestRecords : Becomes(r, p) /\ p.at = "restore"
    BY <1>7, DiscardKeeps
  <2>3. Elsewhere(p)
    BY <2>2 DEF Elsewhere, HoldsGroups
  <2>4. CASE UNCHANGED <<file, text, haunted, overwritten>>
    <3>1. Apart(r)
      BY <2>1, <2>4, FilesApart DEF files
    <3> QED  BY <2>2, <2>3, <3>1, ListElsewhere
  <2>5. CASE /\ req[r].new \in Tickets /\ Deleted(req[r].new)
             /\ haunted' = IF InLists(req[r].new) THEN haunted \cup {req[r].new} ELSE haunted
    <3>1. \A t \in file : \/ t \in file' \cup haunted' \/ ~InLists(t)
      BY <2>5 DEF Deleted
    <3>2. Apart(r)
      BY <2>1, <2>5, <3>1 DEF Apart, InLists
    <3> QED  BY <2>2, <2>3, <3>2, ListElsewhere
  <2> QED  BY <1>7, <2>4, <2>5, DiscardKeeps
<1>8. ASSUME NEW fails \in BOOLEAN, Restore(r, fails)
      PROVE  ListInv'
  <2>1. UNCHANGED <<born, group, torn, relisted, haunted>>
    BY <1>8, RestoreKeeps
  <2>2. PICK t \in Tickets : Stored(t, req[r].copy[t]) \/ UNCHANGED <<file, text>>
    BY <1>8, RestoreKeeps
  <2>3. PICK cut \in BOOLEAN : Ends(r, "failed", cut)
    BY <1>8, RestoreKeeps
  <2>4. Apart(r)
    BY <2>1, <2>2, <2>3 DEF Apart, Stored, Ends
  <2> QED  BY <2>3, <2>4, ListEnds
<1> QED  BY <1>1, <1>2, <1>3, <1>4, <1>5, <1>6, <1>7, <1>8 DEF SplitStep

LEMMA ListCrashes ==
  ASSUME TypeInv, ListInv, Crash
  PROVE  ListInv'
<1>1. /\ UNCHANGED <<files, relisted, haunted, overwritten>>
      /\ plan' = NoPlan
      /\ \A r \in Requests :
           req'[r] = IF req[r].at \in Ended THEN req[r] ELSE Over(req[r], "failed", TRUE)
  BY CrashKeeps
<1>2. ASSUME NEW r \in Requests
      PROVE  Elsewhere(req'[r])
  <2>1. CASE req[r].at \in Ended
    BY <1>1, <2>1 DEF Ended, Elsewhere, HoldsGroups
  <2>2. CASE req[r].at \notin Ended
    <3>1. Elsewhere(Over(req[r], "failed", TRUE))
      BY OverElsewhere DEF TypeInv, ReqOK
    <3> QED  BY <1>1, <2>2, <3>1
  <2> QED  BY <2>1, <2>2
<1>3. Listed(group', haunted', file') /\ Listed(plan'.back, haunted', file')
  BY <1>1, NothingPlanned DEF files, ListInv, Listed
<1>4. ASSUME NEW r \in Requests
      PROVE  ListOK(req'[r], group', plan', relisted', haunted', file')
  BY <1>2 DEF Elsewhere, HoldsGroups, Gone, Cleared, Found, ListOK
<1> QED  BY <1>3, <1>4 DEF ListInv

LEMMA ListInit == Init => ListInv
<1> SUFFICES ASSUME Init PROVE ListInv
  OBVIOUS
<1>1. Listed(group, haunted, file)
  BY GroupsAssumption DEF Init, Listed
<1>2. Listed(plan.back, haunted, file)
  BY NothingPlanned DEF Init, Listed
<1>3. \A r \in Requests : req[r].at = "idle"
  BY IdleTyped DEF Init
<1>4. \A r \in Requests : ListOK(req[r], group, plan, relisted, haunted, file)
  BY <1>3 DEF ListOK, Gone, Cleared, Found, HoldsGroups
<1> QED  BY <1>1, <1>2, <1>4 DEF ListInv

LEMMA ListNext == TypeInv /\ Unplanned /\ ListInv /\ [Next]_vars => ListInv'
<1> SUFFICES ASSUME TypeInv, Unplanned, ListInv, [Next]_vars PROVE ListInv'
  OBVIOUS
<1>1. ASSUME NEW r \in Requests, GroupStep(r)
      PROVE  ListInv'
  BY <1>1, ListReads, ListStrips, ListWrites, ListGroupEnds DEF GroupStep, Reader
<1>2. ASSUME NEW r \in Requests, TicketStep(r)
      PROVE  ListInv'
  BY <1>2, ListLocks, ListTickets DEF TicketStep
<1>3. CASE UNCHANGED vars
  BY <1>3 DEF vars, ListInv, Listed, ListOK, Gone, Cleared, Found
<1> QED  BY <1>1, <1>2, <1>3, ListBegins, ListBulk, ListSplits, ListCrashes DEF Next

\* However removals, splits, moves and bulk updates interleave, and wherever they stop, a group
\* lists no ticket that has no file: a removal clears every list before the file goes, and who
\* lists a ticket has looked for it under the lock under which it writes.  What is left out is
\* told by haunted: a ticket that was there when it was looked for and was taken away before, or
\* after, it was listed; and one that setSprintMembership, which looks for nothing, listed.
THEOREM ListedTicketsThere == Spec => []ListedTicketsExist
<1>1. Init => TypeInv /\ Unplanned /\ ListInv
  BY TypeInit, UnplannedInit, ListInit
<1>2. TypeInv /\ Unplanned /\ ListInv /\ [Next]_vars => TypeInv' /\ Unplanned' /\ ListInv'
  BY TypeNext, UnplannedNext, ListNext
<1>3. TypeInv /\ ListInv => ListedTicketsExist
  BY ListInvImplies
<1> QED  BY <1>1, <1>2, <1>3, PTL DEF Spec

-------------------------------------------------------------------------------
(* A bulk update or a split that failed leaves nothing.                       *)

\* What is not there is empty, and what is there was born.
FilesTrue(fl, tx, bo) == fl \subseteq bo /\ \A t \in Tickets : t \notin fl => tx[t] = {}

\* The tickets of which a request is going to write what it read, if it has their locks.
CopyStages == {"patch", "bulk", "birth", "retain", "discard", "restore"}
Copied(r, q, t, dl) ==
  \/ (q.at = "patch" /\ t \in q.ts)
  \/ (q.at = "bulk" /\ t \in q.todo)
  \/ (q.at \in {"birth", "retain", "discard", "restore"} /\ t \in q.ts /\ dl[t] = r)

Names(q, bo) == q.ts \subseteq bo /\ q.new \in bo \cup {None} /\ q.new \notin q.ts

\* What it writes is in the file already, but for its own change.
Copies(r, q, fl, tx, ow, dl) ==
  \A t \in Tickets \ ow : Copied(r, q, t, dl) => q.copy[t] \ {r} \subseteq tx[t] /\ t \in fl

\* The change of a bulk update is in the tickets that it noted, or it was cut.
Blamed(q) == q.at = "idle" \/ (q.op = "bulkUpdate" /\ q.at # "done")
Blame(r, q, tx, ow) ==
  Blamed(q) => \A t \in Tickets \ ow : r \in tx[t] => q.cut \/ t \in q.done
Clean(q) ==
  /\ q.at = "idle" => ~q.cut /\ q.done = {}
  /\ q.at = "failed" => q.done = {}
  /\ q.op = "bulkUpdate" /\ q.at \in {"lock", "read"} => ~q.cut

\* What a split created is away, once it has come to its original.
NoNew(q, fl, ow) ==
  q.op = "split" /\ q.at \in {"restore", "failed"} =>
    q.cut \/ q.new \in ow \cup {None} \/ q.new \notin fl

Sound(r, q, fl, tx, bo, ow, dl) ==
  Names(q, bo) /\ Copies(r, q, fl, tx, ow, dl) /\ Blame(r, q, tx, ow) /\ Clean(q) /\ NoNew(q, fl, ow)

FailInv ==
  /\ FilesTrue(file, text, born)
  /\ \A r \in Requests : Sound(r, req[r], file, text, born, overwritten, docLock)

LEMMA FailInvImplies == FailInv => FailedLeavesNothing
<1> SUFFICES ASSUME FailInv, NEW r \in Requests, req[r].at = "failed", ~req[r].cut
             PROVE  /\ req[r].op = "bulkUpdate" => \A t \in Tickets \ overwritten : r \notin text[t]
                    /\ req[r].op = "split" /\ req[r].new \notin overwritten \cup {None} =>
                         ~Held(req[r].new)
  BY DEF FailedLeavesNothing, At
<1>1. Sound(r, req[r], file, text, born, overwritten, docLock)
  BY DEF FailInv
<1>2. req[r].done = {}
  BY <1>1 DEF Sound, Clean
<1>3. req[r].op = "bulkUpdate" => \A t \in Tickets \ overwritten : r \notin text[t]
  BY <1>1, <1>2 DEF Sound, Blame, Blamed
<1>4. req[r].op = "split" /\ req[r].new \notin overwritten \cup {None} => ~Held(req[r].new)
  BY <1>1 DEF Sound, NoNew, Held
<1> QED  BY <1>3, <1>4

\* What a step of r does to the tickets of others: it writes what they have locked, brings back
\* what was removed, or adds somebody else's change, only where that is noted as overwritten.
Tame(r) ==
  /\ born \subseteq born' /\ overwritten \subseteq overwritten'
  /\ \A t \in Tickets \ overwritten' : \A s \in Requests : s # r /\ s \in text'[t] => s \in text[t]
  /\ \A t \in born \ overwritten' :
       /\ t \in file' => t \in file
       /\ docLock[t] \notin {None, r} => text'[t] = text[t] /\ (t \in file' <=> t \in file)

LEMMA FailAssemble ==
  ASSUME TypeInv, FailInv, NEW r \in Requests, NEW p, Becomes(r, p), Mine(r), Tame(r),
         FilesTrue(file', text', born'),
         Sound(r, p, file', text', born', overwritten', docLock')
  PROVE  FailInv'
<1>1. ASSUME NEW s \in Requests, s # r
      PROVE  Sound(s, req[s], file', text', born', overwritten', docLock')
  <2>0. Sound(s, req[s], file, text, born, overwritten, docLock)
    BY DEF FailInv
  <2>1. Names(req[s], born')
    BY <2>0 DEF Sound, Names, Tame
  <2>2. Clean(req[s])
    BY <2>0 DEF Sound
  <2>3. Blame(s, req[s], text', overwritten')
    BY <1>1, <2>0 DEF Sound, Blame, Tame
  <2>4. NoNew(req[s], file', overwritten')
    BY <2>0 DEF Sound, NoNew, Names, Tame
  <2>5. ASSUME NEW t \in Tickets \ overwritten', Copied(s, req[s], t, docLock')
        PROVE  req[s].copy[t] \ {s} \subseteq text'[t] /\ t \in file'
    <3>1. t \in req[s].ts
      BY <2>5 DEF Copied, TypeInv, ReqOK, Shape
    <3>2. docLock'[t] = s \/ docLock[t] = s
      BY <2>5, <3>1 DEF Copied, TypeInv, LockInv, Owns, MustHold
    <3>3. docLock[t] = s /\ docLock'[t] = s /\ s # None
      BY <1>1, <3>2, NoneIsNobody, GroupsAssumption DEF Mine
    <3>4. Copied(s, req[s], t, docLock)
      BY <2>5, <3>3 DEF Copied
    <3>5. t \in born \ overwritten'
      BY <2>0, <3>1 DEF Sound, Names
    <3>6. text'[t] = text[t] /\ (t \in file' <=> t \in file)
      BY <1>1, <3>3, <3>5 DEF Tame
    <3>7. t \notin overwritten
      BY DEF Tame
    <3> QED  BY <2>0, <3>4, <3>6, <3>7 DEF Sound, Copies
  <2>6. Copies(s, req[s], file', text', overwritten', docLock')
    BY <2>5 DEF Copies
  <2> QED  BY <2>1, <2>2, <2>3, <2>4, <2>6 DEF Sound
<1>2. \A s \in Requests : Sound(s, req'[s], file', text', born', overwritten', docLock')
  BY <1>1 DEF Becomes
<1> QED  BY <1>2 DEF FailInv

\* A step that writes no ticket.
LEMMA FailQuiet ==
  ASSUME TypeInv, FailInv, NEW r \in Requests, NEW p, Becomes(r, p), Mine(r),
         UNCHANGED <<file, text, born, overwritten>>,
         Sound(r, p, file, text, born, overwritten, docLock')
  PROVE  FailInv'
<1>1. Tame(r)
  BY DEF Tame
<1>2. FilesTrue(file', text', born')
  BY DEF FailInv
<1>3. Sound(r, p, file', text', born', overwritten', docLock')
  OBVIOUS
<1> QED  BY <1>1, <1>2, <1>3, FailAssemble

\* A request that is over.
LEMMA SoundOver ==
  ASSUME NEW r \in Requests, NEW q \in RequestRecords, NEW fl, NEW tx, NEW bo, NEW ow, NEW dl,
         Names(q, bo), NEW outcome \in {"done", "failed"}, NEW cut \in BOOLEAN,
         outcome = "failed" =>
           /\ q.op = "bulkUpdate" => cut \/ \A t \in Tickets \ ow : r \notin tx[t]
           /\ q.op = "split" => cut \/ q.new \in ow \cup {None} \/ q.new \notin fl
  PROVE  Sound(r, Over(q, outcome, cut), fl, tx, bo, ow, dl)
<1> DEFINE p == Over(q, outcome, cut)
<1>1. /\ p.op = q.op /\ p.at = outcome /\ p.ts = q.ts /\ p.new = q.new /\ p.cut = cut
      /\ p.done = {}
  <2> HIDE DEF p
  <2>1. p = Over(q, outcome, cut)
    BY DEF p
  <2> QED  BY <2>1, OverIs
<1> HIDE DEF p
<1>2. Names(p, bo)
  BY <1>1 DEF Names
<1>3. Copies(r, p, fl, tx, ow, dl)
  BY <1>1 DEF Copies, Copied
<1>4. Blame(r, p, tx, ow)
  BY <1>1 DEF Blame, Blamed
<1>5. Clean(p) /\ NoNew(p, fl, ow)
  BY <1>1 DEF Clean, NoNew
<1>6. Sound(r, p, fl, tx, bo, ow, dl)
  BY <1>2, <1>3, <1>4, <1>5 DEF Sound
<1> QED  BY <1>6 DEF p

\* A request that goes on, to a stage at which it writes no copy.
LEMMA SoundOn ==
  ASSUME NEW r \in Requests, NEW q, NEW p, NEW fl, NEW tx, NEW bo, NEW ow, NEW dl, NEW dl2,
         Sound(r, q, fl, tx, bo, ow, dl),
         p.op = q.op, p.ts = q.ts, p.new = q.new, p.cut = q.cut, p.done = q.done,
         p.at \notin CopyStages \cup {"idle", "failed", "lock", "read"}, q.at # "done"
  PROVE  Sound(r, p, fl, tx, bo, ow, dl2)
<1>1. Names(p, bo)
  BY DEF Sound, Names
<1>2. Copies(r, p, fl, tx, ow, dl2)
  BY DEF Copies, Copied, CopyStages
<1>3. Blame(r, p, tx, ow)
  BY DEF Sound, Blame, Blamed
<1>4. Clean(p) /\ NoNew(p, fl, ow)
  BY DEF Clean, NoNew, CopyStages
<1> QED  BY <1>1, <1>2, <1>3, <1>4 DEF Sound

\* The end of a call: only the calls of a group, of a removal and of a move end a request.
LEMMA SoundWent ==
  ASSUME NEW r \in Requests, NEW q \in RequestRecords, Shape(q), q.at \in {"group", "write"},
         NEW at \in {q.ok, q.err}, NEW fl, NEW tx, NEW bo, NEW ow, NEW dl,
         Sound(r, q, fl, tx, bo, ow, dl), \A t \in Tickets : dl[t] # r
  PROVE  Sound(r, Went(q, at), fl, tx, bo, ow, dl)
<1>0. Onward(q)
  BY DEF Shape, Calling1
<1> DEFINE p == Went(q, at)
<1>1. /\ p.at = at /\ at \in Waiting \cup {"done", "failed"}
      /\ p.op = q.op /\ p.ts = q.ts /\ p.new = q.new /\ p.cut = q.cut
      /\ at \in Waiting => p.done = q.done
      /\ at \notin Waiting => p.done = {}
  <2> HIDE DEF p
  <2>1. p = Went(q, at)
    BY DEF p
  <2> QED  BY <2>1, WentIs
<1> HIDE DEF p
<1>2. q.op = "bulkUpdate" => at # "failed"
  BY <1>0 DEF Onward, GroupOps
<1>3. q.op = "split" => at # "failed"
  BY <1>0 DEF Onward, GroupOps
<1>4. Names(p, bo)
  BY <1>1 DEF Sound, Names
<1>5. Copies(r, p, fl, tx, ow, dl)
  BY <1>1 DEF Copies, Copied, Waiting
<1>6. Clean(p) /\ NoNew(p, fl, ow)
  BY <1>1, <1>3 DEF Clean, NoNew, Waiting
<1>7. Blame(r, p, tx, ow)
  BY <1>1, <1>2 DEF Sound, Blame, Blamed, Waiting
<1>8. Sound(r, p, fl, tx, bo, ow, dl)
  BY <1>4, <1>5, <1>6, <1>7 DEF Sound
<1> QED  BY <1>8 DEF p

LEMMA SoundNow ==
  ASSUME TypeInv, FailInv, NEW r \in Requests
  PROVE  /\ req[r] \in RequestRecords /\ Shape(req[r]) /\ req[r].cut \in BOOLEAN
         /\ req[r].done \subseteq Tickets /\ req[r].todo \subseteq Tickets
         /\ req[r].ts \subseteq Tickets
         /\ Sound(r, req[r], file, text, born, overwritten, docLock)
  BY DEF TypeInv, ReqOK, FailInv, RequestRecords

\* A call ends, or goes on without the lock of a ticket.
LEMMA FailWent ==
  ASSUME TypeInv, FailInv, NEW r \in Requests, req[r].at \in {"group", "write"},
         NEW at \in {req[r].ok, req[r].err}, Becomes(r, Went(req[r], at)), Mine(r),
         docLock' = docLock, UNCHANGED <<file, text, born, overwritten>>
  PROVE  FailInv'
<1>1. \A t \in Tickets : docLock[t] # r
  BY HoldsNoTicket DEF MayHold, Locking
<1>2. Sound(r, Went(req[r], at), file, text, born, overwritten, docLock)
  BY <1>1, SoundNow, SoundWent
<1> QED  BY <1>2, FailQuiet

LEMMA FailOn ==
  ASSUME TypeInv, FailInv, NEW r \in Requests, NEW p, Becomes(r, p), Mine(r),
         UNCHANGED <<file, text, born, overwritten>>,
         p.op = req[r].op, p.ts = req[r].ts, p.new = req[r].new, p.cut = req[r].cut,
         p.done = req[r].done, req[r].at # "done",
         p.at \notin CopyStages \cup {"idle", "failed", "lock", "read"}
  PROVE  FailInv'
<1>1. Sound(r, p, file, text, born, overwritten, docLock')
  BY SoundNow, SoundOn
<1> QED  BY <1>1, FailQuiet

LEMMA FailReads ==
  ASSUME TypeInv, FailInv, NEW r \in Requests, Reader(r) \/ RemoveTicketFromAllGroups(r)
  PROVE  FailInv'
<1>1. Reading(r)
  BY ReaderReads
<1>2. Mine(r) /\ (Leaves(r) \/ \E p : Writes(r, p))
  BY ReaderKeeps, StripWrites
<1>3. UNCHANGED <<file, text, born, overwritten>> /\ docLock' = docLock
  BY <1>1 DEF Reading, files, history
<1>4. CASE Leaves(r)
  <2>1. PICK at \in {req[r].ok, req[r].err} : Becomes(r, Went(req[r], at))
    BY <1>4 DEF Leaves
  <2>2. req[r].at \in {"group", "write"}
    BY <1>1 DEF Reading
  <2> QED  BY <1>2, <1>3, <2>1, <2>2, FailWent
<1>5. ASSUME NEW p, Writes(r, p), p.at = "write"
      PROVE  FailInv'
  <2>1. /\ Becomes(r, p) /\ p.op = req[r].op /\ p.ts = req[r].ts /\ p.new = req[r].new
        /\ p.cut = req[r].cut /\ p.done = req[r].done
    BY <1>5 DEF Writes, Like
  <2>2. req[r].at # "done" /\ p.at \notin CopyStages \cup {"idle", "failed", "lock", "read"}
    BY <1>1, <1>5 DEF Reading, CopyStages
  <2> QED  BY <1>2, <1>3, <2>1, <2>2, FailOn
<1>6. ASSUME NEW p, Writes(r, p), p.at = "lock"
      PROVE  FailInv'
  <2>1. /\ Becomes(r, p) /\ p.op = req[r].op /\ p.ts = req[r].ts /\ p.new = req[r].new
        /\ p.cut = req[r].cut /\ p.done = req[r].done /\ groupLock' = r
    BY <1>6 DEF Writes, Like
  <2>2. p.op = "moveInGroup"
    <3>1. TypeInv' /\ req'[r] = p
      BY <2>1, ReaderKeeps, StripWrites DEF Becomes
    <3>2. HoldsGroups(p)
      BY <2>1, <3>1 DEF TypeInv, LockInv, Owns
    <3> QED  BY <1>6, <3>2 DEF HoldsGroups
  <2>3. Sound(r, req[r], file, text, born, overwritten, docLock)
    BY SoundNow
  <2>4. Names(p, born) /\ Copies(r, p, file, text, overwritten, docLock')
    BY <1>6, <2>1, <2>3 DEF Sound, Names, Copies, Copied
  <2>5. Blame(r, p, text, overwritten) /\ Clean(p) /\ NoNew(p, file, overwritten)
    BY <1>6, <2>1, <2>2 DEF Blame, Blamed, Clean, NoNew
  <2>6. Sound(r, p, file, text, born, overwritten, docLock')
    BY <2>4, <2>5 DEF Sound
  <2> QED  BY <1>2, <1>3, <2>1, <2>6, FailQuiet
<1>7. \A p : Writes(r, p) => p.at \in {"write", "lock"}
  BY DEF Writes
<1> QED  BY <1>2, <1>4, <1>5, <1>6, <1>7

LEMMA FailWrites ==
  ASSUME TypeInv, FailInv, NEW r \in Requests, NEW interrupted \in BOOLEAN,
         WriteGroup(r, interrupted)
  PROVE  FailInv'
<1>1. Mine(r) /\ req[r].at = "write"
  BY WriteKeeps
<1>2. UNCHANGED <<file, text, born, overwritten>> /\ docLock' = docLock
  BY DEF WriteGroup
<1>3. CASE Released(r)
  <2>1. PICK at \in {req[r].ok, req[r].err} : Becomes(r, Went(req[r], at))
    BY <1>3 DEF Released
  <2> QED  BY <1>1, <1>2, <2>1, FailWent
<1>4. ASSUME NEW g, NextFile(g)
      PROVE  FailInv'
  <2>1. Becomes(r, req[r])
    BY <1>4 DEF NextFile, Becomes, TypeInv, ReqOK
  <2> QED  BY <1>1, <1>2, <2>1, FailOn DEF CopyStages
<1>5. \E g \in Wave : Released(r) \/ NextFile(g)
  BY WriteKeeps
<1> QED  BY <1>3, <1>4, <1>5

LEMMA FailGroupEnds ==
  ASSUME TypeInv, FailInv, NEW r \in Requests,
         GroupCallFails(r) \/ RollBackCreation(r) \/ RollBackFails(r)
  PROVE  FailInv'
<1>1. CASE GroupCallFails(r)
  <2>1. /\ Mine(r) /\ UNCHANGED <<files, relisted, haunted, overwritten>> /\ req[r].at \in {"group", "write"}
        /\ Becomes(r, Went(req[r], req[r].err))
    BY <1>1, CallFailsKeeps
  <2>2. UNCHANGED <<file, text, born, overwritten>> /\ docLock' = docLock
    BY <1>1 DEF GroupCallFails, files
  <2> QED  BY <2>1, <2>2, FailWent
<1>2. CASE RollBackCreation(r)
  <2>1. /\ Mine(r) /\ UNCHANGED <<files, groupLock, history>> /\ groupLock = r
        /\ req[r].at = "write"
    BY <1>2, RollBackKeeps
  <2>2. PICK p : /\ Becomes(r, p) /\ p.at = "write" /\ p.op = req[r].op /\ p.ts = req[r].ts
                 /\ p.new = req[r].new /\ p.cut = req[r].cut /\ p.copy = req[r].copy
                 /\ p.todo = req[r].todo /\ p.done = req[r].done
                 /\ p.call.name = "uncreate" /\ p.call.g = req[r].call.g
                 /\ p.call.ts = req[r].call.ts
    BY <1>2, RollBackKeeps
  <2>3. UNCHANGED <<file, text, born, overwritten>>
    BY <2>1 DEF files, history
  <2> QED  BY <2>1, <2>2, <2>3, FailOn DEF CopyStages
<1>3. CASE RollBackFails(r)
  <2>1. /\ Mine(r) /\ UNCHANGED <<files, relisted, haunted, overwritten>> /\ req[r].at = "write"
        /\ Released(r) \/ \E g \in Wave : Remaining(g) # {} /\ NextFile(g)
    BY <1>3, RollBackFailsKeeps
  <2>2. UNCHANGED <<file, text, born, overwritten>> /\ docLock' = docLock
    BY <1>3 DEF RollBackFails, files
  <2>3. CASE Released(r)
    <3>1. PICK at \in {req[r].ok, req[r].err} : Becomes(r, Went(req[r], at))
      BY <2>3 DEF Released
    <3> QED  BY <2>1, <2>2, <3>1, FailWent
  <2>4. ASSUME NEW g, NextFile(g)
        PROVE  FailInv'
    <3>1. Becomes(r, req[r])
      BY <2>4 DEF NextFile, Becomes, TypeInv, ReqOK
    <3> QED  BY <2>1, <2>2, <3>1, FailOn DEF CopyStages
  <2> QED  BY <2>1, <2>3, <2>4
<1> QED  BY <1>1, <1>2, <1>3

LEMMA FailEnds ==
  ASSUME TypeInv, FailInv, NEW r \in Requests, NEW outcome \in {"done", "failed"},
         NEW cut \in BOOLEAN, Ends(r, outcome, cut), Mine(r),
         UNCHANGED <<file, text, born, overwritten>>,
         outcome = "failed" =>
           /\ req[r].op = "bulkUpdate" => cut \/ \A t \in Tickets \ overwritten : r \notin text[t]
           /\ req[r].op = "split" => cut \/ req[r].new \in overwritten \cup {None}
                                         \/ req[r].new \notin file
  PROVE  FailInv'
<1>1. Becomes(r, Over(req[r], outcome, cut))
  BY DEF Ends
<1>2. req[r] \in RequestRecords /\ Names(req[r], born)
  BY SoundNow DEF Sound
<1>3. Sound(r, Over(req[r], outcome, cut), file, text, born, overwritten, docLock')
  BY <1>2, SoundOver
<1> QED  BY <1>1, <1>3, FailQuiet

\* A request that ends before it has written has left nothing.
LEMMA EndsEarly ==
  ASSUME TypeInv, FailInv, NEW r \in Requests, req[r].at \in {"lock", "read"}
  PROVE  /\ req[r].op = "bulkUpdate" => \A t \in Tickets \ overwritten : r \notin text[t]
         /\ req[r].op = "split" => req[r].new = None
<1>1. Sound(r, req[r], file, text, born, overwritten, docLock)
  BY SoundNow
<1>2. req[r].done = {} /\ req[r].new = None
  BY SoundNow DEF Shape
<1>3. ASSUME req[r].op = "bulkUpdate"
      PROVE  Blamed(req[r]) /\ ~req[r].cut
  BY <1>1, <1>3 DEF Blamed, Sound, Clean
<1> QED  BY <1>1, <1>2, <1>3 DEF Sound, Blame

LEMMA FailBegins ==
  ASSUME TypeInv, FailInv, NEW r \in Requests, Begin(r)
  PROVE  FailInv'
<1>1. PICK p : Fresh(p) /\ Becomes(r, p)
  BY BeginKeeps
<1>2. Mine(r) /\ UNCHANGED <<file, text, born, overwritten>> /\ req[r].at = "idle"
  BY BeginKeeps DEF Begin, files, history, At
<1>3. Sound(r, req[r], file, text, born, overwritten, docLock)
  BY SoundNow
<1>4. \A t \in Tickets \ overwritten : r \notin text[t]
  BY <1>2, <1>3 DEF Sound, Blame, Blamed, Clean
<1>5. Names(p, born) /\ Copies(r, p, file, text, overwritten, docLock')
  <2>1. None \notin born
    BY GroupsAssumption DEF TypeInv, VarsOK, FilesOK
  <2>2. Names(p, born)
    BY <1>1, <2>1 DEF Fresh, Names
  <2>3. Copies(r, p, file, text, overwritten, docLock')
    BY <1>1 DEF Fresh, Copies, Copied
  <2> QED  BY <2>2, <2>3
<1>6. Blame(r, p, text, overwritten) /\ Clean(p) /\ NoNew(p, file, overwritten)
  BY <1>1, <1>4 DEF Blame, Clean, NoNew, Fresh
<1>7. Sound(r, p, file, text, born, overwritten, docLock')
  BY <1>5, <1>6 DEF Sound
<1> QED  BY <1>1, <1>2, <1>7, FailQuiet

LEMMA FailLocks ==
  ASSUME TypeInv, FailInv, NEW r \in Requests, LockTicket(r)
  PROVE  FailInv'
<1>1. /\ Mine(r) /\ UNCHANGED <<files, groupLock, plan, history, failures>>
      /\ req[r].at \in Locking
  BY LockKeeps
<1>2. UNCHANGED <<file, text, born, overwritten>>
  BY <1>1 DEF files, history
<1>3. Sound(r, req[r], file, text, born, overwritten, docLock) /\ Shape(req[r])
  BY SoundNow
<1>4. CASE Becomes(r, req[r])
  <2>1. Copies(r, req[r], file, text, overwritten, docLock')
    BY <1>1 DEF Copies, Copied, Locking
  <2>2. Sound(r, req[r], file, text, born, overwritten, docLock')
    BY <1>3, <2>1 DEF Sound
  <2> QED  BY <1>1, <1>2, <1>4, <2>2, FailQuiet
<1>5. CASE Becomes(r, [req[r] EXCEPT !.at = Afterwards(req[r])])
  <2> DEFINE p == [req[r] EXCEPT !.at = Afterwards(req[r])]
  <2>0. req[r] \in RequestRecords
    BY SoundNow
  <2>1. /\ Becomes(r, p) /\ p.at = Afterwards(req[r])
        /\ p.op = req[r].op /\ p.ts = req[r].ts /\ p.new = req[r].new /\ p.cut = req[r].cut
        /\ p.done = req[r].done
    BY <1>1, <1>3, <1>5, <2>0, AfterwardsIs
  <2> HIDE DEF p
  <2>2. \/ req[r].at = "lock" /\ p.at = "read"
        \/ p.at \in {"unlink", "revert", "record"}
    BY <1>1, <1>3, <2>1 DEF Locking, Afterwards, Shape
  <2>3. CASE req[r].at = "lock" /\ p.at = "read"
    <3>1. Names(p, born) /\ Copies(r, p, file, text, overwritten, docLock')
      BY <1>3, <2>1, <2>3 DEF Sound, Names, Copies, Copied
    <3>2. Blame(r, p, text, overwritten) /\ Clean(p) /\ NoNew(p, file, overwritten)
      BY <1>3, <2>1, <2>3 DEF Sound, Blame, Blamed, Clean, NoNew
    <3>3. Sound(r, p, file, text, born, overwritten, docLock')
      BY <3>1, <3>2 DEF Sound
    <3> QED  BY <1>1, <1>2, <2>1, <3>3, FailQuiet
  <2>4. CASE p.at \in {"unlink", "revert", "record"}
    <3>1. req[r].at # "done" /\ p.at \notin CopyStages \cup {"idle", "failed", "lock", "read"}
      BY <1>1, <2>4 DEF Locking, CopyStages
    <3> QED  BY <1>1, <1>2, <2>1, <3>1, FailOn
  <2> QED  BY <2>2, <2>3, <2>4
<1>6. Becomes(r, req[r]) \/ Becomes(r, [req[r] EXCEPT !.at = Afterwards(req[r])])
  BY LockKeeps
<1> QED  BY <1>4, <1>5, <1>6

LEMMA FailStops ==
  ASSUME TypeInv, FailInv, NEW r \in Requests, Stops(r)
  PROVE  FailInv'
<1> DEFINE late == req[r].at \in {"relock", "recording", "record"}
<1>1. /\ Mine(r) /\ UNCHANGED <<files, history>>
      /\ req[r].at \in {"lock", "unlinking", "recording", "read", "patch", "unlink", "record",
                        "relock"}
      /\ Ends(r, "failed", late)
  BY StopsKeeps
<1>2. UNCHANGED <<file, text, born, overwritten>>
  BY <1>1 DEF files, history
<1>3. late \/ req[r].at \in {"lock", "read"} \/ req[r].op \notin {"bulkUpdate", "split"}
  BY <1>1, SoundNow DEF Shape
<1>4. /\ req[r].op = "bulkUpdate" => late \/ \A t \in Tickets \ overwritten : r \notin text[t]
      /\ req[r].op = "split" => late \/ req[r].new \in overwritten \cup {None}
                                     \/ req[r].new \notin file
  BY <1>3, EndsEarly
<1>5. late \in BOOLEAN
  OBVIOUS
<1> HIDE DEF late
<1> QED  BY <1>1, <1>2, <1>4, <1>5, FailEnds

LEMMA FailFinds ==
  ASSUME TypeInv, FailInv, NEW r \in Requests,
         ReadTicket(r) \/ ReadTickets(r) \/ ReadSplit(r)
  PROVE  FailInv'
<1>0. Sound(r, req[r], file, text, born, overwritten, docLock) /\ Shape(req[r])
  BY SoundNow
<1>1. Mine(r) /\ UNCHANGED <<files, history, failures>> /\ req[r].at = "read"
  BY ReadKeeps, ReadBulkKeeps, ReadSplitKeeps
<1>2. UNCHANGED <<file, text, born, overwritten>>
  BY <1>1 DEF files, history
<1>3. CASE Ends(r, "failed", FALSE)
  BY <1>1, <1>2, <1>3, EndsEarly, FailEnds
<1>4. CASE ReadTicket(r) /\ ~Ends(r, "failed", FALSE)
  <2>1. PICK t \in file, p \in RequestRecords :
          /\ UNCHANGED <<groupLock, docLock, plan>> /\ Becomes(r, p)
          /\ p.at = "patch" /\ req[r].ts = {t}
          /\ p.op = req[r].op /\ p.ts = req[r].ts /\ p.new = req[r].new /\ p.cut = req[r].cut
          /\ p.call = req[r].call /\ p.todo = req[r].todo /\ p.done = req[r].done
          /\ p.copy[t] = text[t] \cup {r}
    BY <1>4, ReadKeeps
  <2>2. req[r].op \in {"edit", "moveInGroup"}
    BY <1>4, ReadKeeps
  <2>3. Names(p, born)
    BY <1>0, <2>1 DEF Sound, Names
  <2>4. Copies(r, p, file, text, overwritten, docLock')
    BY <2>1 DEF Copies, Copied
  <2>5. Blame(r, p, text, overwritten) /\ Clean(p) /\ NoNew(p, file, overwritten)
    BY <2>1, <2>2 DEF Blame, Blamed, Clean, NoNew
  <2>6. Sound(r, p, file, text, born, overwritten, docLock')
    BY <2>3, <2>4, <2>5 DEF Sound
  <2> QED  BY <1>1, <1>2, <2>1, <2>6, FailQuiet
<1>5. CASE ReadTickets(r) /\ ~Ends(r, "failed", FALSE)
  <2>1. PICK p \in RequestRecords :
          /\ UNCHANGED <<groupLock, docLock, plan>> /\ Becomes(r, p)
          /\ p.at = "bulk" /\ req[r].ts \subseteq file
          /\ p.op = req[r].op /\ p.ts = req[r].ts /\ p.new = req[r].new /\ p.cut = req[r].cut
          /\ p.done = req[r].done /\ \A t \in p.todo : p.copy[t] = text[t] \cup {r}
    BY <1>5, ReadBulkKeeps
  <2>2. req[r].op = "bulkUpdate" /\ req[r].done = {}
    BY <1>0, <1>1, <1>5, ReadBulkKeeps DEF Shape
  <2>3. Names(p, born)
    BY <1>0, <2>1 DEF Sound, Names
  <2>4. Copies(r, p, file, text, overwritten, docLock')
    <3>1. p.todo \subseteq p.ts
      <4>1. TypeInv' /\ req'[r] = p
        BY <1>5, <2>1, ReadBulkKeeps DEF Becomes
      <4> QED  BY <4>1 DEF TypeInv, ReqOK, Shape
    <3> QED  BY <2>1, <3>1 DEF Copies, Copied
  <2>5. Blame(r, p, text, overwritten) /\ Clean(p) /\ NoNew(p, file, overwritten)
    BY <1>1, <2>1, <2>2, EndsEarly DEF Blame, Blamed, Clean, NoNew
  <2>6. Sound(r, p, file, text, born, overwritten, docLock')
    BY <2>3, <2>4, <2>5 DEF Sound
  <2> QED  BY <1>1, <1>2, <2>1, <2>6, FailQuiet
<1>6. CASE ReadSplit(r) /\ ~Ends(r, "failed", FALSE)
  <2>1. PICK t \in file, p \in RequestRecords :
          /\ UNCHANGED <<groupLock, docLock, plan>> /\ Becomes(r, p)
          /\ p.at = "birth" /\ req[r].ts = {t}
          /\ p.op = req[r].op /\ p.ts = req[r].ts /\ p.new = req[r].new /\ p.cut = req[r].cut
          /\ p.todo = req[r].todo /\ p.done = req[r].done /\ p.copy[t] = text[t]
    BY <1>6, ReadSplitKeeps
  <2>2. req[r].op = "split"
    BY <1>6, ReadSplitKeeps
  <2>3. Names(p, born)
    BY <1>0, <2>1 DEF Sound, Names
  <2>4. Copies(r, p, file, text, overwritten, docLock')
    BY <2>1 DEF Copies, Copied
  <2>5. Blame(r, p, text, overwritten) /\ Clean(p) /\ NoNew(p, file, overwritten)
    BY <2>1, <2>2 DEF Blame, Blamed, Clean, NoNew
  <2>6. Sound(r, p, file, text, born, overwritten, docLock')
    BY <2>3, <2>4, <2>5 DEF Sound
  <2> QED  BY <1>1, <1>2, <2>1, <2>6, FailQuiet
<1> QED  BY <1>3, <1>4, <1>5, <1>6

LEMMA FailGoesOn ==
  ASSUME TypeInv, FailInv, NEW r \in Requests,
         \/ BulkFails(r) \/ BulkWritten(r) \/ LeaveSprint(r) \/ Rejoin(r)
         \/ AssignNew(r) \/ UndoSprints(r)
  PROVE  FailInv'
<1>1. CASE BulkFails(r)
  <2>1. /\ Mine(r) /\ UNCHANGED <<files, groupLock, docLock, plan, history>>
        /\ req[r].at = "bulk"
    BY <1>1, BulkFailsKeeps
  <2>2. PICK p \in RequestRecords : Becomes(r, p) /\ p.at = "revert" /\ Like(p, req[r])
    BY <1>1, BulkFailsKeeps
  <2>3. UNCHANGED <<file, text, born, overwritten>>
    BY <2>1 DEF files, history
  <2> QED  BY <2>1, <2>2, <2>3, FailOn DEF Like, CopyStages
<1>2. CASE BulkWritten(r) \/ LeaveSprint(r) \/ Rejoin(r)
  <2>1. /\ Mine(r) /\ UNCHANGED <<files, groupLock, plan, history, failures>>
        /\ req[r].at \in {"bulk", "leave", "left", "rejoin", "rejoined"}
        /\ Sprinting(r, {"leave", "group", "relock"})
    BY <1>2, BulkWrittenKeeps, LeaveKeeps, RejoinKeeps DEF Sprinting
  <2>2. UNCHANGED <<file, text, born, overwritten>>
    BY <2>1 DEF files, history
  <2>3. CASE Becomes(r, Over(req[r], "done", req[r].cut))
    <3>1. req[r] \in RequestRecords /\ req[r].cut \in BOOLEAN /\ Names(req[r], born)
      BY SoundNow DEF Sound
    <3>2. Sound(r, Over(req[r], "done", req[r].cut), file, text, born, overwritten, docLock')
      BY <3>1, SoundOver
    <3> QED  BY <2>1, <2>2, <2>3, <3>2, FailQuiet
  <2>4. ASSUME NEW p, Becomes(r, p), p.at \in {"leave", "group", "relock"}, Like(p, req[r])
        PROVE  FailInv'
    <3>1. req[r].at # "done" /\ p.at \notin CopyStages \cup {"idle", "failed", "lock", "read"}
      BY <2>1, <2>4 DEF CopyStages
    <3> QED  BY <2>1, <2>2, <2>4, <3>1, FailOn DEF Like
  <2> QED  BY <2>1, <2>3, <2>4 DEF Sprinting
<1>3. CASE AssignNew(r) \/ UndoSprints(r)
  <2>1. /\ Mine(r) /\ UNCHANGED <<files, groupLock, docLock, plan, history, failures>>
        /\ req[r].at \in {"assign", "undo", "undo old"}
    BY <1>3, AssignKeeps, UndoKeeps
  <2>2. PICK p : Becomes(r, p) /\ Asks(p, req[r])
    BY <1>3, AssignKeeps, UndoKeeps
  <2>3. UNCHANGED <<file, text, born, overwritten>>
    BY <2>1 DEF files, history
  <2>4. /\ p.op = req[r].op /\ p.ts = req[r].ts /\ p.new = req[r].new /\ p.cut = req[r].cut
        /\ p.done = req[r].done /\ p.at = "group"
    BY <2>2 DEF Asks, Like
  <2>5. req[r].at # "done" /\ p.at \notin CopyStages \cup {"idle", "failed", "lock", "read"}
    BY <2>1, <2>4 DEF CopyStages
  <2> QED  BY <2>1, <2>2, <2>3, <2>4, <2>5, FailOn
<1> QED  BY <1>1, <1>2, <1>3

LEMMA FailSplitStops ==
  ASSUME TypeInv, FailInv, NEW r \in Requests, SplitFails(r) \/ Record(r)
  PROVE  FailInv'
<1>1. CASE SplitFails(r)
  <2>1. /\ Mine(r) /\ UNCHANGED <<files, groupLock, docLock, plan, history>>
        /\ req[r].at \in {"birth", "retain"} /\ req[r].op = "split"
    BY <1>1, SplitFailsKeeps
  <2>2. PICK p \in RequestRecords : Becomes(r, p) /\ p.at = "discard" /\ Like(p, req[r])
    BY <1>1, SplitFailsKeeps
  <2>3. Sound(r, req[r], file, text, born, overwritten, docLock)
    BY SoundNow
  <2>4. UNCHANGED <<file, text, born, overwritten>> /\ docLock' = docLock
    BY <2>1 DEF files, history
  <2>5. Names(p, born)
    BY <2>2, <2>3 DEF Sound, Names, Like
  <2>6. Copies(r, p, file, text, overwritten, docLock')
    BY <2>1, <2>2, <2>3 DEF Sound, Copies, Copied, Like
  <2>7. Blame(r, p, text, overwritten) /\ Clean(p) /\ NoNew(p, file, overwritten)
    BY <2>1, <2>2 DEF Blame, Blamed, Clean, NoNew, Like
  <2>8. Sound(r, p, file, text, born, overwritten, docLock')
    BY <2>5, <2>6, <2>7 DEF Sound
  <2> QED  BY <2>1, <2>2, <2>4, <2>8, FailQuiet
<1>2. CASE Record(r)
  <2>1. Mine(r) /\ UNCHANGED <<files, history, failures>> /\ Ends(r, "done", FALSE)
    BY <1>2, RecordKeeps
  <2>2. UNCHANGED <<file, text, born, overwritten>>
    BY <2>1 DEF files, history
  <2> QED  BY <2>1, <2>2, FailEnds
<1> QED  BY <1>1, <1>2

LEMMA FailCrashes ==
  ASSUME TypeInv, FailInv, Crash
  PROVE  FailInv'
<1>1. /\ UNCHANGED <<file, text, born, overwritten>> /\ docLock' = [t \in Tickets |-> None]
      /\ \A r \in Requests :
           req'[r] = IF req[r].at \in Ended THEN req[r] ELSE Over(req[r], "failed", TRUE)
  BY CrashKeeps DEF Crash, files
<1>2. ASSUME NEW r \in Requests
      PROVE  Sound(r, req'[r], file, text, born, overwritten, docLock')
  <2>0. /\ Sound(r, req[r], file, text, born, overwritten, docLock) /\ req[r] \in RequestRecords
    BY SoundNow
  <2>1. CASE req[r].at \in Ended
    <3>1. Copies(r, req[r], file, text, overwritten, docLock')
      BY <2>1 DEF Copies, Copied, Ended
    <3>2. Sound(r, req[r], file, text, born, overwritten, docLock')
      BY <2>0, <3>1 DEF Sound
    <3> QED  BY <1>1, <2>1, <3>2
  <2>2. CASE req[r].at \notin Ended
    <3>1. Names(req[r], born)
      BY <2>0 DEF Sound
    <3>2. Sound(r, Over(req[r], "failed", TRUE), file, text, born, overwritten, docLock')
      BY <2>0, <3>1, SoundOver
    <3> QED  BY <1>1, <2>2, <3>2
  <2> QED  BY <2>1, <2>2
<1>3. FilesTrue(file', text', born')
  BY <1>1 DEF FailInv
<1> QED  BY <1>1, <1>2, <1>3 DEF FailInv

-------------------------------------------------------------------------------
(* The steps that write or remove a ticket.                                   *)

\* What a step does to the files, when it writes d into t.
LEMMA StoreTame ==
  ASSUME TypeInv, FailInv, NEW r \in Requests, NEW t \in Tickets, NEW d \in SUBSET Requests,
         Stored(t, d), docLock[t] = r, t \in born, born' = born,
         overwritten' = overwritten \/ overwritten' = overwritten \cup {t},
         t \notin overwritten' => d \ {r} \subseteq text[t] /\ t \in file
  PROVE  /\ Tame(r) /\ FilesTrue(file', text', born')
         /\ text'[t] = d /\ file' = file \cup {t} /\ \A u \in Tickets : u # t => text'[u] = text[u]
<1>1. FilesOK
  BY DEF TypeInv, VarsOK
<1>2. text'[t] = d /\ file' = file \cup {t} /\ \A u \in Tickets : u # t => text'[u] = text[u]
  BY <1>1, StoredIs
<1>3. FilesTrue(file', text', born')
  BY <1>2 DEF FailInv, FilesTrue
<1>4. Tame(r)
  BY <1>2, <1>1 DEF Tame, FilesOK
<1> QED  BY <1>2, <1>3, <1>4

LEMMA FailPatches ==
  ASSUME TypeInv, FailInv, NEW r \in Requests, PatchTicket(r)
  PROVE  FailInv'
<1>0. /\ Sound(r, req[r], file, text, born, overwritten, docLock) /\ Shape(req[r])
      /\ req[r] \in RequestRecords
  BY SoundNow
<1>1. /\ Mine(r) /\ UNCHANGED <<born, group, history, failures>> /\ req[r].at = "patch"
      /\ req[r].op \in {"edit", "moveInGroup"}
  BY PatchKeeps
<1>2. PICK t \in Tickets : Stored(t, req[r].copy[t]) /\ req[r].ts = {t}
  BY PatchKeeps
<1>3. docLock[t] = r
  BY <1>1, <1>2 DEF TypeInv, LockInv, Owns, MustHold
<1>4. t \in born /\ overwritten' = overwritten /\ born' = born
  BY <1>0, <1>1, <1>2 DEF Sound, Names, history
<1>5. t \notin overwritten => req[r].copy[t] \ {r} \subseteq text[t] /\ t \in file
  BY <1>0, <1>1, <1>2 DEF Sound, Copies, Copied
<1>6. req[r].copy[t] \in SUBSET Requests
  BY <1>0 DEF RequestRecords
<1>7. Tame(r) /\ FilesTrue(file', text', born')
  BY <1>2, <1>3, <1>4, <1>5, <1>6, StoreTame
<1>8. CASE Ends(r, "done", FALSE)
  <2>1. Names(req[r], born')
    BY <1>0, <1>4 DEF Sound
  <2>2. Sound(r, Over(req[r], "done", FALSE), file', text', born', overwritten', docLock')
    BY <1>0, <2>1, SoundOver
  <2> QED  BY <1>1, <1>7, <1>8, <2>2, FailAssemble DEF Ends
<1>9. ASSUME NEW p, Becomes(r, p), p.at = "write", p.op = req[r].op, p.ts = req[r].ts,
             p.new = req[r].new
      PROVE  FailInv'
  <2>1. Names(p, born')
    BY <1>0, <1>4, <1>9 DEF Sound, Names
  <2>2. Copies(r, p, file', text', overwritten', docLock')
    BY <1>9 DEF Copies, Copied
  <2>3. Blame(r, p, text', overwritten') /\ Clean(p) /\ NoNew(p, file', overwritten')
    BY <1>1, <1>9 DEF Blame, Blamed, Clean, NoNew
  <2>4. Sound(r, p, file', text', born', overwritten', docLock')
    BY <2>1, <2>2, <2>3 DEF Sound
  <2> QED  BY <1>1, <1>7, <1>9, <2>4, FailAssemble
<1> QED  BY <1>8, <1>9, PatchKeeps

\* The file of a ticket goes: nobody has its lock, or its loss is noted.
LEMMA DeleteTame ==
  ASSUME TypeInv, FailInv, NEW r \in Requests, NEW t \in Tickets, Deleted(t), born' = born,
         overwritten \subseteq overwritten', docLock[t] \in {None, r} \/ t \in overwritten'
  PROVE  /\ Tame(r) /\ FilesTrue(file', text', born')
         /\ file' = file \ {t} /\ text'[t] = {} /\ \A u \in Tickets : u # t => text'[u] = text[u]
<1>1. FilesOK
  BY DEF TypeInv, VarsOK
<1>2. file' = file \ {t} /\ text'[t] = {} /\ \A u \in Tickets : u # t => text'[u] = text[u]
  BY <1>1, DeletedIs
<1>3. FilesTrue(file', text', born')
  BY <1>2 DEF FailInv, FilesTrue
<1>4. Tame(r)
  BY <1>2, <1>1 DEF Tame, FilesOK
<1> QED  BY <1>2, <1>3, <1>4

LEMMA FailUnlinks ==
  ASSUME TypeInv, FailInv, NEW r \in Requests, Unlink(r)
  PROVE  FailInv'
<1>0. Sound(r, req[r], file, text, born, overwritten, docLock) /\ req[r] \in RequestRecords
  BY SoundNow
<1>1. /\ Mine(r) /\ UNCHANGED <<born, group, torn, relisted, overwritten, failures>>
      /\ req[r].op = "remove"
  BY UnlinkKeeps
<1>2. PICK t \in Tickets :
        /\ req[r].ts = {t} /\ docLock[t] = r
        /\ \/ Deleted(t) /\ Ends(r, "done", FALSE)
           \/ t \notin file /\ UNCHANGED <<file, text>> /\ Ends(r, "failed", FALSE)
  BY UnlinkKeeps
<1>3. CASE Deleted(t) /\ Ends(r, "done", FALSE)
  <2>1. Tame(r) /\ FilesTrue(file', text', born')
    BY <1>1, <1>2, <1>3, DeleteTame
  <2>2. Names(req[r], born')
    BY <1>0, <1>1 DEF Sound
  <2>3. Sound(r, Over(req[r], "done", FALSE), file', text', born', overwritten', docLock')
    BY <1>0, <2>2, SoundOver
  <2> QED  BY <1>1, <1>3, <2>1, <2>3, FailAssemble DEF Ends
<1>4. CASE UNCHANGED <<file, text>> /\ Ends(r, "failed", FALSE)
  <2>1. UNCHANGED <<file, text, born, overwritten>>
    BY <1>1, <1>4
  <2> QED  BY <1>1, <1>4, <2>1, FailEnds
<1> QED  BY <1>2, <1>3, <1>4

LEMMA FailBulkWrites ==
  ASSUME TypeInv, FailInv, NEW r \in Requests, NEW interrupted \in BOOLEAN,
         WriteNext(r, interrupted)
  PROVE  FailInv'
<1>0. /\ Sound(r, req[r], file, text, born, overwritten, docLock) /\ Shape(req[r])
      /\ req[r] \in RequestRecords
  BY SoundNow
<1>1. /\ Mine(r) /\ UNCHANGED <<born, group, groupLock, docLock, plan, history>>
      /\ req[r].at = "bulk" /\ req[r].op = "bulkUpdate"
  <2>1. Mine(r) /\ UNCHANGED <<born, group, groupLock, docLock, plan, history>>
    BY WriteNextKeeps
  <2>2. req[r].at = "bulk"
    BY DEF WriteNext, At
  <2>3. req[r].op = "bulkUpdate"
    BY <1>0, <2>2 DEF Shape, InBulk
  <2> QED  BY <2>1, <2>2, <2>3
<1>2. PICK t \in Tickets, p \in RequestRecords :
        /\ t \in req[r].todo /\ Stored(t, req[r].copy[t]) /\ docLock[t] = r
        /\ Becomes(r, p)
        /\ p.op = req[r].op /\ p.ts = req[r].ts /\ p.new = req[r].new /\ p.copy = req[r].copy
        /\ \/ p.at = "revert" /\ p.cut = TRUE
           \/ /\ p.at = "bulk" /\ p.todo = req[r].todo \ {t} /\ p.done = req[r].done \cup {t}
              /\ p.cut = req[r].cut
  BY WriteNextKeeps
<1>3. t \in born /\ overwritten' = overwritten /\ born' = born /\ docLock' = docLock
  BY <1>0, <1>1, <1>2 DEF Sound, Names, history, Shape
<1>4. t \notin overwritten => req[r].copy[t] \ {r} \subseteq text[t] /\ t \in file
  BY <1>0, <1>1, <1>2 DEF Sound, Copies, Copied
<1>5. req[r].copy[t] \in SUBSET Requests
  BY <1>0 DEF RequestRecords
<1>6. /\ Tame(r) /\ FilesTrue(file', text', born')
      /\ file' = file \cup {t} /\ \A u \in Tickets : u # t => text'[u] = text[u]
  BY <1>2, <1>3, <1>4, <1>5, StoreTame
<1>7. Names(p, born')
  BY <1>0, <1>2, <1>3 DEF Sound, Names
<1>8. Clean(p) /\ NoNew(p, file', overwritten')
  BY <1>1, <1>2 DEF Clean, NoNew
<1>9. Copies(r, p, file', text', overwritten', docLock')
  <2>1. CASE p.at = "revert"
    BY <2>1 DEF Copies, Copied
  <2>2. CASE p.at = "bulk" /\ p.todo = req[r].todo \ {t}
    <3>1. ASSUME NEW u \in Tickets \ overwritten', Copied(r, p, u, docLock')
          PROVE  p.copy[u] \ {r} \subseteq text'[u] /\ u \in file'
      <4>1. u # t /\ Copied(r, req[r], u, docLock)
        BY <1>1, <2>2, <3>1 DEF Copied
      <4>2. req[r].copy[u] \ {r} \subseteq text[u] /\ u \in file
        BY <1>0, <1>3, <4>1 DEF Sound, Copies
      <4> QED  BY <1>2, <1>6, <4>1, <4>2
    <3> QED  BY <3>1 DEF Copies
  <2> QED  BY <1>2, <2>1, <2>2
<1>10. Blame(r, p, text', overwritten')
  <2>1. CASE p.cut = TRUE
    BY <2>1 DEF Blame
  <2>2. CASE p.done = req[r].done \cup {t} /\ p.cut = req[r].cut
    BY <1>0, <1>1, <1>3, <1>6, <2>2 DEF Sound, Blame, Blamed
  <2> QED  BY <1>2, <2>1, <2>2
<1>11. Sound(r, p, file', text', born', overwritten', docLock')
  BY <1>7, <1>8, <1>9, <1>10 DEF Sound
<1> QED  BY <1>1, <1>2, <1>6, <1>11, FailAssemble

\* revertWritten takes the change of the bulk update out of a ticket that is still there.
LEMMA FailReverts ==
  ASSUME TypeInv, FailInv, NEW r \in Requests, Revert(r)
  PROVE  FailInv'
<1>0. /\ Sound(r, req[r], file, text, born, overwritten, docLock) /\ Shape(req[r])
      /\ req[r] \in RequestRecords /\ req[r].cut \in BOOLEAN
  BY SoundNow
<1>1. /\ Mine(r) /\ UNCHANGED <<born, group, history>> /\ req[r].at = "revert"
      /\ req[r].op = "bulkUpdate"
  BY RevertKeeps
<1>2. overwritten' = overwritten /\ born' = born
  BY <1>1 DEF history
<1>3. CASE req[r].done = {} /\ UNCHANGED <<file, text>> /\ Ends(r, "failed", req[r].cut)
  <2>1. req[r].cut \/ \A t \in Tickets \ overwritten : r \notin text[t]
    BY <1>0, <1>1, <1>3 DEF Sound, Blame, Blamed
  <2> QED  BY <1>0, <1>1, <1>2, <1>3, <2>1, FailEnds
<1>4. CASE ~(req[r].done = {} /\ UNCHANGED <<file, text>> /\ Ends(r, "failed", req[r].cut))
  <2>1. PICK t \in Tickets, p \in RequestRecords, fails \in BOOLEAN :
          /\ UNCHANGED <<groupLock, docLock, plan>> /\ Becomes(r, p)
          /\ t \in req[r].done /\ docLock[t] = r
          /\ \/ Held(t) /\ ~fails /\ Stored(t, text[t] \ {r})
             \/ (~Held(t) \/ fails) /\ UNCHANGED <<file, text>>
          /\ p.at = "revert" /\ p.done = req[r].done \ {t} /\ p.cut = (req[r].cut \/ fails)
          /\ p.op = req[r].op /\ p.ts = req[r].ts /\ p.new = req[r].new
          /\ p.todo = req[r].todo /\ p.copy = req[r].copy
    BY <1>4, RevertKeeps
  <2>2. t \in born
    BY <1>0, <2>1 DEF Sound, Names, Shape
  <2>3. Names(p, born') /\ Clean(p) /\ NoNew(p, file', overwritten')
    BY <1>0, <1>1, <1>2, <2>1 DEF Sound, Names, Clean, NoNew
  <2>4. Copies(r, p, file', text', overwritten', docLock')
    BY <2>1 DEF Copies, Copied
  <2>5. CASE Held(t) /\ ~fails /\ Stored(t, text[t] \ {r})
    <3>1. text[t] \ {r} \in SUBSET Requests
      BY DEF TypeInv, VarsOK, FilesOK
    <3>2. /\ Tame(r) /\ FilesTrue(file', text', born') /\ text'[t] = text[t] \ {r}
          /\ \A u \in Tickets : u # t => text'[u] = text[u]
      BY <1>2, <2>1, <2>2, <2>5, <3>1, StoreTame DEF Held
    <3>3. Blame(r, p, text', overwritten')
      BY <1>0, <1>1, <1>2, <2>1, <3>2 DEF Sound, Blame, Blamed
    <3>4. Sound(r, p, file', text', born', overwritten', docLock')
      BY <2>3, <2>4, <3>3 DEF Sound
    <3> QED  BY <1>1, <2>1, <3>2, <3>4, FailAssemble
  <2>6. CASE (~Held(t) \/ fails) /\ UNCHANGED <<file, text>>
    <3>1. ~Held(t) => text[t] = {}
      BY DEF FailInv, FilesTrue, Held
    <3>2. Blame(r, p, text, overwritten)
      BY <1>0, <1>1, <2>1, <2>6, <3>1 DEF Sound, Blame, Blamed
    <3>3. Sound(r, p, file, text, born, overwritten, docLock')
      BY <1>2, <2>3, <2>4, <2>6, <3>2 DEF Sound
    <3>4. UNCHANGED <<file, text, born, overwritten>>
      BY <1>2, <2>6
    <3> QED  BY <1>1, <2>1, <3>3, <3>4, FailQuiet
  <2> QED  BY <2>1, <2>5, <2>6
<1> QED  BY <1>3, <1>4

LEMMA FailCreates ==
  ASSUME TypeInv, FailInv, NEW r \in Requests, WriteNew(r)
  PROVE  FailInv'
<1>0. /\ Sound(r, req[r], file, text, born, overwritten, docLock) /\ Shape(req[r])
      /\ req[r] \in RequestRecords
  BY SoundNow
<1>1. /\ Mine(r) /\ UNCHANGED <<group, groupLock, docLock, plan, history, failures>>
      /\ req[r].at = "birth" /\ req[r].op = "split"
  BY WriteNewKeeps
<1>2. PICK n \in Tickets \ born, p \in RequestRecords :
        /\ Stored(n, {r}) /\ born' = born \cup {n} /\ Becomes(r, p)
        /\ p.at = "retain" /\ p.new = n /\ p.op = req[r].op /\ p.ts = req[r].ts
        /\ p.cut = req[r].cut /\ p.copy = req[r].copy
        /\ p.todo = req[r].todo /\ p.done = req[r].done
  BY WriteNewKeeps
<1>3. FilesOK /\ {r} \in SUBSET Requests /\ overwritten' = overwritten /\ docLock' = docLock
  BY <1>1 DEF TypeInv, VarsOK, history
<1>4. text'[n] = {r} /\ file' = file \cup {n} /\ \A u \in Tickets : u # n => text'[u] = text[u]
  BY <1>2, <1>3, StoredIs
<1>5. FilesTrue(file', text', born')
  BY <1>2, <1>4 DEF FailInv, FilesTrue
<1>6. Tame(r)
  BY <1>2, <1>3, <1>4 DEF Tame, FilesOK
<1>7. Names(p, born')
  BY <1>0, <1>2 DEF Sound, Names
<1>8. Copies(r, p, file', text', overwritten', docLock')
  <2>1. ASSUME NEW u \in Tickets \ overwritten', Copied(r, p, u, docLock')
        PROVE  p.copy[u] \ {r} \subseteq text'[u] /\ u \in file'
    <3>1. u \in req[r].ts /\ Copied(r, req[r], u, docLock)
      BY <1>1, <1>2, <1>3, <2>1 DEF Copied
    <3>2. u # n
      BY <1>0, <1>2, <3>1 DEF Sound, Names
    <3>3. req[r].copy[u] \ {r} \subseteq text[u] /\ u \in file
      BY <1>0, <1>3, <3>1 DEF Sound, Copies
    <3> QED  BY <1>2, <1>4, <3>2, <3>3
  <2> QED  BY <2>1 DEF Copies
<1>9. Blame(r, p, text', overwritten') /\ Clean(p) /\ NoNew(p, file', overwritten')
  BY <1>1, <1>2 DEF Blame, Blamed, Clean, NoNew
<1>10. Sound(r, p, file', text', born', overwritten', docLock')
  BY <1>7, <1>8, <1>9 DEF Sound
<1> QED  BY <1>1, <1>2, <1>5, <1>6, <1>10, FailAssemble

LEMMA FailRetains ==
  ASSUME TypeInv, FailInv, NEW r \in Requests, Retain(r)
  PROVE  FailInv'
<1>0. /\ Sound(r, req[r], file, text, born, overwritten, docLock) /\ Shape(req[r])
      /\ req[r] \in RequestRecords
  BY SoundNow
<1>1. /\ Mine(r) /\ UNCHANGED <<born, group, groupLock, plan, history, failures>>
      /\ req[r].at = "retain" /\ req[r].op = "split"
  BY RetainKeeps
<1>2. PICK t \in Tickets : req[r].ts = {t} /\ Stored(t, text[t] \cup {r}) /\ docLock[t] = r
  BY RetainKeeps
<1>3. PICK p \in RequestRecords : Becomes(r, p) /\ p.at \in {"group", "assign"} /\ Like(p, req[r])
  BY RetainKeeps
<1>4. t \in born /\ overwritten' = overwritten /\ born' = born
  BY <1>0, <1>1, <1>2 DEF Sound, Names, history
<1>5. t \notin overwritten => t \in file
  BY <1>0, <1>1, <1>2 DEF Sound, Copies, Copied
<1>6. text[t] \cup {r} \in SUBSET Requests
  BY DEF TypeInv, VarsOK, FilesOK
<1>7. Tame(r) /\ FilesTrue(file', text', born')
  BY <1>2, <1>4, <1>5, <1>6, StoreTame
<1>8. Names(p, born') /\ Copies(r, p, file', text', overwritten', docLock')
  BY <1>0, <1>3, <1>4 DEF Sound, Names, Like, Copies, Copied
<1>9. Blame(r, p, text', overwritten') /\ Clean(p) /\ NoNew(p, file', overwritten')
  BY <1>1, <1>3 DEF Blame, Blamed, Clean, NoNew, Like
<1>10. Sound(r, p, file', text', born', overwritten', docLock')
  BY <1>8, <1>9 DEF Sound
<1> QED  BY <1>1, <1>3, <1>7, <1>10, FailAssemble

LEMMA FailDiscards ==
  ASSUME TypeInv, FailInv, NEW r \in Requests, NEW fails \in BOOLEAN, Discard(r, fails)
  PROVE  FailInv'
<1>0. /\ Sound(r, req[r], file, text, born, overwritten, docLock) /\ Shape(req[r])
      /\ req[r] \in RequestRecords
  BY SoundNow
<1>1. /\ Mine(r) /\ UNCHANGED <<born, group, groupLock, docLock, plan, torn, relisted>>
      /\ req[r].at = "discard" /\ req[r].op = "split"
  BY DiscardKeeps
<1>2. PICK p \in RequestRecords :
        /\ Becomes(r, p) /\ p.at = "restore" /\ p.cut = (req[r].cut \/ fails)
        /\ p.op = req[r].op /\ p.ts = req[r].ts /\ p.new = req[r].new
        /\ p.copy = req[r].copy /\ p.todo = req[r].todo /\ p.done = req[r].done
  BY DiscardKeeps
<1>3. Names(p, born') /\ Blame(r, p, text', overwritten') /\ Clean(p)
  BY <1>0, <1>1, <1>2 DEF Sound, Names, Blame, Blamed, Clean
<1>4. CASE (req[r].new = None \/ fails) /\ UNCHANGED <<file, text, haunted, overwritten>>
  <2>1. NoNew(p, file, overwritten)
    BY <1>2, <1>4 DEF NoNew
  <2>2. Copies(r, p, file, text, overwritten, docLock')
    BY <1>0, <1>1, <1>2 DEF Sound, Copies, Copied
  <2>3. Sound(r, p, file, text, born, overwritten, docLock')
    BY <1>1, <1>3, <1>4, <2>1, <2>2 DEF Sound
  <2>4. UNCHANGED <<file, text, born, overwritten>>
    BY <1>1, <1>4
  <2> QED  BY <1>1, <1>2, <2>3, <2>4, FailQuiet
<1>5. CASE /\ req[r].new \in Tickets /\ Deleted(req[r].new)
           /\ overwritten' = IF docLock[req[r].new] = None THEN overwritten
                             ELSE overwritten \cup {req[r].new}
  <2> DEFINE n == req[r].new
  <2>1. /\ n \in Tickets /\ Deleted(n) /\ overwritten \subseteq overwritten' /\ born' = born
        /\ docLock[n] \in {None, r} \/ n \in overwritten'
    BY <1>1, <1>5
  <2>2. /\ Tame(r) /\ FilesTrue(file', text', born') /\ file' = file \ {n}
        /\ \A u \in Tickets : u # n => text'[u] = text[u]
    <3> HIDE DEF n
    <3> QED  BY <2>1, DeleteTame
  <2>3. NoNew(p, file', overwritten')
    BY <1>2, <2>2 DEF NoNew
  <2>4. ASSUME NEW u \in Tickets \ overwritten', Copied(r, p, u, docLock')
        PROVE  p.copy[u] \ {r} \subseteq text'[u] /\ u \in file'
    <3>1. u \in req[r].ts /\ Copied(r, req[r], u, docLock)
      BY <1>1, <1>2, <2>4 DEF Copied
    <3>2. u # n /\ u \notin overwritten
      BY <1>0, <2>1, <3>1 DEF Sound, Names
    <3>3. req[r].copy[u] \ {r} \subseteq text[u] /\ u \in file
      BY <1>0, <3>1, <3>2 DEF Sound, Copies
    <3> QED  BY <1>2, <2>2, <3>2, <3>3
  <2>5. Copies(r, p, file', text', overwritten', docLock')
    BY <2>4 DEF Copies
  <2>6. Sound(r, p, file', text', born', overwritten', docLock')
    BY <1>3, <2>3, <2>5 DEF Sound
  <2> QED  BY <1>1, <1>2, <2>2, <2>6, FailAssemble
<1> QED  BY <1>4, <1>5, DiscardKeeps

\* restoreTicket writes the whole original: harmless under the lock of the ticket, and noted as
\* overwritten without it.
LEMMA FailRestores ==
  ASSUME TypeInv, FailInv, NEW r \in Requests, NEW fails \in BOOLEAN, Restore(r, fails)
  PROVE  FailInv'
<1>0. /\ Sound(r, req[r], file, text, born, overwritten, docLock) /\ Shape(req[r])
      /\ req[r] \in RequestRecords
  BY SoundNow
<1>1. /\ Mine(r) /\ UNCHANGED <<born, group, torn, relisted, haunted>>
      /\ req[r].at = "restore" /\ req[r].op = "split"
  BY RestoreKeeps
<1>2. PICK t \in Tickets :
        /\ req[r].ts = {t}
        /\ \/ ~fails /\ Stored(t, req[r].copy[t])
           \/ fails /\ UNCHANGED <<file, text>>
        /\ overwritten' = IF docLock[t] = r THEN overwritten ELSE overwritten \cup {t}
  BY RestoreKeeps
<1>3. PICK cut \in BOOLEAN : cut = (req[r].cut \/ fails) /\ Ends(r, "failed", cut)
  BY RestoreKeeps
<1>4. t \in born /\ req[r].new # t
  BY <1>0, <1>2 DEF Sound, Names
<1>5. docLock[t] = r /\ t \notin overwritten => req[r].copy[t] \ {r} \subseteq text[t] /\ t \in file
  BY <1>0, <1>1, <1>2 DEF Sound, Copies, Copied
<1>6. req[r].copy[t] \in SUBSET Requests /\ FilesOK
  BY <1>0 DEF RequestRecords, TypeInv, VarsOK
<1>7. /\ Tame(r) /\ FilesTrue(file', text', born') /\ \A u \in file' : u # t => u \in file
  <2>1. CASE Stored(t, req[r].copy[t])
    <3>1. /\ text'[t] = req[r].copy[t] /\ file' = file \cup {t}
          /\ \A u \in Tickets : u # t => text'[u] = text[u]
      BY <1>6, <2>1, StoredIs
    <3>2. FilesTrue(file', text', born')
      BY <1>1, <1>4, <3>1 DEF FailInv, FilesTrue
    <3>3. \A u \in Tickets \ overwritten' : \A s \in Requests :
            s # r /\ s \in text'[u] => s \in text[u]
      BY <1>2, <1>5, <3>1
    <3>4. \A u \in born \ overwritten' :
            /\ u \in file' => u \in file
            /\ docLock[u] \notin {None, r} => text'[u] = text[u] /\ (u \in file' <=> u \in file)
      BY <1>2, <1>5, <1>6, <3>1 DEF FilesOK
    <3>5. Tame(r)
      BY <1>1, <1>2, <3>3, <3>4 DEF Tame
    <3>6. \A u \in file' : u # t => u \in file
      BY <3>1
    <3> QED  BY <3>2, <3>5, <3>6
  <2>2. CASE UNCHANGED <<file, text>>
    <3>1. FilesTrue(file', text', born') /\ \A u \in file' : u # t => u \in file
      BY <1>1, <2>2 DEF FailInv
    <3>2. Tame(r)
      BY <1>1, <1>2, <2>2 DEF Tame
    <3> QED  BY <3>1, <3>2
  <2> QED  BY <1>2, <2>1, <2>2
<1>8. cut \/ req[r].new \in overwritten' \cup {None} \/ req[r].new \notin file'
  BY <1>0, <1>1, <1>2, <1>3, <1>4, <1>7 DEF Sound, NoNew
<1>9. Names(req[r], born')
  BY <1>0, <1>1 DEF Sound
<1>10. Sound(r, Over(req[r], "failed", cut), file', text', born', overwritten', docLock')
  BY <1>0, <1>1, <1>8, <1>9, SoundOver
<1> QED  BY <1>1, <1>3, <1>7, <1>10, FailAssemble DEF Ends

LEMMA FailInit == Init => FailInv
<1> SUFFICES ASSUME Init PROVE FailInv
  OBVIOUS
<1>1. FilesTrue(file, text, born)
  BY GroupsAssumption DEF Init, FilesTrue
<1>2. ASSUME NEW r \in Requests
      PROVE  Sound(r, req[r], file, text, born, overwritten, docLock)
  <2>1. /\ req[r].at = "idle" /\ req[r].op = "none" /\ req[r].ts = {} /\ req[r].new = None
        /\ req[r].done = {} /\ ~req[r].cut
    BY IdleTyped DEF Init
  <2>2. \A t \in Tickets : text[t] = {}
    BY DEF Init
  <2>3. Names(req[r], born) /\ Copies(r, req[r], file, text, overwritten, docLock)
    BY <2>1 DEF Names, Copies, Copied
  <2>4. Blame(r, req[r], text, overwritten) /\ Clean(req[r]) /\ NoNew(req[r], file, overwritten)
    BY <2>1, <2>2 DEF Blame, Clean, NoNew
  <2> QED  BY <2>3, <2>4 DEF Sound
<1> QED  BY <1>1, <1>2 DEF FailInv

LEMMA FailNext == TypeInv /\ FailInv /\ [Next]_vars => FailInv'
<1> SUFFICES ASSUME TypeInv, FailInv, [Next]_vars PROVE FailInv'
  OBVIOUS
<1>1. ASSUME NEW r \in Requests, GroupStep(r)
      PROVE  FailInv'
  BY <1>1, FailReads, FailWrites, FailGroupEnds DEF GroupStep, Reader
<1>2. ASSUME NEW r \in Requests, TicketStep(r)
      PROVE  FailInv'
  BY <1>2, FailLocks, FailFinds, FailPatches, FailUnlinks, FailStops DEF TicketStep
<1>3. ASSUME NEW r \in Requests, BulkStep(r)
      PROVE  FailInv'
  BY <1>3, FailFinds, FailBulkWrites, FailGoesOn, FailReverts DEF BulkStep
<1>4. ASSUME NEW r \in Requests, SplitStep(r)
      PROVE  FailInv'
  BY <1>4, FailFinds, FailCreates, FailRetains, FailSplitStops, FailGoesOn, FailDiscards, FailRestores
     DEF SplitStep
<1>5. CASE UNCHANGED vars
  BY <1>5 DEF vars, FailInv
<1> QED  BY <1>1, <1>2, <1>3, <1>4, <1>5, FailBegins, FailCrashes DEF Next

\* All or nothing, for any number of requests: a bulk update that failed has its change in no
\* ticket, and a split that failed has left no new ticket, provided that the way back went
\* through; left out are the tickets that another split's way back wrote or removed without
\* their lock.
THEOREM FailedLeavesNothingEver == Spec => []FailedLeavesNothing
<1>1. Init => TypeInv /\ FailInv
  BY TypeInit, FailInit
<1>2. TypeInv /\ FailInv /\ [Next]_vars => TypeInv' /\ FailInv'
  BY TypeNext, FailNext
<1>3. TypeInv /\ FailInv => FailedLeavesNothing
  BY FailInvImplies
<1> QED  BY <1>1, <1>2, <1>3, PTL DEF Spec

-------------------------------------------------------------------------------
(* A ticket is in at most one sprint.                                         *)

OpenIn(f, h, t) == h \in Sprints /\ f[h].status = "open" /\ t \in f[h].has

\* The group files as they are when all that is planned is written.
Final(f, pl) == [h \in Groups |-> IF h \in pl.now \cup pl.next THEN pl.to[h] ELSE f[h]]

\* The tickets that a command moves, and those of them that may be in two sprints for now.
Movers == {"complete", "set", "create", "uncreate"}
Gets(call) == IF call.name \in Movers THEN call.ts ELSE {}
Loose(call, pl) == IF call.name = "create" /\ pl.now # {} THEN {} ELSE Gets(call)

\* A creation: the new group comes first, then the evictions; what it does not touch is as it was.
Creating(call, f, pl, tn) ==
  /\ pl.now \subseteq {call.g} /\ pl.next \subseteq Evictions(pl.back, call.g, call.ts)
  /\ \A t \in Tickets \ tn : InOne(pl.back, t)
  /\ \A h \in Groups \ ({call.g} \cup Evictions(pl.back, call.g, call.ts)) : f[h] = pl.back[h]
  /\ \A t \in Tickets \ call.ts : \A h \in Groups :
       /\ OpenIn(f, h, t) <=> OpenIn(pl.back, h, t)
       /\ OpenIn(pl.to, h, t) <=> OpenIn(pl.back, h, t)

\* A write adds a ticket to a sprint only as the last of its plan, or if the ticket moves.
Narrows(call, f, pl, h) ==
  \/ pl.next = {h} /\ h \notin pl.now
  \/ \A t \in Tickets \ Gets(call) : OpenIn(pl.to, h, t) => OpenIn(f, h, t)

OnePlan(call, f, pl, tn) ==
  /\ call.name # "update" => \A t \in Tickets \ tn : InOne(Final(f, pl), t)
  /\ \A t \in Tickets \ (tn \cup Loose(call, pl)) : InOne(f, t)
  /\ \A h \in pl.now \cup pl.next : Narrows(call, f, pl, h)
  /\ call.name = "update" => \A h, k \in pl.now \cup pl.next : h = k
  /\ call.name = "create" => Creating(call, f, pl, tn)
  /\ call.name = "uncreate" =>
       \A t \in Tickets \ call.ts : \A h \in Groups : OpenIn(pl.to, h, t) <=> OpenIn(f, h, t)

OneInv ==
  /\ groupLock = None => \A t \in Tickets \ torn : InOne(group, t)
  /\ \A r \in Requests : HoldsGroups(req[r]) => OnePlan(req[r].call, group, plan, torn)

LEMMA OneInvImplies == OneInv => AtMostOneSprint
  BY DEF OneInv, AtMostOneSprint

LEMMA InOneIs ==
  ASSUME NEW f, NEW t
  PROVE  InOne(f, t) <=> \A g, h \in Groups : OpenIn(f, g, t) /\ OpenIn(f, h, t) => g = h
<1>1. \A g : g \in SprintsOf(f, t) <=> OpenIn(f, g, t)
  BY DEF SprintsOf, OpenIn
<1>2. \A g : OpenIn(f, g, t) => g \in Groups
  BY GroupsAssumption DEF OpenIn
<1> QED  BY <1>1, <1>2 DEF InOne

LEMMA InOneMore ==
  ASSUME NEW f, NEW f2, NEW t, InOne(f, t), \A h \in Groups : OpenIn(f2, h, t) => OpenIn(f, h, t)
  PROVE  InOne(f2, t)
  BY InOneIs

LEMMA FinalIs ==
  ASSUME NEW f, NEW pl, NEW h \in Groups, NEW t
  PROVE  OpenIn(Final(f, pl), h, t) <=>
           IF h \in pl.now \cup pl.next THEN OpenIn(pl.to, h, t) ELSE OpenIn(f, h, t)
  BY DEF Final, OpenIn

\* A plan is no worse when more tickets are noted as torn.
LEMMA OneTorn ==
  ASSUME NEW call, NEW f, NEW pl, NEW tn, NEW tn2, tn \subseteq tn2, OnePlan(call, f, pl, tn)
  PROVE  OnePlan(call, f, pl, tn2)
  BY DEF OnePlan, Creating

\* Steps that leave the group files as they are.
LEMMA OneAssemble ==
  ASSUME TypeInv, TypeInv', OneInv, NEW r \in Requests, NEW p, Becomes(r, p), Mine(r),
         group' = group, torn \subseteq torn', groupLock \notin {None, r} => plan' = plan,
         groupLock' = r => OnePlan(p.call, group, plan', torn'),
         groupLock = r /\ groupLock' = None => \A t \in Tickets \ torn' : InOne(group, t)
  PROVE  OneInv'
<1>1. groupLock' = None => \A t \in Tickets \ torn' : InOne(group', t)
  <2>1. groupLock' = None => groupLock \in {None, r}
    BY DEF Mine
  <2> QED  BY <2>1 DEF OneInv
<1>2. ASSUME NEW s \in Requests, HoldsGroups(req'[s])
      PROVE  OnePlan(req'[s].call, group', plan', torn')
  <2>1. groupLock' = s
    BY <1>2 DEF TypeInv, LockInv, Owns
  <2>2. CASE s = r
    BY <2>1, <2>2 DEF Becomes
  <2>3. CASE s # r
    <3>1. req'[s] = req[s] /\ s # None
      BY <2>3, NoneIsNobody, GroupsAssumption DEF Becomes
    <3>2. groupLock = s
      BY <1>2, <3>1 DEF TypeInv, LockInv, Owns
    <3>3. plan' = plan /\ OnePlan(req[s].call, group, plan, torn)
      BY <1>2, <2>3, <3>1, <3>2 DEF OneInv
    <3> QED  BY <3>1, <3>3, OneTorn
  <2> QED  BY <2>2, <2>3
<1> QED  BY <1>1, <1>2 DEF OneInv

LEMMA OneSame ==
  ASSUME TypeInv, TypeInv', OneInv, NEW r \in Requests, NEW p, Becomes(r, p), Mine(r),
         UNCHANGED <<group, groupLock, plan, torn>>, groupLock = r => p.call = req[r].call
  PROVE  OneInv'
<1>1. ASSUME groupLock' = r
      PROVE  OnePlan(p.call, group, plan', torn')
  <2>1. HoldsGroups(req[r])
    BY <1>1 DEF TypeInv, LockInv, Owns
  <2> QED  BY <1>1, <2>1 DEF OneInv
<1>2. groupLock = r => groupLock' # None
  BY NoneIsNobody, GroupsAssumption
<1> QED  BY <1>1, <1>2, OneAssemble

\* Whoever is not at the group files, and stays away from them.
LEMMA OneAway ==
  ASSUME TypeInv, TypeInv', OneInv, NEW r \in Requests, NEW p, Becomes(r, p), Mine(r),
         UNCHANGED <<group, groupLock, plan, torn>>, ~HoldsGroups(req[r])
  PROVE  OneInv'
<1>1. groupLock # r
  BY DEF TypeInv, LockInv, Owns
<1> QED  BY <1>1, OneSame

\* A request that ends before it writes a group file.
LEMMA OneEnds ==
  ASSUME TypeInv, TypeInv', OneInv, NEW r \in Requests, NEW outcome \in {"done", "failed"}, NEW cut,
         Ends(r, outcome, cut), Mine(r), UNCHANGED <<group, torn>>, req[r].at # "write"
  PROVE  OneInv'
<1> DEFINE p == Over(req[r], outcome, cut)
<1>1. Becomes(r, p)
  BY DEF Ends
<1>2. groupLock' # r
  BY NoneIsNobody, GroupsAssumption DEF Ends
<1>3. ASSUME groupLock = r
      PROVE  \A t \in Tickets \ torn : InOne(group, t)
  <2>1. HoldsGroups(req[r])
    BY <1>3 DEF TypeInv, LockInv, Owns
  <2>2. req[r].call.name = "moveInGroup"
    BY <2>1 DEF HoldsGroups, TypeInv, ReqOK, Shape
  <2>3. OnePlan(req[r].call, group, plan, torn) /\ Loose(req[r].call, plan) = {}
    BY <2>1, <2>2 DEF OneInv, Loose, Gets, Movers
  <2> QED  BY <2>3 DEF OnePlan
<1>4. groupLock \notin {None, r} => plan' = plan
  BY DEF Ends
<1> HIDE DEF p
<1> QED  BY <1>1, <1>2, <1>3, <1>4, OneAssemble

\* One file of several is written.
LEMMA OneFile ==
  ASSUME NEW call, NEW f \in [Groups -> GroupFiles], NEW pl \in Plans, NEW tn,
         OnePlan(call, f, pl, tn), NEW g \in Groups,
         g \in IF pl.now # {} THEN pl.now ELSE pl.next, (pl.now \cup pl.next) \ {g} # {},
         NEW f2, f2 = [f EXCEPT ![g] = pl.to[g]],
         NEW pl2, pl2.now = pl.now \ {g}, pl2.next = pl.next \ {g}, pl2.to = pl.to,
         pl2.back = pl.back
  PROVE  OnePlan(call, f2, pl2, tn)
<1>1. f2[g] = pl.to[g] /\ \A h \in Groups : h # g => f2[h] = f[h]
  OBVIOUS
<1>2. \A t : \A h \in Groups : OpenIn(f2, h, t) <=> IF h = g THEN OpenIn(pl.to, h, t) ELSE OpenIn(f, h, t)
  BY <1>1 DEF OpenIn
<1>3. g \in pl.now \cup pl.next
  OBVIOUS
<1>4. ASSUME call.name # "update", NEW t \in Tickets \ tn
      PROVE  InOne(Final(f2, pl2), t)
  <2>1. InOne(Final(f, pl), t)
    BY <1>4 DEF OnePlan
  <2>2. ASSUME NEW h \in Groups, OpenIn(Final(f2, pl2), h, t)
        PROVE  OpenIn(Final(f, pl), h, t)
    <3>1. IF h \in pl2.now \cup pl2.next THEN OpenIn(pl2.to, h, t) ELSE OpenIn(f2, h, t)
      BY <2>2, FinalIs
    <3>2. IF h \in pl.now \cup pl.next THEN OpenIn(pl.to, h, t) ELSE OpenIn(f, h, t)
      BY <1>2, <1>3, <3>1
    <3> QED  BY <3>2, FinalIs
  <2> QED  BY <2>1, <2>2, InOneMore
<1>5. \A t \in Tickets \ Gets(call) : OpenIn(pl.to, g, t) => OpenIn(f, g, t)
  <2>1. Narrows(call, f, pl, g)
    BY <1>3 DEF OnePlan
  <2>2. ~(pl.next = {g} /\ g \notin pl.now)
    OBVIOUS
  <2> QED  BY <2>1, <2>2 DEF Narrows
<1>6. Loose(call, pl2) = Gets(call)
  <2>1. call.name = "create" => pl2.now = {}
    <3>1. call.name = "create" => pl.now \subseteq {call.g}
      BY DEF OnePlan, Creating
    <3> QED  BY <3>1
  <2> QED  BY <2>1 DEF Loose
<1>7. ASSUME NEW t \in Tickets \ (tn \cup Loose(call, pl2))
      PROVE  InOne(f2, t)
  <2>1. t \notin Loose(call, pl) /\ t \notin Gets(call)
    BY <1>6, <1>7 DEF Loose
  <2>2. InOne(f, t)
    BY <1>7, <2>1 DEF OnePlan
  <2>3. \A h \in Groups : OpenIn(f2, h, t) => OpenIn(f, h, t)
    BY <1>2, <1>5, <2>1
  <2> QED  BY <2>2, <2>3, InOneMore
<1>8. ASSUME NEW h \in pl2.now \cup pl2.next
      PROVE  Narrows(call, f2, pl2, h)
  <2>0. h \in Groups /\ h # g /\ h \in pl.now \cup pl.next
    BY DEF Plans
  <2>1. Narrows(call, f, pl, h)
    BY <2>0 DEF OnePlan
  <2>2. CASE pl.next = {h} /\ h \notin pl.now
    BY <2>0, <2>2 DEF Narrows
  <2>3. CASE \A t \in Tickets \ Gets(call) : OpenIn(pl.to, h, t) => OpenIn(f, h, t)
    BY <1>2, <2>0, <2>3 DEF Narrows
  <2> QED  BY <2>1, <2>2, <2>3 DEF Narrows
<1>9. call.name = "update" => \A h, k \in pl2.now \cup pl2.next : h = k
  BY DEF OnePlan
<1>10. ASSUME call.name = "create"
       PROVE  Creating(call, f2, pl2, tn)
  <2>0. Creating(call, f, pl, tn)
    BY <1>10 DEF OnePlan
  <2>1. g \in {call.g} \cup Evictions(pl.back, call.g, call.ts)
    BY <1>3, <2>0 DEF Creating
  <2>2. \A h \in Groups \ ({call.g} \cup Evictions(pl.back, call.g, call.ts)) : f2[h] = pl.back[h]
    BY <1>1, <2>0, <2>1 DEF Creating
  <2>3. \A t \in Tickets \ call.ts : \A h \in Groups :
          /\ OpenIn(f2, h, t) <=> OpenIn(pl.back, h, t)
          /\ OpenIn(pl.to, h, t) <=> OpenIn(pl.back, h, t)
    BY <1>2, <2>0 DEF Creating
  <2> QED  BY <2>0, <2>2, <2>3 DEF Creating
<1>11. call.name = "uncreate" =>
         \A t \in Tickets \ call.ts : \A h \in Groups : OpenIn(pl2.to, h, t) <=> OpenIn(f2, h, t)
  BY <1>2 DEF OnePlan
<1> QED  BY <1>4, <1>7, <1>8, <1>9, <1>10, <1>11 DEF OnePlan

\* The last file is written.
LEMMA OneLast ==
  ASSUME NEW call, NEW f \in [Groups -> GroupFiles], NEW pl \in Plans, NEW tn,
         OnePlan(call, f, pl, tn), call.name # "update", NEW g \in Groups,
         g \in pl.now \cup pl.next, (pl.now \cup pl.next) \ {g} = {}
  PROVE  \A t \in Tickets \ tn : InOne([f EXCEPT ![g] = pl.to[g]], t)
<1> SUFFICES ASSUME NEW t \in Tickets \ tn PROVE InOne([f EXCEPT ![g] = pl.to[g]], t)
  OBVIOUS
<1> DEFINE f2 == [f EXCEPT ![g] = pl.to[g]]
<1>1. f2[g] = pl.to[g] /\ \A h \in Groups : h # g => f2[h] = f[h]
  OBVIOUS
<1> HIDE DEF f2
<1>2. InOne(Final(f, pl), t)
  BY DEF OnePlan
<1>3. ASSUME NEW h \in Groups, OpenIn(f2, h, t)
      PROVE  OpenIn(Final(f, pl), h, t)
  <2>1. IF h \in pl.now \cup pl.next THEN OpenIn(pl.to, h, t) ELSE OpenIn(f, h, t)
    BY <1>1, <1>3 DEF OpenIn
  <2> QED  BY <2>1, FinalIs
<1>4. InOne(f2, t)
  BY <1>2, <1>3, InOneMore
<1> QED  BY <1>4 DEF f2

LEMMA OneWrites ==
  ASSUME TypeInv, OneInv, NEW r \in Requests, NEW interrupted \in BOOLEAN,
         WriteGroup(r, interrupted)
  PROVE  OneInv'
<1>1. TypeInv' /\ Mine(r) /\ groupLock = r /\ req[r].at = "write" /\ r # None
  BY WriteKeeps, Writer
<1>2. PICK g \in Wave :
        /\ g \in Groups /\ group' = [group EXCEPT ![g] = plan.to[g]]
        /\ Noted(r, g)
        /\ torn' = IF req[r].call.name = "update"
                   THEN torn \cup {t \in Tickets : ~InOne(group', t)} ELSE torn
        /\ \/ Remaining(g) = {} /\ Released(r)
              /\ Becomes(r, Went(req[r], IF interrupted THEN req[r].err ELSE req[r].ok))
              /\ (interrupted => req[r].call.name \notin {"create", "uncreate"})
           \/ Remaining(g) # {} /\ NextFile(g)
  BY WriteKeeps
<1>3. group \in [Groups -> GroupFiles] /\ plan \in Plans /\ LocksOK
  BY DEF TypeInv, VarsOK, FilesOK, LocksOK
<1>4. OnePlan(req[r].call, group, plan, torn)
  BY <1>1 DEF OneInv, HoldsGroups
<1>5. CASE Remaining(g) = {} /\ Released(r)
  <2>1. groupLock' = None
    BY <1>5 DEF Released
  <2>2. \A t \in Tickets \ torn' : InOne(group', t)
    <3>1. CASE req[r].call.name = "update"
      BY <1>2, <3>1
    <3>2. CASE req[r].call.name # "update"
      <4>1. g \in plan.now \cup plan.next /\ (plan.now \cup plan.next) \ {g} = {}
        BY <1>5 DEF Wave, Remaining
      <4> QED  BY <1>2, <1>3, <1>4, <3>2, <4>1, OneLast
    <3> QED  BY <3>1, <3>2
  <2>3. \A s \in Requests : ~HoldsGroups(req'[s])
    BY <1>1, <2>1, NoneIsNobody, GroupsAssumption DEF TypeInv, LockInv, Owns
  <2> QED  BY <2>2, <2>3 DEF OneInv
<1>6. CASE Remaining(g) # {} /\ NextFile(g)
  <2>1. /\ plan' \in Plans /\ plan'.now = plan.now \ {g} /\ plan'.next = plan.next \ {g}
        /\ plan'.to = plan.to /\ plan'.back = plan.back
    BY <1>3, <1>6, NextFileTyped DEF NextFile
  <2>2. groupLock' = r /\ req' = req
    BY <1>1, <1>6 DEF NextFile
  <2>3. /\ g \in IF plan.now # {} THEN plan.now ELSE plan.next
        /\ (plan.now \cup plan.next) \ {g} # {}
    BY <1>6 DEF Wave, Remaining
  <2>4. OnePlan(req[r].call, group', plan', torn)
    BY <1>2, <1>3, <1>4, <2>1, <2>3, OneFile
  <2>5. OnePlan(req[r].call, group', plan', torn')
    BY <1>2, <2>4, OneTorn
  <2>6. \A s \in Requests : HoldsGroups(req'[s]) => s = r
    BY <1>1, <2>2 DEF TypeInv, LockInv, Owns
  <2> QED  BY <1>1, <2>2, <2>5, <2>6 DEF OneInv
<1> QED  BY <1>2, <1>5, <1>6

\* What a planned command brings about, from group files in which every ticket is in one sprint.
OnePlanned(call, now, next, to) ==
  OnePlan(call, group, [now |-> now, next |-> next, to |-> to, back |-> group], torn)

\* Commands that only take tickets out of sprints.
LEMMA OneShrinks ==
  ASSUME OneInv, groupLock = None, NEW call, NEW now, NEW next, NEW to,
         call.name \notin {"update", "create", "uncreate"},
         \A h \in Groups : \A t \in Tickets : OpenIn(to, h, t) => OpenIn(group, h, t),
         now \cup next \subseteq Groups
  PROVE  OnePlanned(call, now, next, to)
<1> DEFINE pl == [now |-> now, next |-> next, to |-> to, back |-> group]
<1>1. pl.now = now /\ pl.next = next /\ pl.to = to
  OBVIOUS
<1> HIDE DEF pl
<1>2. \A t \in Tickets \ torn : InOne(group, t)
  BY DEF OneInv
<1>3. ASSUME NEW t \in Tickets \ torn
      PROVE  InOne(Final(group, pl), t)
  <2>1. \A h \in Groups : OpenIn(Final(group, pl), h, t) => OpenIn(group, h, t)
    BY <1>1, FinalIs
  <2> QED  BY <1>2, <2>1, InOneMore
<1>4. \A h \in now \cup next : Narrows(call, group, pl, h)
  BY <1>1 DEF Narrows
<1>5. OnePlan(call, group, pl, torn)
  BY <1>1, <1>2, <1>3, <1>4 DEF OnePlan
<1> QED  BY <1>5 DEF OnePlanned, pl

\* update: the one file.
LEMMA OneUpdates ==
  ASSUME OneInv, groupLock = None, NEW call, call.name = "update", NEW g, NEW to
  PROVE  OnePlanned(call, {}, {g}, to)
<1> DEFINE pl == [now |-> {}, next |-> {g}, to |-> to, back |-> group]
<1>1. pl.now = {} /\ pl.next = {g}
  OBVIOUS
<1> HIDE DEF pl
<1>2. \A t \in Tickets \ torn : InOne(group, t)
  BY DEF OneInv
<1>3. \A h \in pl.now \cup pl.next : Narrows(call, group, pl, h)
  BY <1>1 DEF Narrows
<1>4. OnePlan(call, group, pl, torn)
  BY <1>1, <1>2, <1>3 DEF OnePlan
<1> QED  BY <1>4 DEF OnePlanned, pl

\* Evictions, and then a group that is given tickets: each of them is in that group only.
LEMMA EvictionsLeaveOne ==
  ASSUME group \in [Groups -> GroupFiles], NEW g \in Groups, NEW new \in GroupFiles,
         NEW nx \in SUBSET Tickets, new.has = nx, NEW pl, pl.now \cup pl.next = Evictions(group, g, nx) \cup {g},
         pl.to = Given(g, new, nx), NEW t \in Tickets, InOne(group, t)
  PROVE  InOne(Final(group, pl), t)
<1>1. /\ Given(g, new, nx)[g] = new
      /\ \A h \in Groups : h # g => /\ Given(g, new, nx)[h].status = group[h].status
                                    /\ Given(g, new, nx)[h].has = group[h].has \ nx
  BY DEF Given, GroupFiles
<1>2. \A h \in Groups : h # g => (OpenIn(pl.to, h, t) <=> OpenIn(group, h, t) /\ t \notin nx)
  BY <1>1 DEF OpenIn
<1>3. OpenIn(pl.to, g, t) => t \in nx /\ g \in Sprints
  BY <1>1 DEF OpenIn
<1>4. CASE t \in nx /\ g \in Sprints
  <2>1. ASSUME NEW h \in Groups, h # g, OpenIn(Final(group, pl), h, t)
        PROVE  FALSE
    <3>1. h \notin Evictions(group, g, nx) /\ OpenIn(group, h, t)
      BY <1>2, <1>4, <2>1, FinalIs
    <3> QED  BY <1>4, <2>1, <3>1 DEF Evictions, OpenIn
  <2> QED  BY <2>1, InOneIs
<1>5. CASE ~(t \in nx /\ g \in Sprints)
  <2>1. \A h \in Groups : OpenIn(pl.to, h, t) => OpenIn(group, h, t)
    BY <1>2, <1>3, <1>5
  <2>2. \A h \in Groups : OpenIn(Final(group, pl), h, t) => OpenIn(group, h, t)
    BY <2>1, FinalIs
  <2> QED  BY <2>2, InOneMore
<1> QED  BY <1>4, <1>5

LEMMA OneChanges ==
  ASSUME TypeInv, OneInv, groupLock = None, NEW call,
         call.name \in {"updateTickets", "addTickets", "removeTickets"},
         NEW g \in Groups, NEW nx \in SUBSET Tickets
  PROVE  OnePlanned(call, Evictions(group, g, nx), {g}, Given(g, [group[g] EXCEPT !.has = nx], nx))
<1> DEFINE new == [group[g] EXCEPT !.has = nx]
           to == Given(g, new, nx)
           pl == [now |-> Evictions(group, g, nx), next |-> {g}, to |-> to, back |-> group]
<1>1. group \in [Groups -> GroupFiles] /\ new \in GroupFiles /\ new.has = nx
  BY DEF TypeInv, VarsOK, FilesOK, GroupFiles
<1>2. /\ pl.now = Evictions(group, g, nx) /\ pl.next = {g} /\ pl.to = Given(g, new, nx)
      /\ g \notin pl.now
  BY EvictionsTyped
<1> HIDE DEF pl, new
<1>3. \A t \in Tickets \ torn : InOne(group, t)
  BY DEF OneInv
<1>4. \A t \in Tickets \ torn : InOne(Final(group, pl), t)
  BY <1>1, <1>2, <1>3, EvictionsLeaveOne
<1>5. ASSUME NEW h \in pl.now \cup pl.next
      PROVE  Narrows(call, group, pl, h)
  <2>1. CASE h = g
    BY <1>2, <2>1 DEF Narrows
  <2>2. CASE h # g
    <3>1. h \in Groups
      BY <1>2, <2>2, EvictionsTyped
    <3>2. pl.to[h].status = group[h].status /\ pl.to[h].has = group[h].has \ nx
      BY <1>1, <1>2, <2>2, <3>1 DEF Given, GroupFiles
    <3> QED  BY <3>2 DEF Narrows, OpenIn
  <2> QED  BY <2>1, <2>2
<1>6. OnePlan(call, group, pl, torn)
  BY <1>3, <1>4, <1>5 DEF OnePlan
<1> QED  BY <1>6 DEF OnePlanned, pl, new

LEMMA OneCreates ==
  ASSUME TypeInv, OneInv, groupLock = None, NEW call, NEW g \in Groups, NEW ts \in SUBSET Tickets,
         call.name = "create", call.g = g, call.ts = ts, group[g].status = "none"
  PROVE  OnePlanned(call, {g}, Evictions(group, g, ts),
                    Given(g, [status |-> "open", has |-> ts], ts))
<1> DEFINE new == [status |-> "open", has |-> ts]
           to == Given(g, new, ts)
           pl == [now |-> {g}, next |-> Evictions(group, g, ts), to |-> to, back |-> group]
<1>1. group \in [Groups -> GroupFiles] /\ new \in GroupFiles /\ new.has = ts
  BY DEF TypeInv, VarsOK, FilesOK, GroupFiles
<1>2. /\ pl.now = {g} /\ pl.next = Evictions(group, g, ts) /\ pl.to = Given(g, new, ts)
      /\ pl.back = group
  OBVIOUS
<1> HIDE DEF pl, new
<1>3. \A t \in Tickets \ torn : InOne(group, t)
  BY DEF OneInv
<1>4. \A t \in Tickets \ torn : InOne(Final(group, pl), t)
  BY <1>1, <1>2, <1>3, EvictionsLeaveOne
<1>5. \A t \in Tickets \ ts : \A h \in Groups : OpenIn(pl.to, h, t) <=> OpenIn(group, h, t)
  <2> SUFFICES ASSUME NEW t \in Tickets \ ts, NEW h \in Groups
               PROVE  OpenIn(pl.to, h, t) <=> OpenIn(group, h, t)
    OBVIOUS
  <2>1. CASE h = g
    <3>1. pl.to[h] = new
      BY <1>1, <1>2, <2>1 DEF Given
    <3> QED  BY <1>1, <2>1, <3>1 DEF OpenIn
  <2>2. CASE h # g
    <3>1. pl.to[h].status = group[h].status /\ pl.to[h].has = group[h].has \ ts
      BY <1>1, <1>2, <2>2 DEF Given, GroupFiles
    <3> QED  BY <3>1 DEF OpenIn
  <2> QED  BY <2>1, <2>2
<1>6. pl.now \cup pl.next \subseteq Groups
  BY <1>2, EvictionsTyped
<1>7. \A h \in pl.now \cup pl.next : Narrows(call, group, pl, h)
  BY <1>5, <1>6 DEF Narrows, Gets, Movers
<1>8. Creating(call, group, pl, torn)
  BY <1>2, <1>3, <1>5 DEF Creating
<1>9. OnePlan(call, group, pl, torn)
  BY <1>3, <1>4, <1>7, <1>8 DEF OnePlan
<1> QED  BY <1>9 DEF OnePlanned, pl, new

LEMMA OneCompletes ==
  ASSUME TypeInv, OneInv, groupLock = None, NEW call, NEW g \in Groups, NEW dest \in Groups \cup {None},
         NEW carry \in SUBSET Tickets, call.name = "complete", call.ts = carry,
         IsOpen(g), dest # g, carry \subseteq group[g].has
  PROVE  OnePlanned(call, IF dest = None \/ carry = {} THEN {} ELSE {dest}, {g},
                    CompleteTo(g, dest, carry))
<1> DEFINE now == IF dest = None \/ carry = {} THEN {} ELSE {dest}
           to == CompleteTo(g, dest, carry)
           pl == [now |-> now, next |-> {g}, to |-> to, back |-> group]
<1>1. pl.now = now /\ pl.next = {g} /\ pl.to = to /\ g \notin pl.now
  OBVIOUS
<1>2. group \in [Groups -> GroupFiles]
  BY DEF TypeInv, VarsOK, FilesOK
<1>3. \A t : ~OpenIn(to, g, t)
  BY DEF OpenIn, CompleteTo
<1>4. \A h \in Groups : h # g =>
        to[h].status = group[h].status /\ to[h].has = IF h = dest THEN group[h].has \cup carry ELSE group[h].has
  BY <1>2 DEF CompleteTo, GroupFiles
<1> HIDE DEF pl, to
<1>5. \A t \in Tickets \ torn : InOne(group, t)
  BY DEF OneInv
<1>6. \A t \in Tickets \ carry : \A h \in Groups : OpenIn(to, h, t) => OpenIn(group, h, t)
  BY <1>3, <1>4 DEF OpenIn
<1>7. ASSUME NEW t \in Tickets \ torn
      PROVE  InOne(Final(group, pl), t)
  <2>1. CASE t \notin carry
    <3>1. \A h \in Groups : OpenIn(Final(group, pl), h, t) => OpenIn(group, h, t)
      BY <1>1, <1>6, <2>1, FinalIs
    <3> QED  BY <1>5, <3>1, InOneMore
  <2>2. CASE t \in carry
    <3>1. OpenIn(group, g, t)
      BY <2>2 DEF OpenIn, IsOpen
    <3>2. \A h \in Groups : OpenIn(group, h, t) => h = g
      BY <1>5, <3>1, InOneIs
    <3>3. ASSUME NEW h \in Groups, OpenIn(Final(group, pl), h, t)
          PROVE  h = dest
      <4>1. h # g
        BY <1>1, <1>3, <3>3, FinalIs
      <4>2. CASE h \in pl.now \cup pl.next
        BY <1>1, <4>1, <4>2
      <4>3. CASE h \notin pl.now \cup pl.next
        BY <3>2, <3>3, <4>1, <4>3, FinalIs
      <4> QED  BY <4>2, <4>3
    <3> QED  BY <3>3, InOneIs
  <2> QED  BY <2>1, <2>2
<1>8. ASSUME NEW h \in pl.now \cup pl.next
      PROVE  Narrows(call, group, pl, h)
  <2>1. CASE h = g
    BY <1>1, <2>1 DEF Narrows
  <2>2. CASE h # g
    <3>1. h \in Groups
      BY <1>1, <2>2
    <3> QED  BY <1>1, <1>6, <3>1 DEF Narrows, Gets, Movers
  <2> QED  BY <2>1, <2>2
<1>9. OnePlan(call, group, pl, torn)
  BY <1>5, <1>7, <1>8 DEF OnePlan
<1> QED  BY <1>9 DEF OnePlanned, pl, to

LEMMA OneMoves ==
  ASSUME TypeInv, OneInv, groupLock = None, NEW call, NEW g \in Groups \cup {None},
         NEW ts \in SUBSET Tickets, Single(ts), call.name = "set", call.ts = ts
  PROVE  OnePlanned(call, Misplaced(g, ts), {}, Moved(g, ts))
<1> DEFINE pl == [now |-> Misplaced(g, ts), next |-> {}, to |-> Moved(g, ts), back |-> group]
<1>1. pl.now = Misplaced(g, ts) /\ pl.next = {} /\ pl.to = Moved(g, ts)
  OBVIOUS
<1> HIDE DEF pl
<1>2. \A h \in Groups :
        /\ pl.to[h].status = group[h].status
        /\ pl.to[h].has = IF h = g THEN group[h].has \cup ts ELSE group[h].has \ ts
  <2>1. group \in [Groups -> GroupFiles]
    BY DEF TypeInv, VarsOK, FilesOK
  <2>2. \A h \in Groups :
          /\ Moved(g, ts)[h].status = group[h].status
          /\ Moved(g, ts)[h].has = IF h = g THEN group[h].has \cup ts ELSE group[h].has \ ts
    <3>1. ASSUME NEW h \in Groups
          PROVE  LET new == [group[h] EXCEPT !.has = IF h = g THEN @ \cup ts ELSE @ \ ts]
                 IN  /\ new.status = group[h].status
                     /\ new.has = IF h = g THEN group[h].has \cup ts ELSE group[h].has \ ts
      <4>1. group[h] \in GroupFiles
        BY <2>1
      <4> QED  BY <4>1 DEF GroupFiles
    <3> QED  BY <3>1 DEF Moved
  <2> QED  BY <1>1, <2>2
<1>3. \A t \in Tickets \ torn : InOne(group, t)
  BY DEF OneInv
<1>4. \A t \in Tickets \ ts : \A h \in Groups : OpenIn(pl.to, h, t) => OpenIn(group, h, t)
  BY <1>2 DEF OpenIn
<1>5. ASSUME NEW t \in Tickets \ torn
      PROVE  InOne(Final(group, pl), t)
  <2>1. CASE t \notin ts
    <3>1. \A h \in Groups : OpenIn(Final(group, pl), h, t) => OpenIn(group, h, t)
      BY <1>4, <2>1, FinalIs
    <3> QED  BY <1>3, <3>1, InOneMore
  <2>2. CASE t \in ts
    <3>1. \A f : ts \subseteq f <=> t \in f
      BY <2>2 DEF Single
    <3>2. ASSUME NEW h \in Groups, OpenIn(Final(group, pl), h, t)
          PROVE  h = g
      <4>1. CASE h \in pl.now
        <5>1. OpenIn(pl.to, h, t)
          BY <3>2, <4>1, FinalIs
        <5> QED  BY <1>2, <2>2, <5>1 DEF OpenIn
      <4>2. CASE h \notin pl.now
        <5>1. OpenIn(group, h, t)
          BY <1>1, <3>2, <4>2, FinalIs
        <5> QED  BY <1>1, <3>1, <4>2, <5>1 DEF OpenIn, Misplaced, IsOpen
      <4> QED  BY <4>1, <4>2
    <3> QED  BY <3>2, InOneIs
  <2> QED  BY <2>1, <2>2
<1>6. \A h \in pl.now \cup pl.next : Narrows(call, group, pl, h)
  BY <1>1, <1>4 DEF Narrows, Gets, Movers, Misplaced
<1>7. OnePlan(call, group, pl, torn)
  BY <1>3, <1>5, <1>6 DEF OnePlan
<1> QED  BY <1>7 DEF OnePlanned, pl

\* The commands that read the group files: they leave them, or plan.
LEMMA OneLeaves ==
  ASSUME TypeInv, TypeInv', OneInv, NEW r \in Requests, Mine(r), Reading(r), Leaves(r)
  PROVE  OneInv'
<1>1. groupLock = None /\ groupLock' = None /\ group' = group /\ torn' = torn /\ r # None
  BY NoneIsNobody, GroupsAssumption DEF Reading, Leaves, files, history
<1>2. PICK p : Becomes(r, p)
  BY DEF Leaves
<1> QED  BY <1>1, <1>2, OneAssemble

LEMMA OnePlans ==
  ASSUME TypeInv, TypeInv', OneInv, NEW r \in Requests, Mine(r), Reading(r),
         NEW call, NEW now, NEW next, NEW to, Plans1(r, call, now, next, to),
         OnePlanned(call, now, next, to)
  PROVE  OneInv'
<1>1. groupLock = None /\ group' = group /\ torn' = torn /\ r # None
  BY NoneIsNobody, GroupsAssumption DEF Reading, files, history
<1>2. PICK p : /\ Becomes(r, p) /\ p.call = call
               /\ plan' = [now |-> now, next |-> next, to |-> to, back |-> group]
  BY PlansWrites
<1>3. OnePlan(p.call, group, plan', torn')
  BY <1>1, <1>2 DEF OnePlanned
<1> QED  BY <1>1, <1>2, <1>3, OneAssemble

LEMMA OneReads ==
  ASSUME TypeInv, OneInv, NEW r \in Requests, Reader(r) \/ RemoveTicketFromAllGroups(r)
  PROVE  OneInv'
<1>1. Reading(r) /\ groupLock = None
  BY ReaderReads DEF Reading
<1>2. /\ req[r] \in RequestRecords /\ req[r].call \in CallRecords
      /\ group \in [Groups -> GroupFiles]
  BY DEF TypeInv, VarsOK, FilesOK, ReqOK, RequestRecords
<1>3. ASSUME CreateGroup(r) PROVE OneInv'
  <2>1. TypeInv' /\ Mine(r)
    BY <1>3, CreateKeeps
  <2>2. CASE Leaves(r)
    BY <1>1, <2>1, <2>2, OneLeaves
  <2>3. CASE ~Leaves(r)
    <3>1. PICK g \in Groups, ts \in SUBSET Tickets :
                 /\ ts = req[r].call.ts /\ group[g].status = "none" /\ ts \subseteq file
                 /\ Plans1(r, [req[r].call EXCEPT !.g = g], {g}, Evictions(group, g, ts),
                           Given(g, [status |-> "open", has |-> ts], ts))
      BY <1>3, <2>3, CreateKeeps
    <3>2. req[r].call.name = "create"
      BY <1>3 DEF CreateGroup, Calling
    <3> DEFINE call == [req[r].call EXCEPT !.g = g]
    <3>3. call.name = "create" /\ call.g = g /\ call.ts = ts
      BY <1>2, <3>1, <3>2 DEF CallRecords
    <3>4. Plans1(r, call, {g}, Evictions(group, g, ts), Given(g, [status |-> "open", has |-> ts], ts))
      BY <3>1
    <3> HIDE DEF call
    <3>5. OnePlanned(call, {g}, Evictions(group, g, ts), Given(g, [status |-> "open", has |-> ts], ts))
      BY <1>1, <3>1, <3>3, OneCreates
    <3> QED  BY <1>1, <2>1, <3>4, <3>5, OnePlans
  <2> QED  BY <2>2, <2>3
<1>4. ASSUME UpdateGroup(r) PROVE OneInv'
  <2>1. TypeInv' /\ Mine(r)
    BY <1>4, UpdateKeeps
  <2>2. CASE Leaves(r)
    BY <1>1, <2>1, <2>2, OneLeaves
  <2>3. CASE ~Leaves(r)
    <3>1. PICK g \in Groups, status \in {"open", "completed"} :
                 Plans1(r, req[r].call, {}, {g}, Given(g, [group[g] EXCEPT !.status = status], {}))
      BY <1>4, <2>3, UpdateKeeps
    <3>2. req[r].call.name = "update"
      BY <1>4 DEF UpdateGroup, Calling
    <3>3. OnePlanned(req[r].call, {}, {g}, Given(g, [group[g] EXCEPT !.status = status], {}))
      BY <1>1, <3>2, OneUpdates
    <3> QED  BY <1>1, <2>1, <3>1, <3>3, OnePlans
  <2> QED  BY <2>2, <2>3
<1>5. ASSUME ChangeTickets(r) PROVE OneInv'
  <2>1. TypeInv' /\ Mine(r)
    BY <1>5, ChangeKeeps
  <2>2. CASE Leaves(r)
    BY <1>1, <2>1, <2>2, OneLeaves
  <2>3. CASE ~Leaves(r)
    <3>1. PICK g \in Groups, next \in SUBSET Tickets :
                 /\ req[r].call.name \in {"updateTickets", "addTickets", "removeTickets"}
                 /\ group[g].status = "open" /\ next \ file \subseteq group[g].has
                 /\ Plans1(r, req[r].call, Evictions(group, g, next), {g},
                           Given(g, [group[g] EXCEPT !.has = next], next))
      BY <1>5, <2>3, ChangeKeeps
    <3>2. OnePlanned(req[r].call, Evictions(group, g, next), {g},
                     Given(g, [group[g] EXCEPT !.has = next], next))
      BY <1>1, <3>1, OneChanges
    <3> QED  BY <1>1, <2>1, <3>1, <3>2, OnePlans
  <2> QED  BY <2>2, <2>3
<1>6. ASSUME Complete(r) PROVE OneInv'
  <2>1. TypeInv' /\ Mine(r)
    BY <1>6, CompleteKeeps
  <2>2. CASE Leaves(r)
    BY <1>1, <2>1, <2>2, OneLeaves
  <2>3. CASE ~Leaves(r)
    <3>1. PICK g \in Groups, dest \in Groups \cup {None}, carry \in SUBSET Tickets :
                 /\ IsOpen(g) /\ dest # g /\ (dest # None => IsOpen(dest))
                 /\ carry \subseteq group[g].has /\ group[g].has \subseteq file
                 /\ Plans1(r, [req[r].call EXCEPT !.ts = carry],
                           IF dest = None \/ carry = {} THEN {} ELSE {dest}, {g},
                           CompleteTo(g, dest, carry))
      BY <1>6, <2>3, CompleteKeeps
    <3>2. req[r].call.name = "complete"
      BY <1>6 DEF Complete, Calling
    <3> DEFINE call == [req[r].call EXCEPT !.ts = carry]
    <3>3. call.name = "complete" /\ call.ts = carry
      BY <1>2, <3>2 DEF CallRecords
    <3>4. Plans1(r, call, IF dest = None \/ carry = {} THEN {} ELSE {dest}, {g},
                 CompleteTo(g, dest, carry))
      BY <3>1
    <3> HIDE DEF call
    <3>5. OnePlanned(call, IF dest = None \/ carry = {} THEN {} ELSE {dest}, {g},
                     CompleteTo(g, dest, carry))
      BY <1>1, <3>1, <3>3, OneCompletes
    <3> QED  BY <1>1, <2>1, <3>4, <3>5, OnePlans
  <2> QED  BY <2>2, <2>3
<1>7. ASSUME RemoveGroup(r) PROVE OneInv'
  <2>1. TypeInv' /\ Mine(r)
    BY <1>7, RemoveGroupKeeps
  <2>2. CASE Leaves(r)
    BY <1>1, <2>1, <2>2, OneLeaves
  <2>3. CASE ~Leaves(r)
    <3>1. PICK g \in Groups :
                 /\ req[r].call.name = "removeGroup"
                 /\ Plans1(r, req[r].call, {}, {g}, Given(g, NoFile, {}))
      BY <1>7, <2>3, RemoveGroupKeeps
    <3>2. ASSUME NEW h \in Groups, NEW t \in Tickets, OpenIn(Given(g, NoFile, {}), h, t)
          PROVE  OpenIn(group, h, t)
      <4>1. group[h] \in GroupFiles
        BY <1>2
      <4> QED  BY <3>2, <4>1 DEF OpenIn, Given, NoFile, GroupFiles
    <3>3. OnePlanned(req[r].call, {}, {g}, Given(g, NoFile, {}))
      BY <1>1, <3>1, <3>2, OneShrinks
    <3> QED  BY <1>1, <2>1, <3>1, <3>3, OnePlans
  <2> QED  BY <2>2, <2>3
<1>8. ASSUME RemoveTicketFromAllGroups(r) PROVE OneInv'
  <2> DEFINE ts == req[r].call.ts
  <2>1. TypeInv' /\ Mine(r) /\ req[r].call.name = "strip"
    BY <1>8, StripKeeps
  <2>2. CASE Leaves(r)
    BY <1>1, <2>1, <2>2, OneLeaves
  <2>3. CASE ~Leaves(r)
    <3>1. Plans1(r, req[r].call, Listing(ts), {}, Given(None, NoFile, ts))
      BY <1>8, <2>3, StripKeeps
    <3> HIDE DEF ts
    <3>2. ASSUME NEW h \in Groups, NEW t \in Tickets, OpenIn(Given(None, NoFile, ts), h, t)
          PROVE  OpenIn(group, h, t)
      <4>1. group[h] \in GroupFiles
        BY <1>2
      <4> QED  BY <3>2, <4>1 DEF OpenIn, Given, NoFile, GroupFiles
    <3>3. Listing(ts) \cup {} \subseteq Groups
      BY DEF Listing
    <3>4. OnePlanned(req[r].call, Listing(ts), {}, Given(None, NoFile, ts))
      BY <1>1, <2>1, <3>2, <3>3, OneShrinks
    <3> QED  BY <1>1, <2>1, <3>1, <3>4, OnePlans
  <2> QED  BY <2>2, <2>3
<1>9. ASSUME SetSprintMembership(r) PROVE OneInv'
  <2>1. TypeInv' /\ Mine(r)
    BY <1>9, SetKeeps
  <2>2. CASE Leaves(r)
    BY <1>1, <2>1, <2>2, OneLeaves
  <2>3. CASE ~Leaves(r)
    <3>1. PICK g \in Groups \cup {None}, ts \in SUBSET Tickets :
                 /\ req[r].call.name = "set" /\ req[r].call.ts = ts /\ Single(ts)
                 /\ Plans1(r, req[r].call, Misplaced(g, ts), {}, Moved(g, ts))
      BY <1>9, <2>3, SetKeeps
    <3>2. OnePlanned(req[r].call, Misplaced(g, ts), {}, Moved(g, ts))
      BY <1>1, <3>1, OneMoves
    <3> QED  BY <1>1, <2>1, <3>1, <3>2, OnePlans
  <2> QED  BY <2>2, <2>3
<1>10. ASSUME UpdateTicketOrder(r) PROVE OneInv'
  <2>1. TypeInv' /\ Mine(r)
    BY <1>10, OrderKeeps
  <2>2. CASE Leaves(r)
    BY <1>1, <2>1, <2>2, OneLeaves
  <2>3. CASE ~Leaves(r)
    <3>1. PICK g \in Groups, p \in Ordered(req[r]) :
                 /\ groupLock' = r
                 /\ plan' = [now |-> {}, next |-> {g}, to |-> group, back |-> group]
                 /\ Becomes(r, p) /\ req[r].call.name = "moveInGroup"
      BY <1>10, <2>3, OrderKeeps
    <3>2. p.call = req[r].call
      BY <1>2, <3>1 DEF Ordered, Locks, RequestRecords
    <3>3. OnePlanned(req[r].call, {}, {g}, group)
      BY <1>1, <3>1, OneShrinks
    <3>4. group' = group /\ torn' = torn /\ r # None
      BY <1>1, NoneIsNobody, GroupsAssumption DEF Reading, files, history
    <3>5. OnePlan(p.call, group, plan', torn')
      BY <3>1, <3>2, <3>3, <3>4 DEF OnePlanned
    <3> QED  BY <1>1, <2>1, <3>1, <3>4, <3>5, OneAssemble
  <2> QED  BY <2>2, <2>3
<1> QED  BY <1>3, <1>4, <1>5, <1>6, <1>7, <1>8, <1>9, <1>10 DEF Reader

\* A command that fails, and the way back of a creation.
LEMMA OneFails ==
  ASSUME TypeInv, OneInv, NEW r \in Requests, GroupCallFails(r)
  PROVE  OneInv'
<1>1. /\ TypeInv' /\ Mine(r) /\ UNCHANGED <<files, relisted, haunted, overwritten>>
      /\ Becomes(r, Went(req[r], req[r].err))
  BY CallFailsKeeps
<1>2. group' = group
  BY <1>1 DEF files
<1>3. CASE req[r].at = "group" /\ groupLock' = groupLock /\ plan' = plan /\ torn' = torn
  <2>1. ~HoldsGroups(req[r])
    BY <1>3 DEF HoldsGroups
  <2> QED  BY <1>1, <1>2, <1>3, <2>1, OneAway
<1>4. CASE /\ req[r].at = "write" /\ Released(r) /\ groupLock = r
           /\ torn' = torn \cup Unfinished(req[r].call)
           /\ req[r].call.name # "uncreate" /\ ~Undoes(r)
  <2>1. OnePlan(req[r].call, group, plan, torn)
    BY <1>4 DEF OneInv, HoldsGroups
  <2>2. Loose(req[r].call, plan) \subseteq Unfinished(req[r].call)
    BY <1>4 DEF Loose, Gets, Movers, Unfinished, Undoes
  <2>3. \A t \in Tickets \ torn' : InOne(group, t)
    BY <1>4, <2>1, <2>2 DEF OnePlan
  <2>4. groupLock' = None /\ r # None
    BY <1>4, NoneIsNobody, GroupsAssumption DEF Released
  <2>5. torn \subseteq torn'
    BY <1>4
  <2> QED  BY <1>1, <1>2, <1>4, <2>3, <2>4, <2>5, OneAssemble
<1> QED  BY <1>3, <1>4, CallFailsKeeps

LEMMA OneRollsBack ==
  ASSUME TypeInv, OneInv, NEW r \in Requests, RollBackCreation(r)
  PROVE  OneInv'
<1>1. /\ TypeInv' /\ Mine(r) /\ UNCHANGED <<files, groupLock, history>> /\ groupLock = r
      /\ req[r].at = "write" /\ Undoes(r)
      /\ plan' = [plan EXCEPT !.now = {req[r].call.g}, !.to = plan.back,
                    !.next = Evictions(plan.back, req[r].call.g, req[r].call.ts)]
  BY RollBackKeeps
<1>2. PICK p : /\ Becomes(r, p) /\ p.call.name = "uncreate" /\ p.call.g = req[r].call.g
               /\ p.call.ts = req[r].call.ts
  BY RollBackKeeps
<1>3. group' = group /\ torn' = torn /\ plan \in Plans /\ r # None
  BY <1>1, NoneIsNobody, GroupsAssumption DEF files, history, TypeInv, VarsOK, LocksOK
<1> DEFINE g == req[r].call.g
           ts == req[r].call.ts
           back == plan.back
           pl == plan'
<1>4. pl.now = {g} /\ pl.next = Evictions(back, g, ts) /\ pl.to = back
  BY <1>1, <1>3 DEF Plans
<1>5. OnePlan(req[r].call, group, plan, torn) /\ req[r].call.name = "create" /\ plan.now = {}
  BY <1>1 DEF OneInv, HoldsGroups, Undoes
<1>6. /\ \A t \in Tickets \ torn : InOne(back, t)
      /\ \A h \in Groups \ ({g} \cup Evictions(back, g, ts)) : group[h] = back[h]
      /\ \A t \in Tickets \ ts : \A h \in Groups : OpenIn(group, h, t) <=> OpenIn(back, h, t)
  BY <1>5 DEF OnePlan, Creating
<1>7. \A t \in Tickets \ (torn \cup ts) : InOne(group, t)
  BY <1>5 DEF OnePlan, Loose, Gets, Movers
<1>8. p.call.ts = ts /\ Gets(p.call) = ts /\ Loose(p.call, pl) = ts
  BY <1>2 DEF Loose, Gets, Movers
<1>9. pl.now \cup pl.next \subseteq Groups
  <2>1. plan' \in Plans
    BY <1>1 DEF TypeInv, VarsOK, LocksOK
  <2> QED  BY <2>1 DEF Plans
<1> HIDE DEF pl, back, ts, g
<1>10. ASSUME NEW t \in Tickets \ torn
       PROVE  InOne(Final(group, pl), t)
  <2>1. ASSUME NEW h \in Groups, OpenIn(Final(group, pl), h, t)
        PROVE  OpenIn(back, h, t)
    <3>1. CASE h \in pl.now \cup pl.next
      BY <1>4, <2>1, <3>1, FinalIs
    <3>2. CASE h \notin pl.now \cup pl.next
      <4>1. OpenIn(group, h, t)
        BY <2>1, <3>2, FinalIs
      <4>2. group[h] = back[h]
        BY <1>4, <1>6, <3>2
      <4> QED  BY <4>1, <4>2 DEF OpenIn
    <3> QED  BY <3>1, <3>2
  <2> QED  BY <1>6, <2>1, InOneMore
<1>11. \A h \in pl.now \cup pl.next : Narrows(p.call, group, pl, h)
  BY <1>4, <1>6, <1>8, <1>9 DEF Narrows
<1>12. OnePlan(p.call, group, pl, torn)
  BY <1>2, <1>4, <1>6, <1>7, <1>8, <1>10, <1>11 DEF OnePlan
<1>13. groupLock' = r
  BY <1>1
<1>14. OnePlan(p.call, group, plan', torn')
  BY <1>3, <1>12 DEF pl
<1> QED  BY <1>1, <1>2, <1>3, <1>13, <1>14, OneAssemble

LEMMA OneRollBackFails ==
  ASSUME TypeInv, OneInv, NEW r \in Requests, RollBackFails(r)
  PROVE  OneInv'
<1>1. /\ TypeInv' /\ Mine(r) /\ UNCHANGED <<files, relisted, haunted, overwritten>> /\ groupLock = r
      /\ req[r].at = "write" /\ req[r].call.name = "uncreate"
      /\ torn' = torn \cup req[r].call.ts
  BY RollBackFailsKeeps
<1>2. group' = group /\ torn \subseteq torn' /\ r # None
  BY <1>1, NoneIsNobody, GroupsAssumption DEF files
<1> DEFINE call == req[r].call
<1>3. OnePlan(call, group, plan, torn) /\ call.name = "uncreate" /\ torn' = torn \cup call.ts
  BY <1>1 DEF OneInv, HoldsGroups
<1>4. Gets(call) = call.ts /\ \A pl : Loose(call, pl) = call.ts
  BY <1>3 DEF Loose, Gets, Movers
<1> HIDE DEF call
<1>5. \A t \in Tickets \ torn' : InOne(group, t)
  BY <1>3, <1>4 DEF OnePlan
<1>6. CASE Released(r)
  <2>1. PICK q : Becomes(r, q)
    BY <1>6 DEF Released
  <2>2. groupLock' = None
    BY <1>6 DEF Released
  <2> QED  BY <1>1, <1>2, <1>5, <2>1, <2>2, OneAssemble
<1>7. ASSUME NEW g, NextFile(g)
      PROVE  OneInv'
  <2>1. Becomes(r, req[r]) /\ groupLock' = r
    BY <1>1, <1>7 DEF NextFile, Becomes, TypeInv, ReqOK
  <2>2. /\ plan' \in Plans /\ plan'.now = plan.now \ {g} /\ plan'.next = plan.next \ {g}
        /\ plan'.to = plan.to /\ plan'.back = plan.back
    BY <1>7, NextFileTyped DEF NextFile, TypeInv, VarsOK
  <2>3. \A t \in Tickets \ call.ts : \A h \in Groups : OpenIn(plan'.to, h, t) <=> OpenIn(group, h, t)
    BY <1>3, <2>2 DEF OnePlan
  <2>4. ASSUME NEW t \in Tickets \ torn'
        PROVE  InOne(Final(group, plan'), t)
    <3>1. \A h \in Groups : OpenIn(Final(group, plan'), h, t) => OpenIn(group, h, t)
      BY <1>3, <2>3, FinalIs
    <3> QED  BY <1>5, <3>1, InOneMore
  <2>5. \A h \in plan'.now \cup plan'.next : Narrows(call, group, plan', h)
    BY <1>4, <2>2, <2>3 DEF Narrows, Plans
  <2>6. OnePlan(call, group, plan', torn')
    BY <1>3, <1>4, <1>5, <2>3, <2>4, <2>5 DEF OnePlan
  <2>7. req[r].call = call
    BY DEF call
  <2> QED  BY <1>1, <1>2, <2>1, <2>6, <2>7, OneAssemble
<1> QED  BY <1>6, <1>7, RollBackFailsKeeps


LEMMA OneCommands ==
  ASSUME TypeInv, OneInv, NEW r \in Requests, GroupStep(r)
  PROVE  OneInv'
<1>1. Reader(r) \/ RemoveTicketFromAllGroups(r) \/ (\E interrupted \in BOOLEAN : WriteGroup(r, interrupted))
      \/ GroupCallFails(r) \/ RollBackCreation(r) \/ RollBackFails(r)
  BY DEF GroupStep, Reader
<1> QED  BY <1>1, OneReads, OneWrites, OneFails, OneRollsBack, OneRollBackFails

LEMMA OneBegins ==
  ASSUME TypeInv, OneInv, NEW r \in Requests, Begin(r)
  PROVE  OneInv'
<1>1. TypeInv' /\ Mine(r) /\ \E p : Becomes(r, p)
  BY BeginKeeps
<1>2. UNCHANGED <<group, groupLock, plan, torn>> /\ req[r].at = "idle"
  BY DEF Begin, At, files, history
<1>3. ~HoldsGroups(req[r])
  BY <1>2 DEF HoldsGroups
<1> QED  BY <1>1, <1>2, <1>3, OneAway

LEMMA AtKeepsCall ==
  ASSUME NEW q \in RequestRecords, NEW at
  PROVE  [q EXCEPT !.at = at].call = q.call
BY DEF RequestRecords

\* The steps of tickets: a move within a group keeps the lock of the group files meanwhile.
LEMMA OneTickets ==
  ASSUME TypeInv, OneInv, NEW r \in Requests, TicketStep(r)
  PROVE  OneInv'
<1>0. req[r] \in RequestRecords
  BY DEF TypeInv, ReqOK
<1>1. CASE LockTicket(r)
  <2>1. /\ TypeInv' /\ Mine(r) /\ UNCHANGED <<files, groupLock, plan, history, failures>>
        /\ \/ Becomes(r, req[r])
           \/ Becomes(r, [req[r] EXCEPT !.at = Afterwards(req[r])])
    BY <1>1, LockKeeps
  <2>2. UNCHANGED <<group, groupLock, plan, torn>>
    BY <2>1 DEF files, history
  <2>3. [req[r] EXCEPT !.at = Afterwards(req[r])].call = req[r].call
    BY <1>0, AtKeepsCall
  <2> QED  BY <2>1, <2>2, <2>3, OneSame
<1>2. CASE ReadTicket(r)
  <2>1. /\ TypeInv' /\ Mine(r) /\ UNCHANGED <<files, history, failures>> /\ req[r].at = "read"
        /\ \/ Ends(r, "failed", FALSE)
           \/ \E p : UNCHANGED <<groupLock, docLock, plan>> /\ Becomes(r, p) /\ p.call = req[r].call
    BY <1>2, ReadKeeps, ZenonT(30)
  <2>2. UNCHANGED <<group, torn>>
    BY <2>1 DEF files, history
  <2> QED  BY <2>1, <2>2, OneSame, OneEnds
<1>3. CASE PatchTicket(r)
  <2>1. /\ TypeInv' /\ Mine(r) /\ UNCHANGED <<born, group, history, failures>> /\ req[r].at = "patch"
        /\ \/ Ends(r, "done", FALSE)
           \/ \E p : UNCHANGED <<groupLock, plan>> /\ Becomes(r, p) /\ p.call = req[r].call
    BY <1>3, PatchKeeps
  <2>2. UNCHANGED <<group, torn>>
    BY <2>1 DEF history
  <2> QED  BY <2>1, <2>2, OneSame, OneEnds
<1>4. CASE Unlink(r)
  <2>1. /\ TypeInv' /\ Mine(r) /\ req[r].at = "unlink"
        /\ UNCHANGED <<born, group, torn, relisted, overwritten, failures>>
        /\ Ends(r, "done", FALSE) \/ Ends(r, "failed", FALSE)
    BY <1>4, UnlinkKeeps
  <2>2. UNCHANGED <<group, torn>>
    BY <2>1
  <2> QED  BY <2>1, <2>2, OneEnds
<1>5. CASE Stops(r)
  <2> DEFINE late == req[r].at \in {"relock", "recording", "record"}
  <2>1. /\ TypeInv' /\ Mine(r) /\ UNCHANGED <<files, history>> /\ req[r].at # "write"
        /\ Ends(r, "failed", late)
    BY <1>5, StopsKeeps
  <2> HIDE DEF late
  <2>2. UNCHANGED <<group, torn>>
    BY <2>1 DEF files, history
  <2> QED  BY <2>1, <2>2, OneEnds
<1> QED  BY <1>1, <1>2, <1>3, <1>4, <1>5 DEF TicketStep

\* The steps of bulk updates and splits: they are not at the group files.
LEMMA OneBulk ==
  ASSUME TypeInv, OneInv, NEW r \in Requests, BulkStep(r)
  PROVE  OneInv'
<1>1. CASE ReadTickets(r)
  <2>1. /\ TypeInv' /\ Mine(r) /\ UNCHANGED <<files, history, failures>> /\ req[r].at = "read"
        /\ req[r].op = "bulkUpdate"
        /\ \/ Ends(r, "failed", FALSE)
           \/ \E p : UNCHANGED <<groupLock, docLock, plan>> /\ Becomes(r, p)
    BY <1>1, ReadBulkKeeps
  <2>2. UNCHANGED <<group, torn>> /\ ~HoldsGroups(req[r])
    BY <2>1 DEF files, history, HoldsGroups
  <2> QED  BY <2>1, <2>2, OneAway, OneEnds
<1>2. ASSUME NEW interrupted \in BOOLEAN, WriteNext(r, interrupted)
      PROVE  OneInv'
  <2>0. TypeInv' /\ Mine(r)
    BY <1>2, WriteNextKeeps
  <2>1. UNCHANGED <<born, group, groupLock, docLock, plan, history>> /\ req[r].at = "bulk"
    BY <1>2 DEF WriteNext, At
  <2>2. PICK t \in Tickets, p \in RequestRecords :
              /\ t \in req[r].todo /\ Stored(t, req[r].copy[t]) /\ docLock[t] = r
              /\ Becomes(r, p)
              /\ p.op = req[r].op /\ p.ts = req[r].ts /\ p.new = req[r].new /\ p.copy = req[r].copy
              /\ \/ p.at = "revert" /\ p.cut = TRUE
                 \/ /\ p.at = "bulk" /\ p.todo = req[r].todo \ {t} /\ p.done = req[r].done \cup {t}
                    /\ p.cut = req[r].cut
    BY <1>2, WriteNextKeeps
  <2>3. UNCHANGED <<group, groupLock, plan, torn>> /\ ~HoldsGroups(req[r])
    BY <2>1 DEF history, HoldsGroups
  <2> QED  BY <2>0, <2>2, <2>3, OneAway
<1>3. CASE BulkFails(r)
  <2>1. /\ TypeInv' /\ Mine(r) /\ UNCHANGED <<files, groupLock, docLock, plan, history>>
        /\ req[r].at = "bulk" /\ \E p : Becomes(r, p)
    BY <1>3, BulkFailsKeeps
  <2>2. UNCHANGED <<group, groupLock, plan, torn>> /\ req[r].op = "bulkUpdate"
    BY <1>3, <2>1, BulkFailsKeeps DEF files, history
  <2>3. ~HoldsGroups(req[r])
    BY <2>1, <2>2 DEF HoldsGroups
  <2> QED  BY <2>1, <2>2, <2>3, OneAway
<1>4. CASE BulkWritten(r)
  <2>1. /\ TypeInv' /\ Mine(r) /\ UNCHANGED <<files, groupLock, plan, history, failures>>
        /\ req[r].at = "bulk" /\ req[r].op = "bulkUpdate" /\ \E p : Becomes(r, p)
    BY <1>4, BulkWrittenKeeps DEF Sprinting
  <2>2. UNCHANGED <<group, groupLock, plan, torn>> /\ ~HoldsGroups(req[r])
    BY <2>1 DEF files, history, HoldsGroups
  <2> QED  BY <2>1, <2>2, OneAway
<1>5. CASE LeaveSprint(r)
  <2>1. /\ TypeInv' /\ Mine(r) /\ UNCHANGED <<files, groupLock, docLock, plan, history, failures>>
        /\ req[r].at \in {"leave", "left"} /\ \E p : Becomes(r, p)
    BY <1>5, LeaveKeeps DEF Sprinting
  <2>2. UNCHANGED <<group, groupLock, plan, torn>> /\ ~HoldsGroups(req[r])
    BY <2>1 DEF files, history, HoldsGroups
  <2> QED  BY <2>1, <2>2, OneAway
<1>6. CASE Rejoin(r)
  <2>1. /\ TypeInv' /\ Mine(r) /\ UNCHANGED <<files, groupLock, docLock, plan, history, failures>>
        /\ req[r].at \in {"rejoin", "rejoined"} /\ \E p : Becomes(r, p)
    BY <1>6, RejoinKeeps DEF Sprinting
  <2>2. UNCHANGED <<group, groupLock, plan, torn>> /\ ~HoldsGroups(req[r])
    BY <2>1 DEF files, history, HoldsGroups
  <2> QED  BY <2>1, <2>2, OneAway
<1>7. CASE Revert(r)
  <2>1. /\ TypeInv' /\ Mine(r) /\ UNCHANGED <<born, group, history>> /\ req[r].at = "revert"
        /\ \/ Ends(r, "failed", req[r].cut)
           \/ \E p : UNCHANGED <<groupLock, docLock, plan>> /\ Becomes(r, p)
    BY <1>7, RevertKeeps
  <2>2. UNCHANGED <<group, torn>> /\ ~HoldsGroups(req[r])
    BY <2>1 DEF history, HoldsGroups
  <2> QED  BY <2>1, <2>2, OneAway, OneEnds
<1> QED  BY <1>1, <1>2, <1>3, <1>4, <1>5, <1>6, <1>7 DEF BulkStep

LEMMA OneSplits ==
  ASSUME TypeInv, OneInv, NEW r \in Requests, SplitStep(r)
  PROVE  OneInv'
<1>1. CASE ReadSplit(r)
  <2>1. /\ TypeInv' /\ Mine(r) /\ UNCHANGED <<files, history, failures>> /\ req[r].at = "read"
        /\ req[r].op = "split"
        /\ \/ Ends(r, "failed", FALSE)
           \/ \E p : UNCHANGED <<groupLock, docLock, plan>> /\ Becomes(r, p)
    BY <1>1, ReadSplitKeeps
  <2>2. UNCHANGED <<group, torn>> /\ ~HoldsGroups(req[r])
    BY <2>1 DEF files, history, HoldsGroups
  <2> QED  BY <2>1, <2>2, OneAway, OneEnds
<1>2. CASE WriteNew(r)
  <2>1. /\ TypeInv' /\ Mine(r) /\ UNCHANGED <<group, groupLock, docLock, plan, history, failures>>
        /\ req[r].at = "birth" /\ \E p : Becomes(r, p)
    BY <1>2, WriteNewKeeps
  <2>2. UNCHANGED <<group, groupLock, plan, torn>> /\ ~HoldsGroups(req[r])
    BY <2>1 DEF history, HoldsGroups
  <2> QED  BY <2>1, <2>2, OneAway
<1>3. CASE Retain(r)
  <2>1. /\ TypeInv' /\ Mine(r) /\ UNCHANGED <<born, group, groupLock, plan, history, failures>>
        /\ req[r].at = "retain" /\ \E p : Becomes(r, p)
    BY <1>3, RetainKeeps
  <2>2. UNCHANGED <<group, groupLock, plan, torn>> /\ ~HoldsGroups(req[r])
    BY <2>1 DEF history, HoldsGroups
  <2> QED  BY <2>1, <2>2, OneAway
<1>4. CASE SplitFails(r)
  <2>1. /\ TypeInv' /\ Mine(r) /\ UNCHANGED <<files, groupLock, docLock, plan, history>>
        /\ req[r].at \in {"birth", "retain"} /\ \E p : Becomes(r, p)
    BY <1>4, SplitFailsKeeps
  <2>2. UNCHANGED <<group, groupLock, plan, torn>> /\ ~HoldsGroups(req[r])
    BY <2>1 DEF files, history, HoldsGroups
  <2> QED  BY <2>1, <2>2, OneAway
<1>5. CASE AssignNew(r)
  <2>1. /\ TypeInv' /\ Mine(r) /\ UNCHANGED <<files, groupLock, docLock, plan, history, failures>>
        /\ req[r].at = "assign" /\ \E p : Becomes(r, p)
    BY <1>5, AssignKeeps
  <2>2. UNCHANGED <<group, groupLock, plan, torn>> /\ ~HoldsGroups(req[r])
    BY <2>1 DEF files, history, HoldsGroups
  <2> QED  BY <2>1, <2>2, OneAway
<1>6. CASE Record(r)
  <2>1. /\ TypeInv' /\ Mine(r) /\ UNCHANGED <<files, history, failures>>
        /\ req[r].at = "record" /\ Ends(r, "done", FALSE)
    BY <1>6, RecordKeeps
  <2>2. UNCHANGED <<group, torn>>
    BY <2>1 DEF files, history
  <2> QED  BY <2>1, <2>2, OneEnds
<1>7. CASE UndoSprints(r)
  <2>1. /\ TypeInv' /\ Mine(r) /\ UNCHANGED <<files, groupLock, docLock, plan, history, failures>>
        /\ req[r].at \in {"undo", "undo old"} /\ \E p : Becomes(r, p)
    BY <1>7, UndoKeeps
  <2>2. UNCHANGED <<group, groupLock, plan, torn>> /\ ~HoldsGroups(req[r])
    BY <2>1 DEF files, history, HoldsGroups
  <2> QED  BY <2>1, <2>2, OneAway
<1>8. ASSUME NEW fails \in BOOLEAN, Discard(r, fails)
      PROVE  OneInv'
  <2>1. /\ TypeInv' /\ Mine(r) /\ UNCHANGED <<born, group, groupLock, docLock, plan, torn, relisted>>
        /\ req[r].at = "discard"
    BY <1>8, DiscardKeeps
  <2>2. PICK p \in RequestRecords :
              /\ Becomes(r, p) /\ p.at = "restore" /\ p.cut = (req[r].cut \/ fails)
              /\ p.op = req[r].op /\ p.ts = req[r].ts /\ p.new = req[r].new
              /\ p.copy = req[r].copy /\ p.todo = req[r].todo /\ p.done = req[r].done
    BY <1>8, DiscardKeeps
  <2>3. ~HoldsGroups(req[r])
    BY <2>1 DEF HoldsGroups
  <2> QED  BY <2>1, <2>2, <2>3, OneAway
<1>9. ASSUME NEW fails \in BOOLEAN, Restore(r, fails)
      PROVE  OneInv'
  <2>1. /\ TypeInv' /\ Mine(r) /\ UNCHANGED <<born, group, torn, relisted, haunted>> /\ req[r].at = "restore"
    BY <1>9, RestoreKeeps
  <2>2. PICK cut \in BOOLEAN : cut = (req[r].cut \/ fails) /\ Ends(r, "failed", cut)
    BY <1>9, RestoreKeeps
  <2> QED  BY <2>1, <2>2, OneEnds
<1> QED  BY <1>1, <1>2, <1>3, <1>4, <1>5, <1>6, <1>7, <1>8, <1>9 DEF SplitStep

LEMMA OneCrashes ==
  ASSUME TypeInv, OneInv, Crash
  PROVE  OneInv'
<1>1. /\ TypeInv' /\ UNCHANGED <<files, relisted, haunted, overwritten>> /\ groupLock' = None
      /\ torn \subseteq torn' /\ \A r \in Requests : Parted(r) => req[r].call.ts \subseteq torn'
  BY CrashKeeps
<1>2. group' = group
  BY <1>1 DEF files
<1>3. \A t \in Tickets \ torn' : InOne(group, t)
  <2>1. CASE groupLock = None
    BY <1>1, <2>1 DEF OneInv
  <2>2. CASE groupLock # None
    <3>1. PICK r \in Requests : groupLock = r
      BY <2>2 DEF TypeInv, VarsOK, LocksOK
    <3>2. HoldsGroups(req[r]) /\ Shape(req[r])
      BY <3>1 DEF TypeInv, LockInv, Owns, ReqOK
    <3>3. Loose(req[r].call, plan) \subseteq torn'
      <4>1. CASE req[r].at = "write"
        BY <1>1, <4>1 DEF Parted, Loose, Gets, Movers
      <4>2. CASE req[r].at # "write"
        <5>1. req[r].call.name = "moveInGroup"
          BY <3>2, <4>2 DEF HoldsGroups, Shape
        <5> QED  BY <5>1 DEF Loose, Gets, Movers
      <4> QED  BY <4>1, <4>2
    <3>4. OnePlan(req[r].call, group, plan, torn)
      BY <3>2 DEF OneInv
    <3> QED  BY <1>1, <3>3, <3>4 DEF OnePlan
  <2> QED  BY <2>1, <2>2
<1>4. \A s \in Requests : ~HoldsGroups(req'[s])
  BY <1>1, NoneIsNobody, GroupsAssumption DEF TypeInv, LockInv, Owns
<1> QED  BY <1>1, <1>2, <1>3, <1>4 DEF OneInv

LEMMA OneInit == Init => OneInv
<1> SUFFICES ASSUME Init PROVE OneInv
  OBVIOUS
<1>1. \A t \in Tickets : InOne(group, t)
  BY GroupsAssumption DEF Init
<1>2. \A r \in Requests : req[r].at = "idle"
  BY DEF Init, Idle
<1>3. \A r \in Requests : ~HoldsGroups(req[r])
  BY <1>2 DEF HoldsGroups
<1> QED  BY <1>1, <1>3 DEF OneInv

LEMMA OneNext == TypeInv /\ OneInv /\ [Next]_vars => OneInv'
<1> SUFFICES ASSUME TypeInv, OneInv, [Next]_vars PROVE OneInv'
  OBVIOUS
<1>1. CASE UNCHANGED vars
  BY <1>1 DEF OneInv, vars
<1>2. CASE Crash
  BY <1>2, OneCrashes
<1>3. ASSUME NEW r \in Requests,
             Begin(r) \/ GroupStep(r) \/ TicketStep(r) \/ BulkStep(r) \/ SplitStep(r)
      PROVE  OneInv'
  BY <1>3, OneBegins, OneCommands, OneTickets, OneBulk, OneSplits
<1> QED  BY <1>1, <1>2, <1>3 DEF Next

(***************************************************************************)
(* A ticket is in at most one open sprint whenever nobody is at the group  *)
(* files, whichever commands succeeded, failed, were rolled back or ended  *)
(* with the process before; only what a completion, a move or a creation   *)
(* left half done, or an update opened again, is left out                  *)
(* (planEvictions, setSprintMembership, complete and the rollback of       *)
(* create in groups/Groups.ts).                                            *)
(***************************************************************************)
THEOREM AtMostOneSprintEver == Spec => []AtMostOneSprint
<1>1. Init => TypeInv /\ OneInv
  BY TypeInit, OneInit
<1>2. TypeInv /\ OneInv /\ [Next]_vars => TypeInv' /\ OneInv'
  BY TypeNext, OneNext
<1>3. TypeInv /\ OneInv => AtMostOneSprint
  BY OneInvImplies
<1> QED  BY <1>1, <1>2, <1>3, PTL DEF Spec


===============================================================================
