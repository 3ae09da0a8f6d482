---------------------------- MODULE ProjectMembers ----------------------------
(***************************************************************************)
(* Who belongs to one organization and to its projects: the org roles      *)
(* (apps/backend/src/auth), the project roles                              *)
(* (server-core/src/projects/ProjectMembers.ts) and the rule that a        *)
(* project always keeps a PM.                                              *)
(*                                                                         *)
(* A handler changes a project under a lock on its project_index row       *)
(* (ProjectDetails.withWriteLock).  Leaving the org takes no such lock:    *)
(* the member row goes, the project rows go by cascade, and the deferred   *)
(* trigger project_keeps_a_pm locks each project when that deletion is     *)
(* about to commit.  Transactions are READ COMMITTED: a statement sees     *)
(* what is committed when it runs, waits for rows another transaction has  *)
(* deleted, and the variables hold what is committed.  Whether the caller  *)
(* may make the request (packages/access) is left out: anybody may.        *)
(***************************************************************************)
EXTENDS FiniteSets

CONSTANTS
  Users,
  Projects,
  Handlers,   \* concurrent requests
  Nobody,     \* the holder of a free lock, and the user of no request
  Nowhere     \* the project of a request that is about the org

ASSUME MembersAssumption ==
  /\ Nobody \notin Handlers \cup Users
  /\ Nowhere \notin Projects

VARIABLES
  orgRole,   \* member: the org role of each user
  status,    \* project_index: "unborn", "live" or "removed"
  role,      \* project_member: the role of each user in each project
  lock,      \* holder of the row lock of each project
  pc,        \* where each handler is
  req,       \* the request each handler serves
  cleared    \* projects whose trigger has passed, per handler

vars == <<orgRole, status, role, lock, pc, req, cleared>>

-------------------------------------------------------------------------------
\* A guest is treated as a member here, and a developer as a client.
OrgRoles == {"none", "member", "admin", "owner"}
Roles == {"none", "client", "pm"}
OrgAssignable == {"member", "admin"}
Assignable == Roles \ {"none"}
Labels == {"idle", "locking", "locked", "checked", "creating", "expelling", "deleted",
           "settingRole"}
Ops == {"none", "add", "update", "drop", "removeProject", "create", "expel", "setOrgRole"}

\* "to" is the role asked for, in the project or in the org.
Requests == [op : Ops, project : Projects \cup {Nowhere}, user : Users \cup {Nobody},
             to : Roles \cup OrgRoles]
Request(op, P, u, r) == [op |-> op, project |-> P, user |-> u, to |-> r]
NoRequest == Request("none", Nowhere, Nobody, "none")

Members == {u \in Users : orgRole[u] # "none"}
Owners == {u \in Users : orgRole[u] = "owner"}
Pms(P) == {u \in Users : role[P][u] = "pm"}

\* requireAnotherPm, and lastPmProjectSlugs of one project.
NoCheck(P, u) == TRUE
AnotherPm(P, u) == role[P][u] = "pm" => Pms(P) # {u}

\* assertNotLastOrgOwner, of somebody who is not to be an owner.
NotLastOwner(u) == Owners # {u}

\* The member row and the project rows of u are deleted, not yet committed.
RowHeld(u) == \E h \in Handlers : pc[h] = "deleted" /\ req[h].user = u

\* A project row refers to a member row.
AnyUser(u) == TRUE
InOrg(u) == u \in Members

Init ==
  /\ orgRole \in [Users -> OrgRoles]
  /\ Cardinality(Owners) = 1
  /\ status \in [Projects -> {"unborn", "live"}]
  /\ role \in [Projects -> [Users -> Roles]]
  /\ \A P \in Projects : Pms(P) # {} <=> status[P] = "live"
  /\ \A P \in Projects, u \in Users :
       role[P][u] # "none" => status[P] = "live" /\ u \in Members
  /\ lock = [P \in Projects |-> Nobody]
  /\ pc = [h \in Handlers |-> "idle"]
  /\ req = [h \in Handlers |-> NoRequest]
  /\ cleared = [h \in Handlers |-> {}]

Start(h, label, r) ==
  /\ pc[h] = "idle"
  /\ pc' = [pc EXCEPT ![h] = label]
  /\ req' = [req EXCEPT ![h] = r]
  /\ UNCHANGED <<orgRole, status, role, lock, cleared>>

Goto(h, label) ==
  /\ pc' = [pc EXCEPT ![h] = label]
  /\ UNCHANGED <<req, cleared>>

\* The transaction ends and its locks go.
End(h) ==
  /\ pc' = [pc EXCEPT ![h] = "idle"]
  /\ req' = [req EXCEPT ![h] = NoRequest]
  /\ lock' = [P \in Projects |-> IF lock[P] = h THEN Nobody ELSE lock[P]]
  /\ cleared' = [cleared EXCEPT ![h] = {}]

\* A refusal, a defect, a deadlock the database resolves, a crash, or nothing
\* left to do.
Abort(h) ==
  /\ pc[h] # "idle"
  /\ End(h)
  /\ UNCHANGED <<orgRole, status, role>>

-------------------------------------------------------------------------------
(* Requests under the lock of the project.                                   *)

\* addMember of somebody the org has; updateMember; Projects.remove.
AddMember(h, P, u, r) ==
  u \in Members /\ Start(h, "locking", Request("add", P, u, r))
UpdateMember(h, P, u, r) ==
  Start(h, "locking", Request("update", P, u, r))
RemoveProject(h, P) ==
  Start(h, "locking", Request("removeProject", P, Nobody, "none"))

\* removeMember and leave, which look for another PM before they lock, too.
DropMember(h, P, u) ==
  /\ role[P][u] # "none"
  /\ AnotherPm(P, u)
  /\ Start(h, "locking", Request("drop", P, u, "none"))

\* withWriteLock.  Of a project that is gone no row is found to change.
LockProject(h) ==
  LET P == req[h].project IN
  /\ pc[h] = "locking"
  /\ status[P] = "live"
  /\ lock[P] = Nobody
  /\ lock' = [lock EXCEPT ![P] = h]
  /\ Goto(h, "locked")
  /\ UNCHANGED <<orgRole, status, role>>

\* Under the lock the role is read, and another PM looked for if it changes.
\* An update to the same role writes nothing new; without a role only an
\* addition goes on.
CheckRole(h) ==
  LET P == req[h].project
      u == req[h].user
  IN
  /\ pc[h] = "locked"
  /\ req[h].op # "removeProject" =>
       /\ role[P][u] # req[h].to
       /\ role[P][u] = "none" => req[h].op = "add"
       /\ AnotherPm(P, u)
  /\ Goto(h, "checked")
  /\ UNCHANGED <<orgRole, status, role, lock>>

\* project_keeps_a_pm, of a commit that leaves role r to u.
PmRemains(P, u, r) == role[P][u] = "pm" /\ r # "pm" => Pms(P) # {u}

\* The row is inserted, updated or deleted and the transaction commits.  The
\* statement waits while the row, or the member it refers to, is being deleted;
\* then the insert fails and the others find no row.
WriteRole(h) ==
  LET P == req[h].project
      u == req[h].user
  IN
  /\ pc[h] = "checked"
  /\ req[h].op # "removeProject"
  /\ ~RowHeld(u)
  /\ role[P][u] # "none" \/ (req[h].op = "add" /\ InOrg(u))
  /\ PmRemains(P, u, req[h].to)
  /\ role' = [role EXCEPT ![P] = [@ EXCEPT ![u] = req[h].to]]
  /\ End(h)
  /\ UNCHANGED <<orgRole, status>>

\* The project goes with its rows; the trigger finds no project and passes.
Delete(P) ==
  /\ \A u \in Users : role[P][u] # "none" => ~RowHeld(u)
  /\ status' = [status EXCEPT ![P] = "removed"]
  /\ role' = [role EXCEPT ![P] = [u \in Users |-> "none"]]
  /\ UNCHANGED orgRole
DeleteProject(h) ==
  /\ pc[h] = "checked"
  /\ req[h].op = "removeProject"
  /\ Delete(req[h].project)
  /\ End(h)

-------------------------------------------------------------------------------
(* Requests without that lock.                                               *)

\* Projects.create: the project and its creator as PM in one transaction; when
\* its file cannot be written, the rows are deleted in another.
CreateProject(h, P, u) ==
  /\ pc[h] = "idle"
  /\ status[P] = "unborn"
  /\ InOrg(u)
  /\ ~RowHeld(u)
  /\ status' = [status EXCEPT ![P] = "live"]
  /\ role' = [role EXCEPT ![P] = [@ EXCEPT ![u] = "pm"]]
  /\ pc' = [pc EXCEPT ![h] = "creating"]
  /\ req' = [req EXCEPT ![h] = Request("create", P, u, "pm")]
  /\ UNCHANGED <<orgRole, lock, cleared>>
RollbackCreate(h) ==
  /\ pc[h] = "creating"
  /\ status[req[h].project] = "live"
  /\ lock[req[h].project] = Nobody
  /\ Delete(req[h].project)
  /\ End(h)

\* An invitation is accepted: first the org membership ...
JoinOrg(u, r) ==
  /\ orgRole[u] = "none"
  /\ ~RowHeld(u)
  /\ orgRole' = [orgRole EXCEPT ![u] = r]
  /\ UNCHANGED <<status, role, lock, pc, req, cleared>>

\* ... then, in a transaction of its own, the granted roles.  An insert waits
\* for the lock of its project; a role the user already has stays.
ApplyGrants(u, grant) ==
  LET new == {P \in Projects : grant[P] # "none" /\ role[P][u] = "none"} IN
  /\ InOrg(u)
  /\ ~RowHeld(u)
  /\ \A P \in new : status[P] = "live" /\ lock[P] = Nobody
  /\ role' = [P \in Projects |->
                IF P \in new THEN [role[P] EXCEPT ![u] = grant[P]] ELSE role[P]]
  /\ UNCHANGED <<orgRole, status, lock, pc, req, cleared>>

\* removeMember of the org and leaveOrg, whose hooks read without a lock.
Expel(h, u) ==
  /\ u \in Members
  /\ NotLastOwner(u)
  /\ \A P \in Projects : status[P] = "live" => AnotherPm(P, u)
  /\ Start(h, "expelling", Request("expel", Nowhere, u, "none"))

\* The member row and, by cascade, the user's rows in all projects.
DeleteMember(h) ==
  /\ pc[h] = "expelling"
  /\ req[h].user \in Members
  /\ ~RowHeld(req[h].user)
  /\ Goto(h, "deleted")
  /\ UNCHANGED <<orgRole, status, role, lock>>

\* project_keeps_a_pm for one deleted PM row: lock the project, then look.
Clear(h, P) ==
  /\ pc[h] = "deleted"
  /\ role[P][req[h].user] = "pm"
  /\ P \notin cleared[h]
  /\ PmRemains(P, req[h].user, "none")
  /\ cleared' = [cleared EXCEPT ![h] = @ \cup {P}]
  /\ UNCHANGED <<orgRole, status, role, pc, req>>
ClearUnlocked(h, P) ==
  /\ Clear(h, P)
  /\ UNCHANGED lock
Trigger(h, P) ==
  /\ lock[P] = Nobody
  /\ Clear(h, P)
  /\ lock' = [lock EXCEPT ![P] = h]

CommitExpel(h) ==
  LET u == req[h].user IN
  /\ pc[h] = "deleted"
  /\ \A P \in Projects : role[P][u] = "pm" => P \in cleared[h]
  /\ orgRole' = [orgRole EXCEPT ![u] = "none"]
  /\ role' = [P \in Projects |-> [role[P] EXCEPT ![u] = "none"]]
  /\ End(h)
  /\ UNCHANGED status

\* updateMemberRole of the org: the hook reads, then the row is written.
SetOrgRole(h, u, r) ==
  /\ u \in Members
  /\ NotLastOwner(u)
  /\ Start(h, "settingRole", Request("setOrgRole", Nowhere, u, r))
WriteOrgRole(h) ==
  /\ pc[h] = "settingRole"
  /\ req[h].user \in Members
  /\ ~RowHeld(req[h].user)
  /\ orgRole' = [orgRole EXCEPT ![req[h].user] = req[h].to]
  /\ End(h)
  /\ UNCHANGED <<status, role>>

\* transferOwnership locks, reads and writes both rows in one transaction.
TransferOwnership(u, v) ==
  /\ orgRole[u] = "owner"
  /\ orgRole[v] = "admin"
  /\ ~RowHeld(u) /\ ~RowHeld(v)
  /\ orgRole' = [orgRole EXCEPT ![u] = "admin", ![v] = "owner"]
  /\ UNCHANGED <<status, role, lock, pc, req, cleared>>

-------------------------------------------------------------------------------
Handler(h) ==
  \/ \E P \in Projects, u \in Users, r \in Assignable :
       AddMember(h, P, u, r) \/ UpdateMember(h, P, u, r)
  \/ \E P \in Projects, u \in Users : DropMember(h, P, u)
  \/ \E P \in Projects : RemoveProject(h, P)
  \/ LockProject(h)
  \/ CheckRole(h)
  \/ WriteRole(h)
  \/ DeleteProject(h)
  \/ \E P \in Projects, u \in Users : CreateProject(h, P, u)
  \/ RollbackCreate(h)
  \/ \E u \in Users : Expel(h, u)
  \/ DeleteMember(h)
  \/ \E P \in Projects : Trigger(h, P)
  \/ CommitExpel(h)
  \/ \E u \in Users, r \in OrgAssignable : SetOrgRole(h, u, r)
  \/ WriteOrgRole(h)
  \/ Abort(h)

Next ==
  \/ \E h \in Handlers : Handler(h)
  \/ \E u \in Users, r \in OrgAssignable : JoinOrg(u, r)
  \/ \E u \in Users, grant \in [Projects -> Roles] : ApplyGrants(u, grant)
  \/ \E u, v \in Users : TransferOwnership(u, v)

Spec == Init /\ [][Next]_vars

-------------------------------------------------------------------------------
\* Every variable has its type.
TypeOK ==
  /\ orgRole \in [Users -> OrgRoles]
  /\ status \in [Projects -> {"unborn", "live", "removed"}]
  /\ role \in [Projects -> [Users -> Roles]]
  /\ lock \in [Projects -> Handlers \cup {Nobody}]
  /\ pc \in [Handlers -> Labels]
  /\ req \in [Handlers -> Requests]
  /\ cleared \in [Handlers -> SUBSET Projects]

\* However updates, removals, org departures and deletions of the project
\* interleave, a project that exists has a PM: the promise of requireAnotherPm
\* and of the trigger project_keeps_a_pm together.
ProjectKeepsAPm == \A P \in Projects : status[P] = "live" => Pms(P) # {}

\* Nobody has a role in a project without belonging to the org, whatever was
\* being added while the membership was deleted: leaving the org removes all
\* project access.
MembersBelongToOrg ==
  \A P \in Projects, u \in Users : role[P][u] # "none" => u \in Members

\* requireAnotherPm, asked under the lock, is the last word: the deferred
\* trigger never refuses at the commit a change that has passed it, so a last PM
\* is refused as LastProjectPmBlocked and never as a defect of the database.
LockedCheckDecides ==
  \A h \in Handlers :
    pc[h] = "checked" /\ req[h].op # "removeProject" =>
      PmRemains(req[h].project, req[h].user, req[h].to)
===============================================================================
