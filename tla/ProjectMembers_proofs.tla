------------------------ MODULE ProjectMembers_proofs ------------------------
(***************************************************************************)
(* Proofs about ProjectMembers, for any number of users, projects and      *)
(* concurrent requests.  The argument: while a handler holds a project, the *)
(* PMs of that project do not change except by that handler (Held), so what *)
(* requireAnotherPm or the trigger saw under the lock is still so when the *)
(* transaction commits.                                                    *)
(***************************************************************************)
EXTENDS ProjectMembers, TLAPS

\* A handler that is somewhere serves a request of the kind that gets there.
Serving ==
  \A h \in Handlers :
    /\ pc[h] \in {"locking", "locked", "checked"} =>
         /\ req[h].op \in {"add", "update", "drop", "removeProject"}
         /\ req[h].project \in Projects
         /\ req[h].op # "removeProject" => req[h].user \in Users /\ req[h].to \in Roles
    /\ pc[h] = "creating" => req[h].project \in Projects
    /\ pc[h] \in {"expelling", "deleted"} => req[h].user \in Users
    /\ pc[h] = "settingRole" => req[h].user \in Users /\ req[h].to \in OrgAssignable

\* Who holds a project, and why.
LockedBy(h, P) ==
  \/ pc[h] \in {"locked", "checked"} /\ req[h].project = P
  \/ P \in cleared[h]
LockHeld ==
  \A h \in Handlers, P \in Projects : LockedBy(h, P) <=> lock[P] = h

\* A project under lock exists, and so does one with members.
Exists ==
  /\ \A P \in Projects : lock[P] # Nobody => status[P] = "live"
  /\ \A P \in Projects, u \in Users : role[P][u] # "none" => status[P] = "live"

\* A project the trigger has passed has another PM than the one who leaves.
OtherPm(P, u) == \E v \in Users \ {u} : role[P][v] = "pm"
Cleared ==
  \A h \in Handlers, P \in Projects :
    P \in cleared[h] =>
      /\ pc[h] = "deleted"
      /\ role[P][req[h].user] = "pm"
      /\ OtherPm(P, req[h].user)

MembersInv ==
  /\ TypeOK
  /\ Serving
  /\ LockHeld
  /\ Exists
  /\ Cleared
  /\ LockedCheckDecides
  /\ MembersBelongToOrg
  /\ ProjectKeepsAPm

-------------------------------------------------------------------------------
(* What the sets of PMs say of the single roles.                             *)

LEMMA OtherPmRemains ==
  ASSUME NEW P \in Projects, NEW u \in Users, NEW r
  PROVE  PmRemains(P, u, r) <=> (role[P][u] = "pm" /\ r # "pm" => OtherPm(P, u))
BY DEF PmRemains, OtherPm, Pms

LEMMA AnotherPmRemains ==
  ASSUME NEW P \in Projects, NEW u \in Users, NEW r, AnotherPm(P, u)
  PROVE  PmRemains(P, u, r)
BY DEF PmRemains, AnotherPm

\* LockedCheckDecides and ProjectKeepsAPm in terms of single roles.
Decided ==
  \A h \in Handlers :
    pc[h] = "checked" /\ req[h].op # "removeProject" =>
      (role[req[h].project][req[h].user] = "pm" /\ req[h].to # "pm" =>
         OtherPm(req[h].project, req[h].user))
SomePm == \A P \in Projects : status[P] = "live" => \E u \in Users : role[P][u] = "pm"

LEMMA DecidedIsLockedCheckDecides == Serving => (Decided <=> LockedCheckDecides)
BY OtherPmRemains DEF Serving, Decided, LockedCheckDecides

LEMMA SomePmIsProjectKeepsAPm == SomePm <=> ProjectKeepsAPm
BY DEF SomePm, ProjectKeepsAPm, Pms

\* A request arrives: nothing but the pc and the request of h changes.
Begin(h) ==
  \E label \in {"locking", "expelling", "settingRole"}, r \in Requests :
    /\ Start(h, label, r)
    /\ label = "locking" =>
         /\ r.op \in {"add", "update", "drop", "removeProject"}
         /\ r.project \in Projects
         /\ r.op # "removeProject" => r.user \in Users /\ r.to \in Roles
    /\ label = "expelling" => r.user \in Users
    /\ label = "settingRole" => r.user \in Users /\ r.to \in OrgAssignable

-------------------------------------------------------------------------------
(* One lemma per action, with a step for each part of the invariant.         *)

LEMMA BeginKeeps ==
  ASSUME MembersInv, NEW h \in Handlers, Begin(h)
  PROVE  MembersInv'
<1>0. Decided /\ SomePm
  BY DecidedIsLockedCheckDecides, SomePmIsProjectKeepsAPm DEF MembersInv
<1>1. TypeOK'
  BY DEF MembersInv, TypeOK, Serving, Labels, Ops, Requests, Roles, OrgRoles, OrgAssignable, Begin, Start
<1>2. Serving'
  BY DEF MembersInv, Serving, TypeOK, Begin, Start
<1>3. LockHeld'
  BY MembersAssumption DEF MembersInv, LockHeld, TypeOK, LockedBy, Serving, Cleared, Begin, Start
<1>4. Exists'
  BY MembersAssumption DEF MembersInv, Exists, TypeOK, Serving, LockHeld, LockedBy, Begin, Start
<1>5. Cleared'
  BY MembersAssumption DEF MembersInv, Cleared, OtherPm, TypeOK, Serving, LockHeld, LockedBy, Begin, Start
<1>6. Decided'
  BY <1>0, MembersAssumption DEF MembersInv, Decided, TypeOK, Serving, LockHeld, LockedBy, OtherPm, Cleared, Begin, Start
<1>7. MembersBelongToOrg'
  BY DEF MembersInv, MembersBelongToOrg, TypeOK, Members, Serving, Begin, Start
<1>8. SomePm'
  BY <1>0 DEF MembersInv, SomePm, TypeOK, Serving, Cleared, OtherPm, Decided, Begin, Start
<1>9. QED
  BY <1>1, <1>2, <1>3, <1>4, <1>5, <1>6, <1>7, <1>8, DecidedIsLockedCheckDecides, SomePmIsProjectKeepsAPm, PTL DEF MembersInv

LEMMA LockProjectKeeps ==
  ASSUME MembersInv, NEW h \in Handlers, LockProject(h)
  PROVE  MembersInv'
<1>0. Decided /\ SomePm
  BY DecidedIsLockedCheckDecides, SomePmIsProjectKeepsAPm DEF MembersInv
<1>1. TypeOK'
  BY DEF MembersInv, TypeOK, Serving, Labels, Ops, Requests, Roles, OrgRoles, OrgAssignable, LockProject, Goto
<1>2. Serving'
  BY DEF MembersInv, Serving, TypeOK, LockProject, Goto
<1>3. LockHeld'
  BY MembersAssumption DEF MembersInv, LockHeld, TypeOK, LockedBy, Serving, Cleared, LockProject, Goto
<1>4. Exists'
  BY MembersAssumption DEF MembersInv, Exists, TypeOK, Serving, LockHeld, LockedBy, LockProject, Goto
<1>5. Cleared'
  BY MembersAssumption DEF MembersInv, Cleared, OtherPm, TypeOK, Serving, LockHeld, LockedBy, LockProject, Goto
<1>6. Decided'
  BY <1>0, MembersAssumption DEF MembersInv, Decided, TypeOK, Serving, LockHeld, LockedBy, OtherPm, Cleared, LockProject, Goto
<1>7. MembersBelongToOrg'
  BY DEF MembersInv, MembersBelongToOrg, TypeOK, Members, Serving, LockProject, Goto
<1>8. SomePm'
  BY <1>0 DEF MembersInv, SomePm, TypeOK, Serving, Cleared, OtherPm, Decided, LockProject, Goto
<1>9. QED
  BY <1>1, <1>2, <1>3, <1>4, <1>5, <1>6, <1>7, <1>8, DecidedIsLockedCheckDecides, SomePmIsProjectKeepsAPm, PTL DEF MembersInv

LEMMA CheckRoleKeeps ==
  ASSUME MembersInv, NEW h \in Handlers, CheckRole(h)
  PROVE  MembersInv'
<1>0. Decided /\ SomePm
  BY DecidedIsLockedCheckDecides, SomePmIsProjectKeepsAPm DEF MembersInv
<1>1. TypeOK'
  BY DEF MembersInv, TypeOK, Serving, Labels, Ops, Requests, Roles, OrgRoles, OrgAssignable, CheckRole, Goto
<1>2. Serving'
  BY DEF MembersInv, Serving, TypeOK, CheckRole, Goto
<1>3. LockHeld'
  BY MembersAssumption DEF MembersInv, LockHeld, TypeOK, LockedBy, Serving, Cleared, CheckRole, Goto
<1>4. Exists'
  BY MembersAssumption DEF MembersInv, Exists, TypeOK, Serving, LockHeld, LockedBy, CheckRole, Goto
<1>5. Cleared'
  BY MembersAssumption DEF MembersInv, Cleared, OtherPm, TypeOK, Serving, LockHeld, LockedBy, CheckRole, Goto
<1>6. Decided'
  BY <1>0, MembersAssumption DEF MembersInv, Decided, TypeOK, Serving, LockHeld, LockedBy, OtherPm, Cleared, CheckRole, Goto, AnotherPm, Pms
<1>7. MembersBelongToOrg'
  BY DEF MembersInv, MembersBelongToOrg, TypeOK, Members, Serving, CheckRole, Goto
<1>8. SomePm'
  BY <1>0 DEF MembersInv, SomePm, TypeOK, Serving, Cleared, OtherPm, Decided, CheckRole, Goto
<1>9. QED
  BY <1>1, <1>2, <1>3, <1>4, <1>5, <1>6, <1>7, <1>8, DecidedIsLockedCheckDecides, SomePmIsProjectKeepsAPm, PTL DEF MembersInv

LEMMA WriteRoleKeeps ==
  ASSUME MembersInv, NEW h \in Handlers, WriteRole(h)
  PROVE  MembersInv'
<1>0. Decided /\ SomePm
  BY DecidedIsLockedCheckDecides, SomePmIsProjectKeepsAPm DEF MembersInv
<1>1. TypeOK'
  BY DEF MembersInv, TypeOK, Serving, Labels, Ops, Requests, Roles, OrgRoles, OrgAssignable, WriteRole, End, NoRequest, Request
<1>2. Serving'
  BY DEF MembersInv, Serving, TypeOK, WriteRole, End, NoRequest, Request
<1>3. LockHeld'
  BY MembersAssumption DEF MembersInv, LockHeld, TypeOK, LockedBy, Serving, Cleared, WriteRole, End, NoRequest, Request
<1>4. Exists'
  BY MembersAssumption DEF MembersInv, Exists, TypeOK, Serving, LockHeld, LockedBy, WriteRole, End, NoRequest, Request
<1>5. Cleared'
  BY MembersAssumption DEF MembersInv, Cleared, OtherPm, TypeOK, Serving, LockHeld, LockedBy, WriteRole, End, NoRequest, Request
<1>6. Decided'
  BY <1>0, MembersAssumption DEF MembersInv, Decided, TypeOK, Serving, LockHeld, LockedBy, OtherPm, Cleared, WriteRole, End, NoRequest, Request
<1>7. MembersBelongToOrg'
  BY DEF MembersInv, MembersBelongToOrg, TypeOK, Members, Serving, WriteRole, End, NoRequest, Request, InOrg, Requests
<1>8. SomePm'
  BY <1>0 DEF MembersInv, SomePm, TypeOK, Serving, Cleared, OtherPm, Decided, WriteRole, End, NoRequest, Request, PmRemains, Pms
<1>9. QED
  BY <1>1, <1>2, <1>3, <1>4, <1>5, <1>6, <1>7, <1>8, DecidedIsLockedCheckDecides, SomePmIsProjectKeepsAPm, PTL DEF MembersInv

LEMMA DeleteProjectKeeps ==
  ASSUME MembersInv, NEW h \in Handlers, DeleteProject(h)
  PROVE  MembersInv'
<1>0. Decided /\ SomePm
  BY DecidedIsLockedCheckDecides, SomePmIsProjectKeepsAPm DEF MembersInv
<1>1. TypeOK'
  BY DEF MembersInv, TypeOK, Serving, Labels, Ops, Requests, Roles, OrgRoles, OrgAssignable, DeleteProject, Delete, End, NoRequest, Request
<1>2. Serving'
  BY DEF MembersInv, Serving, TypeOK, DeleteProject, Delete, End, NoRequest, Request
<1>3. LockHeld'
  BY MembersAssumption DEF MembersInv, LockHeld, TypeOK, LockedBy, Serving, Cleared, DeleteProject, Delete, End, NoRequest, Request
<1>4. Exists'
  BY MembersAssumption DEF MembersInv, Exists, TypeOK, Serving, LockHeld, LockedBy, DeleteProject, Delete, End, NoRequest, Request
<1>5. Cleared'
  BY MembersAssumption DEF MembersInv, Cleared, OtherPm, TypeOK, Serving, LockHeld, LockedBy, DeleteProject, Delete, End, NoRequest, Request
<1>6. Decided'
  BY <1>0, MembersAssumption DEF MembersInv, Decided, TypeOK, Serving, LockHeld, LockedBy, OtherPm, Cleared, DeleteProject, Delete, End, NoRequest, Request
<1>7. MembersBelongToOrg'
  BY DEF MembersInv, MembersBelongToOrg, TypeOK, Members, Serving, DeleteProject, Delete, End, NoRequest, Request
<1>8. SomePm'
  BY <1>0 DEF MembersInv, SomePm, TypeOK, Serving, Cleared, OtherPm, Decided, DeleteProject, Delete, End, NoRequest, Request
<1>9. QED
  BY <1>1, <1>2, <1>3, <1>4, <1>5, <1>6, <1>7, <1>8, DecidedIsLockedCheckDecides, SomePmIsProjectKeepsAPm, PTL DEF MembersInv

LEMMA CreateProjectKeeps ==
  ASSUME MembersInv, NEW h \in Handlers, NEW P \in Projects, NEW u \in Users, CreateProject(h, P, u)
  PROVE  MembersInv'
<1>0. Decided /\ SomePm
  BY DecidedIsLockedCheckDecides, SomePmIsProjectKeepsAPm DEF MembersInv
<1>1. TypeOK'
  BY DEF MembersInv, TypeOK, Serving, Labels, Ops, Requests, Roles, OrgRoles, OrgAssignable, CreateProject, Request
<1>2. Serving'
  BY DEF MembersInv, Serving, TypeOK, CreateProject, Request
<1>3. LockHeld'
  BY MembersAssumption DEF MembersInv, LockHeld, TypeOK, LockedBy, Serving, Cleared, CreateProject, Request
<1>4. Exists'
  BY MembersAssumption DEF MembersInv, Exists, TypeOK, Serving, LockHeld, LockedBy, CreateProject, Request
<1>5. Cleared'
  BY MembersAssumption DEF MembersInv, Cleared, OtherPm, TypeOK, Serving, LockHeld, LockedBy, CreateProject, Request
<1>6. Decided'
  BY <1>0, MembersAssumption DEF MembersInv, Decided, TypeOK, Serving, LockHeld, LockedBy, OtherPm, Cleared, CreateProject, Request, Exists
<1>7. MembersBelongToOrg'
  BY DEF MembersInv, MembersBelongToOrg, TypeOK, Members, Serving, CreateProject, Request, InOrg, OrgRoles
<1>8. SomePm'
  BY <1>0 DEF MembersInv, SomePm, TypeOK, Serving, Cleared, OtherPm, Decided, CreateProject, Request
<1>9. QED
  BY <1>1, <1>2, <1>3, <1>4, <1>5, <1>6, <1>7, <1>8, DecidedIsLockedCheckDecides, SomePmIsProjectKeepsAPm, PTL DEF MembersInv

LEMMA RollbackCreateKeeps ==
  ASSUME MembersInv, NEW h \in Handlers, RollbackCreate(h)
  PROVE  MembersInv'
<1>0. Decided /\ SomePm
  BY DecidedIsLockedCheckDecides, SomePmIsProjectKeepsAPm DEF MembersInv
<1>1. TypeOK'
  BY DEF MembersInv, TypeOK, Serving, Labels, Ops, Requests, Roles, OrgRoles, OrgAssignable, RollbackCreate, Delete, End, NoRequest, Request
<1>2. Serving'
  BY DEF MembersInv, Serving, TypeOK, RollbackCreate, Delete, End, NoRequest, Request
<1>3. LockHeld'
  BY MembersAssumption DEF MembersInv, LockHeld, TypeOK, LockedBy, Serving, Cleared, RollbackCreate, Delete, End, NoRequest, Request
<1>4. Exists'
  BY MembersAssumption DEF MembersInv, Exists, TypeOK, Serving, LockHeld, LockedBy, RollbackCreate, Delete, End, NoRequest, Request
<1>5. Cleared'
  BY MembersAssumption DEF MembersInv, Cleared, OtherPm, TypeOK, Serving, LockHeld, LockedBy, RollbackCreate, Delete, End, NoRequest, Request
<1>6. Decided'
  BY <1>0, MembersAssumption DEF MembersInv, Decided, TypeOK, Serving, LockHeld, LockedBy, OtherPm, Cleared, RollbackCreate, Delete, End, NoRequest, Request
<1>7. MembersBelongToOrg'
  BY DEF MembersInv, MembersBelongToOrg, TypeOK, Members, Serving, RollbackCreate, Delete, End, NoRequest, Request
<1>8. SomePm'
  BY <1>0 DEF MembersInv, SomePm, TypeOK, Serving, Cleared, OtherPm, Decided, RollbackCreate, Delete, End, NoRequest, Request
<1>9. QED
  BY <1>1, <1>2, <1>3, <1>4, <1>5, <1>6, <1>7, <1>8, DecidedIsLockedCheckDecides, SomePmIsProjectKeepsAPm, PTL DEF MembersInv

LEMMA DeleteMemberKeeps ==
  ASSUME MembersInv, NEW h \in Handlers, DeleteMember(h)
  PROVE  MembersInv'
<1>0. Decided /\ SomePm
  BY DecidedIsLockedCheckDecides, SomePmIsProjectKeepsAPm DEF MembersInv
<1>1. TypeOK'
  BY DEF MembersInv, TypeOK, Serving, Labels, Ops, Requests, Roles, OrgRoles, OrgAssignable, DeleteMember, Goto
<1>2. Serving'
  BY DEF MembersInv, Serving, TypeOK, DeleteMember, Goto
<1>3. LockHeld'
  BY MembersAssumption DEF MembersInv, LockHeld, TypeOK, LockedBy, Serving, Cleared, DeleteMember, Goto
<1>4. Exists'
  BY MembersAssumption DEF MembersInv, Exists, TypeOK, Serving, LockHeld, LockedBy, DeleteMember, Goto
<1>5. Cleared'
  BY MembersAssumption DEF MembersInv, Cleared, OtherPm, TypeOK, Serving, LockHeld, LockedBy, DeleteMember, Goto
<1>6. Decided'
  BY <1>0, MembersAssumption DEF MembersInv, Decided, TypeOK, Serving, LockHeld, LockedBy, OtherPm, Cleared, DeleteMember, Goto
<1>7. MembersBelongToOrg'
  BY DEF MembersInv, MembersBelongToOrg, TypeOK, Members, Serving, DeleteMember, Goto
<1>8. SomePm'
  BY <1>0 DEF MembersInv, SomePm, TypeOK, Serving, Cleared, OtherPm, Decided, DeleteMember, Goto
<1>9. QED
  BY <1>1, <1>2, <1>3, <1>4, <1>5, <1>6, <1>7, <1>8, DecidedIsLockedCheckDecides, SomePmIsProjectKeepsAPm, PTL DEF MembersInv

LEMMA TriggerKeeps ==
  ASSUME MembersInv, NEW h \in Handlers, NEW P \in Projects, Trigger(h, P)
  PROVE  MembersInv'
<1>0. Decided /\ SomePm
  BY DecidedIsLockedCheckDecides, SomePmIsProjectKeepsAPm DEF MembersInv
<1>1. TypeOK'
  BY DEF MembersInv, TypeOK, Serving, Labels, Ops, Requests, Roles, OrgRoles, OrgAssignable, Trigger, Clear
<1>2. Serving'
  BY DEF MembersInv, Serving, TypeOK, Trigger, Clear
<1>3. LockHeld'
  BY MembersAssumption DEF MembersInv, LockHeld, TypeOK, LockedBy, Serving, Cleared, Trigger, Clear
<1>4. Exists'
  BY MembersAssumption DEF MembersInv, Exists, TypeOK, Serving, LockHeld, LockedBy, Trigger, Clear
<1>5. Cleared'
  BY MembersAssumption DEF MembersInv, Cleared, OtherPm, TypeOK, Serving, LockHeld, LockedBy, Trigger, Clear, PmRemains, Pms
<1>6. Decided'
  BY <1>0, MembersAssumption DEF MembersInv, Decided, TypeOK, Serving, LockHeld, LockedBy, OtherPm, Cleared, Trigger, Clear
<1>7. MembersBelongToOrg'
  BY DEF MembersInv, MembersBelongToOrg, TypeOK, Members, Serving, Trigger, Clear
<1>8. SomePm'
  BY <1>0 DEF MembersInv, SomePm, TypeOK, Serving, Cleared, OtherPm, Decided, Trigger, Clear
<1>9. QED
  BY <1>1, <1>2, <1>3, <1>4, <1>5, <1>6, <1>7, <1>8, DecidedIsLockedCheckDecides, SomePmIsProjectKeepsAPm, PTL DEF MembersInv

LEMMA CommitExpelKeeps ==
  ASSUME MembersInv, NEW h \in Handlers, CommitExpel(h)
  PROVE  MembersInv'
<1>0. Decided /\ SomePm
  BY DecidedIsLockedCheckDecides, SomePmIsProjectKeepsAPm DEF MembersInv
<1>1. TypeOK'
  BY DEF MembersInv, TypeOK, Serving, Labels, Ops, Requests, Roles, OrgRoles, OrgAssignable, CommitExpel, End, NoRequest, Request
<1>2. Serving'
  BY DEF MembersInv, Serving, TypeOK, CommitExpel, End, NoRequest, Request
<1>3. LockHeld'
  BY MembersAssumption DEF MembersInv, LockHeld, TypeOK, LockedBy, Serving, Cleared, CommitExpel, End, NoRequest, Request
<1>4. Exists'
  BY MembersAssumption DEF MembersInv, Exists, TypeOK, Serving, LockHeld, LockedBy, CommitExpel, End, NoRequest, Request
<1>5. Cleared'
  BY MembersAssumption DEF MembersInv, Cleared, OtherPm, TypeOK, Serving, LockHeld, LockedBy, CommitExpel, End, NoRequest, Request
<1>6. Decided'
  <2> SUFFICES ASSUME NEW g \in Handlers, pc'[g] = "checked", req'[g].op # "removeProject",
                      role'[req'[g].project][req'[g].user] = "pm", req'[g].to # "pm"
               PROVE  OtherPm(req[g].project, req[g].user)'
    BY DEF Decided
  <2> DEFINE P == req[g].project
             u == req[g].user
  <2>1. g # h /\ pc[g] = "checked" /\ req'[g] = req[g] /\ P \in Projects /\ u \in Users
    BY DEF MembersInv, TypeOK, Serving, CommitExpel, End
  <2>2. lock[P] = g /\ lock[P] # h
    BY <2>1 DEF MembersInv, LockHeld, LockedBy
  <2>3. role[P][req[h].user] # "pm"
    BY <2>1, <2>2 DEF MembersInv, LockHeld, LockedBy, CommitExpel
  <2>4. \A v \in Users : role'[P][v] = "pm" <=> role[P][v] = "pm"
    BY <2>1, <2>3 DEF MembersInv, TypeOK, Serving, CommitExpel
  <2>5. OtherPm(P, u)
    BY <1>0, <2>1, <2>4 DEF Decided
  <2>6. QED
    BY <2>1, <2>4, <2>5 DEF OtherPm
<1>7. MembersBelongToOrg'
  BY DEF MembersInv, MembersBelongToOrg, TypeOK, Members, Serving, CommitExpel, End, NoRequest, Request
<1>8. SomePm'
  BY <1>0 DEF MembersInv, SomePm, TypeOK, Serving, Cleared, OtherPm, Decided, CommitExpel, End, NoRequest, Request
<1>9. QED
  BY <1>1, <1>2, <1>3, <1>4, <1>5, <1>6, <1>7, <1>8, DecidedIsLockedCheckDecides, SomePmIsProjectKeepsAPm, PTL DEF MembersInv

LEMMA WriteOrgRoleKeeps ==
  ASSUME MembersInv, NEW h \in Handlers, WriteOrgRole(h)
  PROVE  MembersInv'
<1>0. Decided /\ SomePm
  BY DecidedIsLockedCheckDecides, SomePmIsProjectKeepsAPm DEF MembersInv
<1>1. TypeOK'
  BY DEF MembersInv, TypeOK, Serving, Labels, Ops, Requests, Roles, OrgRoles, OrgAssignable, WriteOrgRole, End, NoRequest, Request
<1>2. Serving'
  BY DEF MembersInv, Serving, TypeOK, WriteOrgRole, End, NoRequest, Request
<1>3. LockHeld'
  BY MembersAssumption DEF MembersInv, LockHeld, TypeOK, LockedBy, Serving, Cleared, WriteOrgRole, End, NoRequest, Request
<1>4. Exists'
  BY MembersAssumption DEF MembersInv, Exists, TypeOK, Serving, LockHeld, LockedBy, WriteOrgRole, End, NoRequest, Request
<1>5. Cleared'
  BY MembersAssumption DEF MembersInv, Cleared, OtherPm, TypeOK, Serving, LockHeld, LockedBy, WriteOrgRole, End, NoRequest, Request
<1>6. Decided'
  BY <1>0, MembersAssumption DEF MembersInv, Decided, TypeOK, Serving, LockHeld, LockedBy, OtherPm, Cleared, WriteOrgRole, End, NoRequest, Request
<1>7. MembersBelongToOrg'
  BY DEF MembersInv, MembersBelongToOrg, TypeOK, Members, Serving, WriteOrgRole, End, NoRequest, Request, OrgAssignable
<1>8. SomePm'
  BY <1>0 DEF MembersInv, SomePm, TypeOK, Serving, Cleared, OtherPm, Decided, WriteOrgRole, End, NoRequest, Request
<1>9. QED
  BY <1>1, <1>2, <1>3, <1>4, <1>5, <1>6, <1>7, <1>8, DecidedIsLockedCheckDecides, SomePmIsProjectKeepsAPm, PTL DEF MembersInv

LEMMA AbortKeeps ==
  ASSUME MembersInv, NEW h \in Handlers, Abort(h)
  PROVE  MembersInv'
<1>0. Decided /\ SomePm
  BY DecidedIsLockedCheckDecides, SomePmIsProjectKeepsAPm DEF MembersInv
<1>1. TypeOK'
  BY DEF MembersInv, TypeOK, Serving, Labels, Ops, Requests, Roles, OrgRoles, OrgAssignable, Abort, End, NoRequest, Request
<1>2. Serving'
  BY DEF MembersInv, Serving, TypeOK, Abort, End, NoRequest, Request
<1>3. LockHeld'
  BY MembersAssumption DEF MembersInv, LockHeld, TypeOK, LockedBy, Serving, Cleared, Abort, End, NoRequest, Request
<1>4. Exists'
  BY MembersAssumption DEF MembersInv, Exists, TypeOK, Serving, LockHeld, LockedBy, Abort, End, NoRequest, Request
<1>5. Cleared'
  BY MembersAssumption DEF MembersInv, Cleared, OtherPm, TypeOK, Serving, LockHeld, LockedBy, Abort, End, NoRequest, Request
<1>6. Decided'
  BY <1>0, MembersAssumption DEF MembersInv, Decided, TypeOK, Serving, LockHeld, LockedBy, OtherPm, Cleared, Abort, End, NoRequest, Request
<1>7. MembersBelongToOrg'
  BY DEF MembersInv, MembersBelongToOrg, TypeOK, Members, Serving, Abort, End, NoRequest, Request
<1>8. SomePm'
  BY <1>0 DEF MembersInv, SomePm, TypeOK, Serving, Cleared, OtherPm, Decided, Abort, End, NoRequest, Request
<1>9. QED
  BY <1>1, <1>2, <1>3, <1>4, <1>5, <1>6, <1>7, <1>8, DecidedIsLockedCheckDecides, SomePmIsProjectKeepsAPm, PTL DEF MembersInv

LEMMA JoinOrgKeeps ==
  ASSUME MembersInv, NEW u \in Users, NEW r \in OrgAssignable, JoinOrg(u, r)
  PROVE  MembersInv'
<1>0. Decided /\ SomePm
  BY DecidedIsLockedCheckDecides, SomePmIsProjectKeepsAPm DEF MembersInv
<1>1. TypeOK'
  BY DEF MembersInv, TypeOK, Serving, Labels, Ops, Requests, Roles, OrgRoles, OrgAssignable, JoinOrg
<1>2. Serving'
  BY DEF MembersInv, Serving, TypeOK, JoinOrg
<1>3. LockHeld'
  BY MembersAssumption DEF MembersInv, LockHeld, TypeOK, LockedBy, Serving, Cleared, JoinOrg
<1>4. Exists'
  BY MembersAssumption DEF MembersInv, Exists, TypeOK, Serving, LockHeld, LockedBy, JoinOrg
<1>5. Cleared'
  BY MembersAssumption DEF MembersInv, Cleared, OtherPm, TypeOK, Serving, LockHeld, LockedBy, JoinOrg
<1>6. Decided'
  BY <1>0, MembersAssumption DEF MembersInv, Decided, TypeOK, Serving, LockHeld, LockedBy, OtherPm, Cleared, JoinOrg
<1>7. MembersBelongToOrg'
  BY DEF MembersInv, MembersBelongToOrg, TypeOK, Members, Serving, JoinOrg
<1>8. SomePm'
  BY <1>0 DEF MembersInv, SomePm, TypeOK, Serving, Cleared, OtherPm, Decided, JoinOrg
<1>9. QED
  BY <1>1, <1>2, <1>3, <1>4, <1>5, <1>6, <1>7, <1>8, DecidedIsLockedCheckDecides, SomePmIsProjectKeepsAPm, PTL DEF MembersInv

LEMMA ApplyGrantsKeeps ==
  ASSUME MembersInv, NEW u \in Users, NEW grant \in [Projects -> Roles], ApplyGrants(u, grant)
  PROVE  MembersInv'
<1>0. Decided /\ SomePm
  BY DecidedIsLockedCheckDecides, SomePmIsProjectKeepsAPm DEF MembersInv
<1>1. TypeOK'
  BY DEF MembersInv, TypeOK, Serving, Labels, Ops, Requests, Roles, OrgRoles, OrgAssignable, ApplyGrants
<1>2. Serving'
  BY DEF MembersInv, Serving, TypeOK, ApplyGrants
<1>3. LockHeld'
  BY MembersAssumption DEF MembersInv, LockHeld, TypeOK, LockedBy, Serving, Cleared, ApplyGrants
<1>4. Exists'
  BY MembersAssumption DEF MembersInv, Exists, TypeOK, Serving, LockHeld, LockedBy, ApplyGrants
<1>5. Cleared'
  BY MembersAssumption DEF MembersInv, Cleared, OtherPm, TypeOK, Serving, LockHeld, LockedBy, ApplyGrants
<1>6. Decided'
  BY <1>0, MembersAssumption DEF MembersInv, Decided, TypeOK, Serving, LockHeld, LockedBy, OtherPm, Cleared, ApplyGrants
<1>7. MembersBelongToOrg'
  BY DEF MembersInv, MembersBelongToOrg, TypeOK, Members, Serving, ApplyGrants, InOrg
<1>8. SomePm'
  BY <1>0 DEF MembersInv, SomePm, TypeOK, Serving, Cleared, OtherPm, Decided, ApplyGrants
<1>9. QED
  BY <1>1, <1>2, <1>3, <1>4, <1>5, <1>6, <1>7, <1>8, DecidedIsLockedCheckDecides, SomePmIsProjectKeepsAPm, PTL DEF MembersInv

LEMMA TransferOwnershipKeeps ==
  ASSUME MembersInv, NEW u \in Users, NEW v \in Users, TransferOwnership(u, v)
  PROVE  MembersInv'
<1>0. Decided /\ SomePm
  BY DecidedIsLockedCheckDecides, SomePmIsProjectKeepsAPm DEF MembersInv
<1>1. TypeOK'
  BY DEF MembersInv, TypeOK, Serving, Labels, Ops, Requests, Roles, OrgRoles, OrgAssignable, TransferOwnership
<1>2. Serving'
  BY DEF MembersInv, Serving, TypeOK, TransferOwnership
<1>3. LockHeld'
  BY MembersAssumption DEF MembersInv, LockHeld, TypeOK, LockedBy, Serving, Cleared, TransferOwnership
<1>4. Exists'
  BY MembersAssumption DEF MembersInv, Exists, TypeOK, Serving, LockHeld, LockedBy, TransferOwnership
<1>5. Cleared'
  BY MembersAssumption DEF MembersInv, Cleared, OtherPm, TypeOK, Serving, LockHeld, LockedBy, TransferOwnership
<1>6. Decided'
  BY <1>0, MembersAssumption DEF MembersInv, Decided, TypeOK, Serving, LockHeld, LockedBy, OtherPm, Cleared, TransferOwnership
<1>7. MembersBelongToOrg'
  BY DEF MembersInv, MembersBelongToOrg, TypeOK, Members, Serving, TransferOwnership
<1>8. SomePm'
  BY <1>0 DEF MembersInv, SomePm, TypeOK, Serving, Cleared, OtherPm, Decided, TransferOwnership
<1>9. QED
  BY <1>1, <1>2, <1>3, <1>4, <1>5, <1>6, <1>7, <1>8, DecidedIsLockedCheckDecides, SomePmIsProjectKeepsAPm, PTL DEF MembersInv

-------------------------------------------------------------------------------
(* The invariant and what follows from it.                                   *)

LEMMA InitMembersInv == Init => MembersInv
<1> SUFFICES ASSUME Init
             PROVE  MembersInv
  OBVIOUS
<1>1. TypeOK /\ Serving /\ LockHeld
  BY MembersAssumption
  DEF Init, TypeOK, Serving, LockHeld, LockedBy, Labels, NoRequest, Request, Requests, Ops, Roles
<1>2. Exists /\ Cleared /\ LockedCheckDecides
  BY MembersAssumption DEF Init, Exists, Cleared, LockedCheckDecides
<1>3. MembersBelongToOrg /\ ProjectKeepsAPm
  BY DEF Init, MembersBelongToOrg, ProjectKeepsAPm
<1>4. QED
  BY <1>1, <1>2, <1>3 DEF MembersInv

LEMMA HandlerKeeps ==
  ASSUME MembersInv, NEW h \in Handlers, Handler(h)
  PROVE  MembersInv'
<1>1. ASSUME NEW P \in Projects, NEW u \in Users, NEW r \in Assignable,
             AddMember(h, P, u, r) \/ UpdateMember(h, P, u, r)
      PROVE  Begin(h)
  BY <1>1 DEF AddMember, UpdateMember, Begin, Start, Request, Requests, Ops, Roles, Assignable
<1>2. ASSUME NEW P \in Projects, NEW u \in Users, DropMember(h, P, u)
      PROVE  Begin(h)
  BY <1>2 DEF DropMember, Begin, Start, Request, Requests, Ops, Roles
<1>3. ASSUME NEW P \in Projects, RemoveProject(h, P)
      PROVE  Begin(h)
  BY <1>3 DEF RemoveProject, Begin, Start, Request, Requests, Ops, Roles
<1>4. ASSUME NEW u \in Users, Expel(h, u)
      PROVE  Begin(h)
  BY <1>4 DEF Expel, Begin, Start, Request, Requests, Ops, Roles
<1>5. ASSUME NEW u \in Users, NEW r \in OrgAssignable, SetOrgRole(h, u, r)
      PROVE  Begin(h)
  <2>1. r \in Roles \cup OrgRoles
    BY DEF OrgAssignable, OrgRoles
  <2>2. Request("setOrgRole", Nowhere, u, r) \in Requests
    BY <2>1 DEF Request, Requests, Ops
  <2>3. QED
    BY <1>5, <2>2 DEF SetOrgRole, Begin, Start, Request
<1>6. QED
  BY <1>1, <1>2, <1>3, <1>4, <1>5, BeginKeeps, LockProjectKeeps, CheckRoleKeeps,
     WriteRoleKeeps, DeleteProjectKeeps, DeleteMemberKeeps, TriggerKeeps,
     CreateProjectKeeps, RollbackCreateKeeps, CommitExpelKeeps, WriteOrgRoleKeeps, AbortKeeps
  DEF Handler

LEMMA NextMembersInv == MembersInv /\ [Next]_vars => MembersInv'
<1> SUFFICES ASSUME MembersInv, [Next]_vars
             PROVE  MembersInv'
  OBVIOUS
<1>1. CASE UNCHANGED vars
  BY <1>1
  DEF vars, MembersInv, TypeOK, Serving, LockHeld, LockedBy, Exists, Cleared, OtherPm, Pms,
      LockedCheckDecides, PmRemains, MembersBelongToOrg, Members, ProjectKeepsAPm
<1>2. QED
  BY <1>1, HandlerKeeps, JoinOrgKeeps, ApplyGrantsKeeps,
     TransferOwnershipKeeps
  DEF Next

LEMMA AlwaysMembersInv == Spec => []MembersInv
BY InitMembersInv, NextMembersInv, PTL DEF Spec

\* Every variable has its type, for any users, projects and requests.
THEOREM MembersTypeCorrect == Spec => []TypeOK
BY AlwaysMembersInv, PTL DEF MembersInv

\* A project that exists has a PM, however changes of its members, departures
\* from the org and its deletion interleave: what requireAnotherPm and the
\* trigger project_keeps_a_pm are for.
THEOREM AlwaysAPm == Spec => []ProjectKeepsAPm
BY AlwaysMembersInv, PTL DEF MembersInv

\* Whoever has a project role belongs to the org: a grant or an addition that
\* races a departure leaves nothing behind.
THEOREM ProjectRolesEndWithOrgRole == Spec => []MembersBelongToOrg
BY AlwaysMembersInv, PTL DEF MembersInv

\* A change that has passed requireAnotherPm under the lock is never refused by
\* the trigger at its commit.
THEOREM LockedCheckIsFinal == Spec => []LockedCheckDecides
BY AlwaysMembersInv, PTL DEF MembersInv
===============================================================================
