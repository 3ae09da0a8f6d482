SPECIFICATION Spec
CONSTANTS
  Users = {u1, u2}
  Projects = {p1, p2}
  Handlers = {h1, h2}
  Nobody = Nobody
  Nowhere = Nowhere
SYMMETRY Symmetry
INVARIANT ProjectKeepsAPm
INVARIANT MembersBelongToOrg
INVARIANT LockedCheckDecides
