SPECIFICATION Spec
CONSTANTS
  a = a
  b = b
  r1 = r1
  r2 = r2
  None = None
  Tickets = {1, 2, 3}
  Groups = {a, b}
  Sprints = {a, b}
  Requests = {r1, r2}
  Ops <- AllOps
  Initially <- Apart
  First = {1, 2}
  Lists = {{}, {1}, {1, 2}, {1, 3}}
  MaxFailures = 1
SYMMETRY Symmetry
CHECK_DEADLOCK FALSE
INVARIANT TypeOK
INVARIANT AtMostOneSprint
INVARIANT ListedTicketsExist
INVARIANT NoCircularWait
INVARIANT FailedLeavesNothing
