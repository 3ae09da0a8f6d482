SPECIFICATION Spec
CONSTANTS
  t1 = t1
  t2 = t2
  c1 = c1
  c2 = c2
  x = x
  y = y
  None = None
  Files = {1, 2}
  Content <- Alike2
  Pictures = {2}
  Tickets = {}
  Callers = {c1, c2}
  Repeats = FALSE
  MaxCalls = 4
  MaxWrites = 0
  MaxFailures = 1
SYMMETRY Symmetry
CHECK_DEADLOCK FALSE
INVARIANT CommittedHasObject
