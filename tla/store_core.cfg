SPECIFICATION Spec
CONSTANTS
  MaxTicket = 2
  Requests = {r1, r2}
  Kinds = {"create", "edit", "unassign", "comment", "bulk", "remove"}
  Scans = {s1, s2}
  Behind = FALSE
  MaxCrashes = 0
  MaxRebuilds = 1
  MaxOutages = 1
  None = None
SYMMETRY Symmetry
CHECK_DEADLOCK FALSE
INVARIANT IndexMirrorsFiles
INVARIANT NoLostUpdate
PROPERTY NumbersAreNotReused
PROPERTY RowsGoForward
