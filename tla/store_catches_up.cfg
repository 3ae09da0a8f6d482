SPECIFICATION FairSpec
CONSTANTS
  MaxTicket = 2
  Requests = {r1, r2}
  Kinds = {"create", "edit"}
  Scans = {s1}
  Behind = TRUE
  MaxCrashes = 1
  MaxRebuilds = 0
  MaxOutages = 2
  None = None
CHECK_DEADLOCK FALSE
PROPERTY EveryRequestEnds
PROPERTY IndexCatchesUp
