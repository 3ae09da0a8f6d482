SPECIFICATION FairSpec
CONSTANTS
  ba = ba
  bb = bb
  bc = bc
  main = main
  t1 = t1
  t2 = t2
  h1 = h1
  h2 = h2
  s1 = s1
  None = None
  Pulls = {1, 2}
  Branches = {ba, bb}
  Main = main
  Head <- MCHead
  Names <- MCOneName
  Called <- MCCalled
  OpenAtStart <- MCStack
  Tickets = {t1}
  Hooks = {h1}
  Scans = {s1}
  MaxTime = 1
  MaxChanges = 2
  MaxSpare = 0
  MaxActs = 0
  MaxFailures = 1
CHECK_DEADLOCK FALSE
PROPERTY MergedStays
PROPERTY RefreshNeverGoesBack
PROPERTY TicketsCatchUp
