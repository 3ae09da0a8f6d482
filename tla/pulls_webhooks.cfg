SPECIFICATION Spec
CONSTANTS
  ba = ba
  bb = bb
  bc = bc
  main = main
  t1 = t1
  t2 = t2
  h1 = h1
  h2 = h2
  s1 = s1
  None = None
  Pulls = {1, 2}
  Branches = {ba, bb}
  Main = main
  Head <- MCHead
  Names <- MCNames
  Called <- MCCalled
  OpenAtStart <- MCLater
  Tickets = {t1, t2}
  Hooks = {h1, h2}
  Scans = {}
  MaxTime = 1
  MaxChanges = 3
  MaxSpare = 1
  MaxActs = 1
  MaxFailures = 0
CHECK_DEADLOCK FALSE
SYMMETRY HookSymmetry
INVARIANT TypeOK
PROPERTY LandsTruly
PROPERTY WebhooksGoForward
PROPERTY AutomaticLinksAreExclusive
