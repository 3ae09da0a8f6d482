SPECIFICATION FairSpec
CONSTANTS
  t1 = t1
  t2 = t2
  c1 = c1
  c2 = c2
  x = x
  y = y
  None = None
  Files = {1}
  Content <- Alike2
  Pictures = {}
  Tickets = {t1, t2}
  Callers = {c1}
  Repeats = FALSE
  MaxCalls = 2
  MaxWrites = 3
  MaxFailures = 1
CHECK_DEADLOCK FALSE
INVARIANT TypeOK
INVARIANT ReferencedIsLive
PROPERTY UnwantedGoes
