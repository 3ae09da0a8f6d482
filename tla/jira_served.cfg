SPECIFICATION FairSpec
CONSTANTS
  p1 = p1
  p2 = p2
  Pages <- TwoPages
  Manifest = manifest
  Prepared = prepared
  Attachment = attachment
  Outcomes <- Broken
  Removals <- ByUser
  MaxAttempts = 1
  MaxCommands = 2
  MaxFailures = 2
  None = None
CHECK_DEADLOCK FALSE
INVARIANT WritersHoldTheRow
PROPERTY RunIsServed
