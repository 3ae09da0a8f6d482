SPECIFICATION Spec
CONSTANTS
  p1 = p1
  p2 = p2
  Pages <- OnePage
  Manifest = manifest
  Prepared = prepared
  Attachment = attachment
  Outcomes <- Either
  Removals <- ByAnyone
  MaxAttempts = 2
  MaxCommands = 3
  MaxFailures = 1
  None = None
CHECK_DEADLOCK FALSE
INVARIANT TypeOK
INVARIANT VisibleIffSucceeded
INVARIANT NothingLeftBehind
PROPERTY CancelSticks
PROPERTY SupersededIsPowerless
