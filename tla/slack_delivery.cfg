SPECIFICATION FairSpec
CONSTANTS
  Ids = {n1}
  MaxTime = 2
  MaxAttempt = 2
  MaxCrashes = 2
  MaxChanges = 2
INVARIANT DeliveredWasPosted
INVARIANT NotBeforeStart
INVARIANT EndIsRecorded
PROPERTY OutcomeStands
PROPERTY EveryEventEnds
CHECK_DEADLOCK FALSE
