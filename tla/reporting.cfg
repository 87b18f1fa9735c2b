SPECIFICATION FairSpec
CONSTANTS
  reservoirSize = 3
  Values <- SomeValues
  Highest = 15
  MaxExact = 12
  MaxUpdates = 4
  Den = 4
INVARIANTS ReportedOnce OnlyLateUpdatesAreLost SummaryIsRight
PROPERTIES CloseEndsRoutine
CHECK_DEADLOCK FALSE
