SPECIFICATION FairSpec
CONSTANTS
  TriageWindow = 4
  EventWindow = 5
  Executions <- MCExecutions
  Refreshes <- MCRefreshes
  OsEvents <- MCOsEvents
  MaxCopies = 2
  MaxFaults = 1
INVARIANTS
  TypeOK
  EveryFailedRequestOnce
PROPERTIES
  SilverNeverGoesBack
  ExactStaysExact
  WindowMatchNeverWorsens
  EventuallyTriaged
  EventuallyReconciled
