SPECIFICATION Spec
CONSTANTS
  TriageWindow = 4
  EventWindow = 5
  Executions <- MCExecutions
  Refreshes <- MCRefreshes
  OsEvents <- MCOsEvents
  MaxCopies = 2
  MaxFaults = 0
INVARIANTS
  U15Guardrail
CHECK_DEADLOCK FALSE
