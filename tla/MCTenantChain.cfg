SPECIFICATION Spec
CONSTANTS
  Workspaces <- MCWorkspaces
  ItemsIn <- MCItems
  Events = {e1}
  Refreshables = {d1, d2}
  Capacities = {c1}
  Envs <- MCEnvs
  MaxTries = 2
  MaxPolls = 2
  BatchSize = 1
  Lookback = 1
  Top = 1
  MaxSessions = 2
INVARIANTS
  TypeOK
  ExtractIsComplete
  StaleIsEmpty
  FreshOnLanding
  TornFileIsForeign
  UnknownModeIsOverride
PROPERTIES
  GatedWrites
  SessionsEnd
CHECK_DEADLOCK FALSE
