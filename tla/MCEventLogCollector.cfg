SPECIFICATION FairSpec
CONSTANTS
  gatewayError = gatewayError
  serviceStop = serviceStop
  Events <- TwoEvents
  LogOf <- OneOfEachLog
  TicksPerSecond = 2
  Lookback = 3
  UtcOffset = 1
  QuietFrom = 4
  MaxTime = 7
INVARIANTS
  TypeOK
  NoSilentLoss
PROPERTIES
  EventuallyAccounted
CHECK_DEADLOCK FALSE
