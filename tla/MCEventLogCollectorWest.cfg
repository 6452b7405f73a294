SPECIFICATION Spec
CONSTANTS
  gatewayError = gatewayError
  serviceStop = serviceStop
  Events <- TwoEvents
  LogOf <- OneOfEachLog
  TicksPerSecond = 2
  Lookback = 3
  UtcOffset <- WestOfUtc
  QuietFrom = 4
  MaxTime = 7
INVARIANTS
  NoSilentLoss
CHECK_DEADLOCK FALSE
