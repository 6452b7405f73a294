SPECIFICATION Spec
CONSTANTS
  startLog = startLog
  execLog = execLog
  Files <- TwoReports
  NumPatterns = 2
  PatternOf <- OnePatternEach
  TicksPerSecond = 2
  Lookback = 2
  UtcOffset = 1
  MaxVersion = 2
  QuietFrom = 4
  MaxTime = 6
INVARIANTS
  FailedFilesRetryNextRun
CHECK_DEADLOCK FALSE
