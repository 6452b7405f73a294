SPECIFICATION Spec
CONSTANTS
  Files <- MCFiles
  Samples <- MCSamples
  Safe <- MCSafe
  Number <- MCNumber
  TimeOf <- MCTimeOf
  Artifact <- MCArtifact
  NetWindow = 1
INVARIANTS
  TypeOK
  MisreadNeedsAnotherHeader
  NoSilentCast
  OneFormPerTable
  
  NothingIsAttributed
PROPERTIES
  CsvKeepsReportsOut
  NetworkIsNearest
