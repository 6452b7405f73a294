SPECIFICATION Spec
CONSTANTS
  n1 = n1
  n2 = n2
  c1 = c1
  c2 = c2
  east = east
  west = west
  Nodes <- MCNodes
  Clusters <- MCClusters
  Names <- MCNames
  Threshold = 0
  Arrangements <- MCArrangements
  FirstNames <- MCFirstNames
  Landings <- MCLandings
  Loads <- MCLoads
  MaxTime = 1
  MaxChanges = 1
INVARIANTS
  TypeOK
  HottestRowIsUnique
  SkewIsAmongTheActive
  TablesOfARunAgree
PROPERTIES
  FalseAlarmIsExplained
  DownNodeAges
  NodeNeverLeaves
  HeartbeatWaitsForOthers
  LoadIsConserved
