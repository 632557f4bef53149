\* Two sessions, two dump paths; every interleaving of the calls.
SPECIFICATION Spec
CONSTANTS
  s1 = s1
  s2 = s2
  p1 = p1
  p2 = p2
  Sessions <- MCSessions
  Paths <- MCPaths
  NoPath = NoPath
SYMMETRY Symmetry
INVARIANTS
  TypeOK
  CollectingCanBeStopped
  ReportReadsNoOpenProfile
  StoppedRowNamesProfile
  StatusMatchesCollector
PROPERTY NeverOverwrites
