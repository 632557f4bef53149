\* Two sessions, two dump paths, three dumps of each.
SPECIFICATION Spec
CONSTANTS
  s1 = s1
  s2 = s2
  p1 = p1
  p2 = p2
  Sessions <- MCSessions
  Paths <- MCPaths
  NoPath = NoPath
  MaxDump = 3
SYMMETRY Symmetry
INVARIANTS
  TypeOK
  StatusMatchesActive
  NeverOverwrites
  ReportCoversLastProfile
