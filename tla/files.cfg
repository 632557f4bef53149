\* Numbers 1 to 4, written in base 2 with at least two digits.
SPECIFICATION Spec
CONSTANTS
  p1 = p1
  p2 = p2
  Paths <- MCPaths
  NoPath = NoPath
  Longer <- MCLonger
  Before <- MCBefore
  Base = 2
  Width = 2
  MaxDumps = 4
  MaxOther = 2
INVARIANT TypeOK
PROPERTIES
  KeepsDumps
  ReportsNewestDump
