\* One session and its timer; two paths, so that the path may change under way.
SPECIFICATION FairSpec
CONSTANTS
  s1 = s1
  s2 = s2
  t1 = t1
  p1 = p1
  p2 = p2
  Sessions <- OneSession
  Timers <- OneTimer
  Paths <- TwoPaths
  NoPath = NoPath
  MaxStarts = 2
  MaxDumps = 1
INVARIANTS
  TypeOK
  FirstSessionRowsNameFiles
PROPERTY TimedProfileEnds
