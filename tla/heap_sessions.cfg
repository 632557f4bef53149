\* Two sessions and a timer interleave their calls; one path, two starts.
SPECIFICATION Spec
CONSTANTS
  s1 = s1
  s2 = s2
  t1 = t1
  p1 = p1
  p2 = p2
  Sessions <- TwoSessions
  Timers <- OneTimer
  Paths <- OnePath
  NoPath = NoPath
  MaxStarts = 2
  MaxDumps = 1
SYMMETRY Symmetry
INVARIANTS
  StatusMatchesProfiler
  StartFindsProfilerOff
