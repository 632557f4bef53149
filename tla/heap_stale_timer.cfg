\* A profile that is stopped early leaves its timer behind.
SPECIFICATION Spec
CONSTANTS
  s1 = s1
  s2 = s2
  t1 = t1
  p1 = p1
  p2 = p2
  Sessions <- OneSession
  Timers <- OneTimer
  Paths <- OnePath
  NoPath = NoPath
  MaxStarts = 2
  MaxDumps = 0
INVARIANT TimerStopsItsOwnProfile
