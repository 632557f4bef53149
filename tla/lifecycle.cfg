\* Two sessions, the component profiler and one of the three profilers.
SPECIFICATION Spec
CONSTANTS
  s1 = s1
  s2 = s2
  Sessions <- MCSessions
  MaxUsed = 2
  NoCall = NoCall
SYMMETRY Symmetry
INVARIANTS
  TypeOK
  UnloadedLeavesNothing
  InstalledIsWhole
  RunningCodeIsInMemory
  CallsFindVariables
  DeinitFindsList
  RecordsDeletedOnce
  LateFailureIsFinal
