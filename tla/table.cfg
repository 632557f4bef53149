\* Two writers race one cursor on a ring of three rows that wraps.
SPECIFICATION FairSpec
CONSTANTS
  w1 = w1
  w2 = w2
  c1 = c1
  start = start
  stop = stop
  Writers <- MCWriters
  Cursors <- MCCursors
  Actions <- MCActions
  Rows = 3
  MaxAdds = 5
  NoWriter = NoWriter
  Null = Null
  Garbage = Garbage
INVARIANTS
  TypeOK
  HeapHoldsLatest
  NoDoubleFree
  ScanComplete
  PositionsFilled
  NoGarbageBeforeWrap
PROPERTIES
  SlotsOnlyAdvance
  ScanEnds
  ImplementsLog
