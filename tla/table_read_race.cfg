\* A cursor copies a record without the lock while a writer deletes it.
SPECIFICATION Spec
CONSTANTS
  w1 = w1
  w2 = w2
  c1 = c1
  start = start
  stop = stop
  Writers <- MCWriters
  Cursors <- MCCursors
  Actions <- MCActions
  Rows = 3
  MaxAdds = 5
  NoWriter = NoWriter
  Null = Null
  Garbage = Garbage
SYMMETRY Symmetry
INVARIANT RowsComeFromRecords
