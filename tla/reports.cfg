\* All arguments of all functions, over a few values.  A call that has run
\* into undefined behaviour stops.
SPECIFICATION Spec
CONSTANTS
  Half = 4
  Numbers <- MCNumbers
  Full <- MCFull
  Buffer = 3
  MaxLength = 4
  MaxLines = 3
  Null = Null
CHECK_DEADLOCK FALSE
INVARIANTS
  TypeOK
  ReportIsAsAsked
  ReadsOnlyItsArguments
  UndefinedOnlyFor
  BufferFilled
