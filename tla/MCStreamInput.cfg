SPECIFICATION InputSpec
CONSTANTS
  Size = 4
  CountMod = 7
  Total = 14
  SampleSize = 2
  ReadSize = 4
  NChan = 3
  FifoSize = 4
INVARIANTS
  InputTypeOK
  ReaderInStep
  PrintsItsStream
PROPERTIES
  MarkedInFull
  StreamSpec
  AllPrintedInTheEnd
  Ends
CHECK_DEADLOCK FALSE
