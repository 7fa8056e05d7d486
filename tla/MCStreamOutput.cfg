SPECIFICATION OutputSpec
CONSTANTS
  Size = 4
  CountMod = 6
  Total = 14
  BufSizes = {2, 3, 5}
INVARIANTS
  OutputTypeOK
  ContentsExact
  UnreadIntact
  PlaysStream
PROPERTIES
  KeepsPlaying
CHECK_DEADLOCK FALSE
