SPECIFICATION AnalogSpec
CONSTANTS
  Chans = {c1, c2}
  MaxChunkSize = 2
  MaxN = 3
  Settling = 1
  Halves = {0, 1}
  BufSz = 2
  RangeSet <- MCRanges
  MaxDatas = {1, 4}
  Volts <- MCVolts
  Ticks = {1, 30, 31, 32, 100, 255, 256, 257, 510, 511, 512, 1023, 1024, 5000}
  N = 2
  Themes <- MCThemes
  MaxElements = 6
  MaxArefs = 2
  MaxCoefs = 3
  Dacs <- MCDacs
  Queries <- MCQueries
  HardRanges <- MCHardRanges
INVARIANT TruncatesOnlyOutside
CHECK_DEADLOCK FALSE
