SPECIFICATION CallsSpec
CONSTANTS
  Channels = {0, 1, 2}
  Values = {1, 2}
  Routes <- MCRoutes
  MaxSlots = 4
  MaxCalls = 2
  Periods = {10, 13}
  UpTimes = {0, 1, 3, 10, 15}
  ClockPeriod = 4
  UIntMod = 64
  Width = 2
  NChan = 3
  Bases = {0, 2, 3}
  Subdevices <- MCSubdevices
  Threads = {t1}
  NSubd = 5
  Streams <- MCStreams
  Modules <- MCModules
  Registers = {0, 7}
  MaxBytes = 2
  MaxFailures = 1
  Message <- MCMessage
  Row = 3
  MaxPauses = 2
  BufSize = 2
INVARIANTS
  ReadBack
CHECK_DEADLOCK FALSE
