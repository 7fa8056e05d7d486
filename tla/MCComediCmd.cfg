SPECIFICATION CmdSpec
CONSTANTS
  Threads = {t1, t2}
  Alone = t1
  Devices <- MCDevices
  Lens = {0, 1, 2, 3}
  Periods = {0, 1, 5, 11, 12}
  FewLens = {2}
  FewPeriods = {1}
  Faults = {"ENODEV"}
  UIntMod = 64
INVARIANTS
  TypeOK
  SupportedAlone
  MasksTrue
  TimedUsable
  RateKept
