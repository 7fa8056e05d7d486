SPECIFICATION CmdSpec
CONSTANTS
  Threads = {t1}
  Alone = t1
  Devices <- MCDevices
  Lens = {2}
  Periods = {12, 63}
  FewLens = {2}
  FewPeriods = {12}
  Faults = {}
  UIntMod = 64
INVARIANT RateKept
