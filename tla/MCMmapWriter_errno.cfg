SPECIFICATION Spec
CONSTANTS
  Size = 4
  CountMod = 5
  Total = 14
INVARIANT ErrnoNamesTheCause
CHECK_DEADLOCK FALSE
