CONSTANTS
  NMods = 3
  Defaults = {3}
  Enabled = {1, 3}
  MaxAttempts = 2
  Windows = {w1, w2}
  None = None
  MaxBusy = 1
  MaxDrains = 2
SPECIFICATION Spec
INVARIANT OpenWindowIsServed
CHECK_DEADLOCK FALSE
