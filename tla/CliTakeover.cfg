SPECIFICATION InstSpec
CONSTANTS
  Procs = {p1, p2}
  None = None
  Single = FALSE
INVARIANT ClosingWins
CHECK_DEADLOCK FALSE
