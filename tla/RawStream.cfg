CONSTANTS
  MaxQueued = 2
  MaxFrames = 4
SPECIFICATION FairSpec
INVARIANTS TypeOK NoGap EOFIsComplete NoLostWakeup
PROPERTIES HandlerIsTold
CHECK_DEADLOCK FALSE
