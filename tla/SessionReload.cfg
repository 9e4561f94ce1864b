CONSTANTS
  s1 = s1  k1 = k1  s2 = s2  u2 = u2
  None = None
  Calls <- PageCalls
  Ids <- TwoIds
  IdOf <- PageIdOf
  KindOf <- PageKindOf
  Leaky = {}
  MaxUnary = 1
  MaxStreams = 1
  MaxMsgs = 0
  MaxFeeds = 1
SPECIFICATION ReloadSpec
INVARIANT NeverForeign
CHECK_DEADLOCK FALSE
