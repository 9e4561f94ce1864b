CONSTANTS
  u1 = u1  s1 = s1  s2 = s2  k1 = k1  e1 = e1  n1 = n1
  None = None
  Calls <- MixCalls
  Ids <- MixCalls
  IdOf <- OwnId
  KindOf <- MixKindOf
  Leaky = {s1}
  MaxUnary = 1
  MaxStreams = 1
  MaxMsgs = 1
SPECIFICATION MCSpec
INVARIANT NoMessageAfterTerminal
CHECK_DEADLOCK FALSE
