SPECIFICATION ServicesSpec
CONSTANTS
  MaxRestarts = 2
  Ports = 2
  MaxLaunches = 5
  Procs = {p1, p2, p3}
  None = None
  Single = TRUE
  Histories <- MCHistories
  MaxSteps = 2
  MaxCalls = 2
  MaxAttempts = 2
  Ids = {i1, i2}
  Slots = {s1, s2}
  LocalSlots = {s1}
  Nothing = Nothing
  Blocks = 2
  Retries = 1
  MaxVersion = 3
  Gone = Gone
  Half = Half
  Conns = {c1, c2}
  MaxToolCalls = 2
  MaxServers = 2
  NoCall = NoCall
  MaxSockets = 2
  Invokes = {n1, n2}
  Calls = {r1, r2}
  MaxQueue = 1
  StoreKeys = {k1, k2}
  StoreValues = {v1}
  Absent = Absent
  Torn = Torn
  Writers = {w1, w2, w3}
INVARIANTS
  ServicesTypeOK
  OneChild
  StopLeavesNone
  PrimaryReachable
  CommandsFindTheApp
  ConversationIsWhole
  ToolsRunOnce
  LiveIsSaved
  OnlyVerified
  AlwaysAnApp
  TurnsInOrder
  DeniedIsFinal
  NobodyWaitsInVain
  SavedIsKept
CHECK_DEADLOCK FALSE
