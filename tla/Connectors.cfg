SPECIFICATION ConnectorsSpec
CONSTANTS
  NumRuns = 1
  ConvOf <- OneConversation
  MemberOf <- OneMember
  GroupRuns = {}
  MediaRuns = {}
  Consumers = {"p"}
  MaxRows = 2
  MaxSegments = 2
  MaxBatch = 1
  MaxAttempts = 2
  LeaseCap = 2
  LeaseTime = 2
  Backoff <- SlowBackoff
  Delays = {0}
  Loops = {l1, l2}
  l1 = l1
  l2 = l2
  PlatformOwner = "p"
  TrackedRuns = {}
  NumParts = 1
  SendTime = 1
  MaxFaults = 1
  Sockets = {so1, so2}
  MaxNumber = 3
  MaxOutages = 2
SYMMETRY LoopSymmetry
INVARIANTS OneSenderPerConversation WordsKept
PROPERTIES ShownInOrder
CHECK_DEADLOCK FALSE
