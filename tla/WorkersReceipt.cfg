SPECIFICATION WorkersSpec
CONSTANTS
  NumRuns = 1
  ConvOf <- OneConversation
  MemberOf <- OneMember
  GroupRuns = {}
  MediaRuns = {}
  Consumers = {"p"}
  MaxRows = 2
  MaxSegments = 1
  MaxBatch = 1
  MaxAttempts = 2
  LeaseCap = 3
  LeaseTime = 2
  Backoff <- NoBackoff
  Delays = {0}
  Loops = {l1}
  l1 = l1
  PlatformOwner = "p"
  TrackedRuns = {}
  NumParts = 1
  SendTime = 1
  MaxFaults = 0
PROPERTIES ErrorsAreNotUnsent
CHECK_DEADLOCK FALSE
