SPECIFICATION PartsSpec
CONSTANTS
  NumRuns = 2
  ConvOf <- OneConversation
  MemberOf <- OneMember
  GroupRuns = {}
  MediaRuns = {}
  Consumers = {"p"}
  MaxRows = 1
  MaxSegments = 1
  MaxBatch = 1
  MaxAttempts = 3
  LeaseCap = 5
  LeaseTime = 2
  Backoff <- NoBackoff
  Delays = {0}
  Loops = {l1}
  l1 = l1
  PlatformOwner = "p"
  TrackedRuns = {1}
  NumParts = 3
  SendTime = 1
  MaxFaults = 2
INVARIANTS DeliveredWasSent WithdrawnStops
PROPERTIES ConfirmedOnce RowsSettle
CHECK_DEADLOCK FALSE
