SPECIFICATION OutboxSpec
CONSTANTS
  NumRuns = 2
  ConvOf <- OneConversation
  MemberOf <- OneMember
  GroupRuns = {1, 2}
  MediaRuns = {1}
  Consumers = {"p"}
  MaxRows = 4
  MaxSegments = 3
  MaxBatch = 1
  MaxAttempts = 2
  LeaseCap = 3
  LeaseTime = 1
  Backoff <- MCBackoff
  Delays = {0, 1}
INVARIANTS AnsweredOnce RunOutcome FifoPerConversation
PROPERTIES DeadRunsStaySilent FeedSpec
CHECK_DEADLOCK FALSE
