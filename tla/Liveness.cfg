SPECIFICATION LivenessSpec
CONSTANTS
  NumRuns = 2
  Conversations = {"c"}
  ConvOf <- MCConvOf
  Workers = {"w1", "w2"}
  MaxFaults = 2
  Jobs = {"j1", "j2"}
  Goals = {"note"}
  Risky = {}
  Periodic = {}
  Priority <- MCPriority
  MaxAttempts = 1
  AttemptCap = 1
  LeaseTime = 1
  FirstRuns = {}
  Interval = 0
  Backoff <- MCBackoff
PROPERTIES LeasesEnd UrgentJobsRun QueueDrains
CHECK_DEADLOCK FALSE
