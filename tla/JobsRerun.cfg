SPECIFICATION Spec
CONSTANTS
  Jobs = {"j1"}
  Goals = {"note", "deploy", "daily"}
  Risky = {"deploy"}
  Periodic = {"daily"}
  Priority <- MCPriority
  MaxAttempts = 2
  AttemptCap = 1
  LeaseTime = 1
  FirstRuns = {1}
  Interval = 1
  Backoff <- MCBackoff
INVARIANTS NoBlindRerun
