SPECIFICATION MediaSpec
CONSTANTS
  Runs = {i}
  Videos = {}
  Checked = {}
  Ops = {o1}
  Routes = {a}
  Days = {1}
  Limits = {2}
  MaxClaims <- Claims
  MaxFaults = 0
  MaxCrashes = 1
INVARIANTS ChargedOnce
CHECK_DEADLOCK FALSE
