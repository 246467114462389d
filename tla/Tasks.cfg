SPECIFICATION TasksSpec
CONSTANTS
  m1 = m1
  m2 = m2
  m3 = m3
  u1 = u1
  u2 = u2
  mia = mia
  noah = noah
  Events = {m1, m2, m3, u1, u2}
  SenderOf <- Senders
  Addressed = {m1, m2, m3}
  Unasked = {u1, u2}
  Pings = {m3}
  BatchSize = 3
  Calls = {ca1, ca2}
  MaxCopies = 2
  MaxMishaps = 1
  NoCall = NoCall
  NoEvent = NoEvent

  Runs = {v, i, p, q}
  Videos = {v}
  Checked = {v, i}
  Ops = {op1, op2}
  Routes = {ra, rb}
  Days = {1, 2}
  Limits = {0, 1}
  MaxClaims <- Claims
  Single = {v, i}
  Pair = {p, q}
  MaxFaults = 1
  MaxCrashes = 1
SYMMETRY Interchangeable
INVARIANTS
  AnsweredByOneRun BurstKeptWhole
  QuotaKept
  TasksTypeOK
PROPERTIES OneUnaskedAtATime KeepsPromise
CHECK_DEADLOCK FALSE
