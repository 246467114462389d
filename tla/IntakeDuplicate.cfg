SPECIFICATION MCIntakeSpec
CONSTANTS
  m1 = m1
  m2 = m2
  m3 = m3
  u1 = u1
  u2 = u2
  mia = mia
  noah = noah
  Events = {m1, m2, m3, u1, u2}
  SenderOf <- Senders
  Addressed = {m1, m2, m3}
  Unasked = {u1, u2}
  Pings = {m3}
  BatchSize = 3
  Calls = {c1, c2}
  MaxCopies = 2
  MaxMishaps = 0
  NoCall = NoCall
  NoEvent = NoEvent
INVARIANTS RedeliveryHarmless
CHECK_DEADLOCK FALSE
