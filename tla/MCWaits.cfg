SPECIFICATION MCSpec
CONSTANTS
  Callers = {a, b}
  N = 2
  Interval = 5
  Burst = 2
  MaxRetryAfter = 2
  Horizon = 5
  a1 = a1
  a2 = a2
  a3 = a3
  r1 = r1
  A = A
  BCalls = {a1, a2, a3, r1}
  BKeys = {A}
  BKeyOf <- MCKeyOf
  BLimit <- MCLimit
  BReject = {r1}
  HDelays = {TRUE, FALSE}
  HHonours = {TRUE, FALSE}
  Nothing = Nothing
INVARIANTS
  LimiterExact
  WallKept
  HedgeHonest
PROPERTIES
  WaitEnds
  AcquireReturns
  HedgeEnds
