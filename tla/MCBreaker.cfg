CONSTANTS
  Calls = {c1, c2, c3}
  Keys = {k1, k2}
  FailureThreshold = 2
  SuccessThreshold = 2
  HalfOpenMaxCalls = 2
  OpenDuration = 2
  MWCalls = {c1, c2}
  Provider = p
  Models = {m1, m2}
  MaxModelKeys = 1
  MWFailures = 1
  MWSuccesses = 1
  MWProbes = 2
  MWOpen = 1
SPECIFICATION MCSpec
INVARIANTS
  ProbesExact
  MiddlewareKeys
PROPERTIES
  ClosesByProbe
  Recovers
