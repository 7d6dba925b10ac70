\* One place, four tenants: does a queued request get its turn?
SPECIFICATION LoopSpec
CONSTANTS
  t1 = t1
  t2 = t2
  a1 = a1
  b1 = b1
  Calls = {t1, t2, a1, b1}
  Repeat = {a1, b1}
  Closers = {}
  MayCancel = {}
  Tenants = {"T", "A", "B"}
  Providers = {"x"}
  Request <- OneWorkerEach
  MaxConcurrent = 1
  MaxQueued = 0
  MaxInFlightTokens = 0
  MaxInFlightCost = 0
  PerProviderConcurrency = 0
  PerTenantConcurrency = 0
  MaxTime = 1
PROPERTIES
  TurnEachPass
