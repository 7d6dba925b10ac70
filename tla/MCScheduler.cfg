\* Cancellations and deadlines racing admissions under every limit there is.
SPECIFICATION Spec
CONSTANTS
  c1 = c1
  c2 = c2
  c3 = c3
  c4 = c4
  c5 = c5
  k1 = k1
  k2 = k2
  Calls = {c1, c2, c3, c4, c5}
  Closers = {}
  MayCancel = {c4}
  Tenants = {"A", "B"}
  Providers = {"x", "y"}
  Request <- WeightedLoad
  MaxConcurrent = 2
  MaxQueued = 1
  MaxInFlightTokens = 3
  MaxInFlightCost = 3
  PerProviderConcurrency = 1
  PerTenantConcurrency = 1
  MaxTime = 2
INVARIANTS
  CapacityKept
  EstimatesRespected
  QueueKept
  NoLostWakeup
PROPERTIES
  AdmissionRight
