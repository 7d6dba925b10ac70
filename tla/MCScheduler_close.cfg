\* Two Close calls racing admission, registration, cancellation and release.
SPECIFICATION LiveSpec
CONSTANTS
  c1 = c1
  c2 = c2
  c3 = c3
  c4 = c4
  c5 = c5
  k1 = k1
  k2 = k2
  Calls = {c1, c3}
  Closers = {k1, k2}
  MayCancel = {c3}
  Tenants = {"A", "B"}
  Providers = {"x", "y"}
  Request <- TwoClasses
  MaxConcurrent = 1
  MaxQueued = 0
  MaxInFlightTokens = 0
  MaxInFlightCost = 0
  PerProviderConcurrency = 0
  PerTenantConcurrency = 0
  MaxTime = 1
INVARIANTS
  OneAnswer
  CloseKept
PROPERTIES
  NoAddAfterClose
  EverythingEnds
  ImplementsGate
