CONSTANTS
  Calls = {c1, c2}
  Provider = p
  Models = {}
  Keys = {p}
  MaxModelKeys = 1
  FailureThreshold = 2
  SuccessThreshold = 1
  HalfOpenMaxCalls = 1
  OpenDuration = 1
SYMMETRY CallAndModelSymmetry
SPECIFICATION MWSpec
INVARIANT
  ProbesReturned
