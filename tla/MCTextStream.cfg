\* Ranges, a drain, Cancel and Close against one producer, a buffer of one.
SPECIFICATION FairSpec
CONSTANTS
  BufferSize = 1
  Readers = {1, 2}
  Scenarios <- Mixed
INVARIANTS
  OneOutcome
  StreamAccounted
PROPERTIES
  StreamLetsGo
