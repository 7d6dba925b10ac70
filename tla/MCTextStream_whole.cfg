\* One reader of a stream whose caller's context ends.
SPECIFICATION Spec
CONSTANTS
  BufferSize = 1
  Readers = {1, 2}
  Scenarios <- CallerLeaves
INVARIANTS
  RangeIsWhole
