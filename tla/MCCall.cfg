\* Two calls of one client with one slot, two attempts each.
SPECIFICATION CallSpec
CONSTANTS
  Calls = {1, 2}
  Slots = 1
  Attempts = 2
  ProcessCeiling = 1
  Settings <- Clients
INVARIANTS
  SpendKept
  EndsRight
PROPERTIES
  CallReturns
