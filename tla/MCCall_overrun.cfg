\* Three calls of one client with one slot and a ceiling of one answer's cost.
SPECIFICATION CallSpec
CONSTANTS
  Calls = {1, 2, 3}
  Slots = 1
  Attempts = 1
  ProcessCeiling = 0
  Settings <- OneSlotClient
INVARIANTS
  SlotsBoundOverrun
