SPECIFICATION Spec
CONSTANTS
  Slots = {"a", "b"}
  Directions = {"RX", "TX"}
  QueueMax = 2
  MaxRequests = 2
  MaxClears = 1
  MaxFaults = 1
  MaxStalls = 0
  MaxResets = 0
INVARIANTS TypeOK OneOutcome NothingLost Punctual SlotSafe
