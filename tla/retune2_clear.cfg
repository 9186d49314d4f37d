SPECIFICATION FairSpec
CONSTANTS
  Slots = {"a", "b"}
  Directions = {"RX"}
  QueueMax = 2
  MaxRequests = 1
  MaxClears = 2
  MaxFaults = 0
  MaxStalls = 1
  MaxResets = 1
INVARIANT ArmedOwned
PROPERTY ClearAnswered
