CONSTANTS
  N = 3
  T = 1
  SeqMod = 8
  MaxReorder = 1
  Units = 1
  Requests = {1}
  Format = "PACKET"
  Timeouts = {"deadline"}
  MaxLost = 1
  MaxOvertakes = 0
  MaxEnds = 1
  MaxFences = 0
  MaxPrimes = 1
SPECIFICATION Spec
INVARIANTS ExclusiveOwnership EverySlotAccounted
CHECK_DEADLOCK FALSE
