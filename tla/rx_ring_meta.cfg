CONSTANTS
  N = 3
  T = 2
  SeqMod = 16
  MaxReorder = 2
  Units = 1
  Requests = {1}
  Format = "META"
  Timeouts = {"infinite"}
  MaxLost = 1
  MaxOvertakes = 1
  MaxEnds = 0
  MaxFences = 1
  MaxPrimes = 0
SPECIFICATION Spec
INVARIANTS EverySlotAccounted NoSequenceHole OverrunReported
