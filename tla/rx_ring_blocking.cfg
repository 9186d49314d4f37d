CONSTANTS
  N = 3
  T = 1
  SeqMod = 29
  MaxReorder = 2
  Units = 2
  Requests = {1, 3}
  Format = "RAW"
  Timeouts = {"infinite"}
  MaxLost = 1
  MaxOvertakes = 0
  MaxEnds = 0
  MaxFences = 0
  MaxPrimes = 0
SPECIFICATION FairSpec
INVARIANTS TypeOK
PROPERTY ReadReturns
PROPERTY InOrderDelivery
