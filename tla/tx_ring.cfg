CONSTANTS
  N = 3
  T = 2
  DataMod = 5
  Units = 1
  Requests = {1}
  Format = "RAW"
  Timeouts = {"infinite"}
  Admission = TRUE
  MaxGen = 2
  MaxFails = 1
  MaxStalls = 1
  MaxEnds = 1
SPECIFICATION Spec
INVARIANTS TypeOK TxOwnership NoLeakedSlot
 
