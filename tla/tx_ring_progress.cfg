CONSTANTS
  N = 3
  T = 1
  DataMod = 1
  Units = 2
  Requests = {1}
  Format = "META"
  Timeouts = {"infinite", "deadline"}
  Admission = FALSE
  MaxGen = 0
  MaxFails = 0
  MaxStalls = 0
  MaxEnds = 1
SPECIFICATION FairSpec
PROPERTY DeferredShipped
PROPERTY WriteProgress
