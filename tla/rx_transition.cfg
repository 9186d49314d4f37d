SPECIFICATION FairSpec
CONSTANTS
  Callers = {a}
  Setters = {s, t}
  K = 2
  StreamLate = FALSE
  MaxOps = 2
  MaxTrouble = 1
  MaxOpens = 2
INVARIANTS TypeOK DeliveredCertified RevokedBeforeWrite OneOwner
PROPERTIES FaultNoticed 
CHECK_DEADLOCK FALSE
