SPECIFICATION Spec
CONSTANTS
  Callers = {a}
  Setters = {s, t}
  K = 2
  StreamLate = TRUE
  MaxOps = 3
  MaxTrouble = 1
  MaxOpens = 2
INVARIANT OneOwner
CHECK_DEADLOCK FALSE
