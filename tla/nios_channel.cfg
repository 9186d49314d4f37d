SPECIFICATION Spec
CONSTANTS
  Issued = {"version", "generation", "register", "status", "completion", "select", "rfic_a", "rfic_b", "sched_1", "sched_2", "now_3", "now", "clear_rx", "clear_tx", "write"}
  MaxFrames = 6
  MaxOpens = 2
  None = None
INVARIANTS OwnAnswer AllAccounted NoFalseMismatch
CHECK_DEADLOCK FALSE
