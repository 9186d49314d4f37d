CONSTANTS
    None = None
    Commands = {a, b}
    MaxId = 2
    MaxCalls = 3
    MaxCrashes = 1
    MaxReboots = 1
    MaxTicks = 2
SPECIFICATION Spec
INVARIANTS
    TypeOK
    FailureReported
PROPERTIES
    ServiceSpec
    CallReturns
CHECK_DEADLOCK FALSE
