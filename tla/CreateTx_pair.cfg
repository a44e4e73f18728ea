SPECIFICATION Spec
CONSTANTS
    Requests <- MCRequests
    Dust = 3
    MinRate = 1
    Kilo = 2
    BaseSize = 1
    InSize = 2
    OutSize = 1
    MaxLoops = 8
    U64 = 1024
INVARIANT PairPaysRate
CHECK_DEADLOCK FALSE
