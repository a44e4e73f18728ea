SPECIFICATION Spec
CONSTANTS
    Requests <- MCRequests
    Dust = 3
    MinRate = 1
    Kilo = 2
    BaseSize = 1
    InSize = 2
    OutSize = 1
    MaxLoops = 8
    U64 = 1024
INVARIANTS
    TypeOK
    Balanced
    FeeRight
    NoDust
    PaysAddressees
    InsufficientIsReal
    LoopProgress
    SignsItsInputs
CHECK_DEADLOCK FALSE
