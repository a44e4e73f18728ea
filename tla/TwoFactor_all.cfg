SPECIFICATION MCSpec
CONSTANTS
    h1 = h1
    h2 = h2
    Handlers <- MCHandlers
    Methods = {"email", "sms", "gauth"}
    Ops <- MCOps
    OtherLimits = {1}
INVARIANTS
    TypeOK
    ExactlyOnce
    AttemptsMatch
    RightCodeAccepted
    ConfigCurrent
PROPERTIES
    Completes
