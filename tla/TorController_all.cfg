SPECIFICATION MCSpec
CONSTANTS
    Sessions = {g, e}
    Electrum = {e}
    Ctrls = {k1, k2}
    Impls = {i1, i2}
    Ports = {9050, 9150}
    Full = 1
    MaxEvents = 5
    Lone = g
    MaxShared = 3
    None = None
INVARIANTS
    TypeOK
    OneTor
    SocksLive
    PortKept
    NoLostWakeup
PROPERTY CallsEnd
CHECK_DEADLOCK FALSE
