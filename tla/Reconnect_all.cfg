SPECIFICATION FairSpec
CONSTANTS
    a1 = a1
    k1 = k1
    k2 = k2
    Io = Io
    Apps <- MCOneApp
    Tasks <- MCTasks
    Hints = {"now", "disable", "start"}
INVARIANTS
    SingleReconnect
    NoUseAfterFree
PROPERTIES
    TeardownEnds
    Reconnects
CHECK_DEADLOCK FALSE
