SPECIFICATION MCSpec
CONSTANTS
    w1 = w1
    w2 = w2
    o1 = o1
    Workers <- MCWorkers
    Outputs = {o1}
    Wallets = {"hw", "sw"}
    MaxChanges = 1
    MaxCrashes = 1
SYMMETRY MCSymmetry
INVARIANTS
    NothingUnsaved
    OutputsInsertedOnce
    NoncesComplete
    LocktimesFresh
PROPERTY StoreSpec
CHECK_DEADLOCK FALSE
