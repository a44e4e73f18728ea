SPECIFICATION Spec
CONSTANTS
    c1 = c1
    c2 = c2
    o1 = o1
    o2 = o2
    o3 = o3
    Subaccounts = {1}
    Known = {1}
    Callers <- MCOneCaller
    Obj <- MCTwoObjs
    NoObj = NoObj
    Requests <- MCRangeRequests
    Histories <- MCAll
    Bumps = {FALSE}
    PAGE = 2
    CACHE_SIZE = 2
    U32 = 8
    MaxEdition = 0
    MaxNotes = 1
INVARIANT NothingMissing
