SPECIFICATION Spec
CONSTANTS
    c1 = c1
    c2 = c2
    o1 = o1
    o2 = o2
    o3 = o3
    Subaccounts = {1, 2}
    Known = {2}
    Callers <- MCCallers
    Obj <- MCObjs
    NoObj = NoObj
    Requests <- MCFirstPage
    Histories <- MCShort
    Bumps = {FALSE}
    PAGE = 1
    CACHE_SIZE = 1
    U32 = 8
    MaxEdition = 1
    MaxNotes = 1
SYMMETRY MCSymmetry
INVARIANTS
    CacheFresh
    NoStaleServe
    OneGetPerCache
