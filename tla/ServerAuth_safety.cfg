SPECIFICATION Spec
CONSTANTS
    o1 = o1
    o2 = o2
    token = token
    other = other
    t1 = t1
    t2 = t2
    l1 = l1
    None = None
    Objects <- MCObjects
    Addresses <- MCAddresses
    Tokens <- MCTokens
    Loans <- MCOneLoan
    ScanTasks <- MCOneTask
    MAX_ATTEMPTS = 1
    MaxKeys = 2
    MaxErases = 1
CHECK_DEADLOCK FALSE
SYMMETRY MCSymmetry
INVARIANTS
    TypeOK
    Ownership
    ServerMatchesKey
PROPERTY
    LoneServerRevocation
