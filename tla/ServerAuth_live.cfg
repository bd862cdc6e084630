SPECIFICATION FairSpec
CONSTANTS
    o1 = o1
    o2 = o2
    token = token
    other = other
    t1 = t1
    t2 = t2
    l1 = l1
    None = None
    Objects <- MCOneObject
    Addresses <- MCAddresses
    Tokens <- MCTokens
    Loans <- MCOneLoan
    ScanTasks <- MCOneTask
    MAX_ATTEMPTS = 2
    MaxKeys = 1
    MaxErases = 1
CHECK_DEADLOCK FALSE
PROPERTIES
    LostServerNoticed
    WaitReturns
    UnauthenticatedRescans
