SPECIFICATION FairSpec
CONSTANTS
    t1 = t1
    t2 = t2
    token = token
    other = other
    Tasks <- MCTasks
    Addresses <- MCAddresses
CHECK_DEADLOCK FALSE
INVARIANTS
    TypeOK
    ScanOwned
    HandedOutInOrder
    AssertionsExplained
PROPERTY
    SpinReturns
