SPECIFICATION Spec
CONSTANTS
    o1 = o1
    o2 = o2
    c1 = c1
    c2 = c2
    r1 = r1
    r2 = r2
    None = None
    Gone = Gone
    Objects <- MCObjects
    Coroutines <- MCCoroutines
    Receivers <- MCReceivers
    MaxFaults = 1
    MaxLosses = 1
    MaxUnsubscribes = 1
CHECK_DEADLOCK FALSE
INVARIANTS
    TypeOK
    HandlerStable
    AssertionsExplained
    WriterHears
