SPECIFICATION FairSpec
CONSTANTS
    c1 = c1
    None = None
    Coroutines <- MCCoroutines
    Values <- MCValues
    Threshold <- MCThreshold
    m_MaxSize = 3
    MaxQueue = 1
    MaxAttempts = 2
CHECK_DEADLOCK FALSE
INVARIANTS
    TypeOK
    NothingDangles
    PlotHoldsLatest
PROPERTIES
    MajorityLow
    HibernatesWhenFar
