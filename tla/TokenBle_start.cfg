SPECIFICATION FairSpec
CONSTANTS
    h1 = h1
    h2 = h2
    h3 = h3
    None = None
    Handles <- MCHandles
    MaxEvents = 4
    MaxFaults = 2
CHECK_DEADLOCK FALSE
INVARIANTS
    CallbacksLive
    KeptIsKnown
    OthersLeave
    SilenceExplained
    ConnectedIsHidden
PROPERTY
    TokenServes
