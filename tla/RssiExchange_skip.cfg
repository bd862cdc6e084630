SPECIFICATION Spec
CONSTANTS
    n1 = n1
    n2 = n2
    c1 = c1
    c2 = c2
    None = None
    Nonces <- MCNonces
    Coroutines <- MCCoroutines
    MaxSessions = 1
    MaxDemanders = 1
    Interval = 1
    Window = 1
CHECK_DEADLOCK FALSE
PROPERTY AttemptInFlight
