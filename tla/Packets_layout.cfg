SPECIFICATION Spec
CONSTANTS
    Nonces = {n1, n2}
    None = None
    RandomSizes <- MCRandomSizes
    SignatureSizes <- MCSignatureSizes
    Rssis <- MCRssis
INVARIANTS
    NoAssertionFails
    PacketsUnderstood
    HashCovers
CHECK_DEADLOCK FALSE
