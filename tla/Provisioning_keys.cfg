SPECIFICATION FairSpec
CONSTANTS
    KeySize <- MCKeySize
    PacketSize = 64
    MaxHandles = 11
    MaxGenerations = 2
    MaxFaults = 2
    MaxPowerCuts = 1
    MaxPresses = 1
    MaxEvents = 3
CHECK_DEADLOCK FALSE
INVARIANTS
    TypeOK
    CountBacked
    KeysIntact
    CountMeansKeys
PROPERTIES
    Provisioned
    ResetListens
