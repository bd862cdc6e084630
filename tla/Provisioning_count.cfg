SPECIFICATION Spec
CONSTANTS
    KeySize <- MCKeySize
    PacketSize = 64
    MaxHandles = 14
    MaxGenerations = 1
    MaxFaults = 0
    MaxPowerCuts = 1
    MaxPresses = 0
    MaxEvents = 2
CHECK_DEADLOCK FALSE
INVARIANTS
    CountZeroOrThree
