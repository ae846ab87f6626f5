CONSTANTS
    Clients = {c1}
    NoClient = NoClient
    KeyCodes = {1}
    ErrBit = ErrBit
    NoIrq = NoIrq
    MaxFaults = 1
    MaxRaw = 1
    MaxDisturbances = 1
    MaxKeys = 2
SPECIFICATION FairSpec
INVARIANTS
    NeverForgotten
    KeysFollow
PROPERTIES
    CommandSteps
    CallReturns
    KeysSeen
CHECK_DEADLOCK FALSE
