CONSTANTS
    Clients = {c1}
    NoClient = NoClient
    Addresses = {a1, a2}
    Firmware = Firmware
    Loader = Loader
    NoArg = NoArg
    FaultKinds = {"lost", "applied"}
    MaxFaults = 1
    MaxRaw = 1
SPECIFICATION Spec
INVARIANTS
    UnlockedIsIdle
    NeverLeftPending
    OppositeChecked
    AnswerIsTrue
