CONSTANTS
    Clients = {c1, c2}
    NoClient = NoClient
    FaultKinds = {"lost", "applied"}
    MaxFaults = 2
    MaxRaw = 1
SPECIFICATION FairSpec
INVARIANTS
    FreeMeansIdle
    NeverPendingUnlocked
    OneCommand
    OwnAnswer
    NoLostWakeup
PROPERTIES
    CallReturns
