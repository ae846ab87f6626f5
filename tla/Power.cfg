CONSTANTS
    Clients = {c1, c2}
    NoClient = NoClient
    Calls = {"temp", "enable", "disable", "source", "bad_port"}
    RawValues = {2500}
    MaxFaults = 1
    MaxSwaps = 1
SPECIFICATION FairSpec
INVARIANTS
    LedTestAgrees
    SuccessMeansServed
    AbsentTold
PROPERTIES
    CallReturns
