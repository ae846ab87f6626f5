CONSTANTS
    Clients = {c1, c2}
    NoClient = NoClient
    Addresses = {a1, a2}
    Firmware = Firmware
    Loader = Loader
    NoArg = NoArg
    FaultKinds = {"lost"}
    MaxFaults = 1
    MaxRaw = 0
SPECIFICATION FairSpec
PROPERTIES
    DeviceSpec
    IoctlReturns
