CONSTANTS
    Clients = {c1, c2, c3}
    NoClient = NoClient
    FaultKinds = {"lost"}
    MaxFaults = 2
    MaxRaw = 0
SPECIFICATION Spec
PROPERTIES
    ChannelSpec
