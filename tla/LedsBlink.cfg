CONSTANTS
    LedCount = 2
    LedRegister <- MCLedRegister
    BatteryLeds = {}
    PowerLed = 1
    Refresh = 2
    MaxInterval = 2
    Word = 8
    Delays = {0, 6, 7}
    MaxFaults = 1
SPECIFICATION FairSpec
INVARIANTS
    TypeOK
    RegisterFollows
    IconInverted
PROPERTIES
    BlinkAccepted
    Blinks
