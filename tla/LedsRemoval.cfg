CONSTANTS
    LedCount = 3
    LedRegister <- MCLedRegister
    BatteryLeds = {2}
    PowerLed = 1
    Refresh = 2
    MaxInterval = 2
    Word = 8
    Delays = {0}
    MaxFaults = 1
SPECIFICATION Spec
INVARIANTS
    RemovedState
PROPERTIES
    BatteryKept
