CONSTANTS
    IrqCount = 2
    ErrorIrqs <- MCErrorIrqs
    ErrBit = ErrBit
    NoIrq = NoIrq
    WakeIrqs <- MCWakeIrqs
    MaxFaults = 1
SPECIFICATION FairSpec
INVARIANTS
    TypeOK
    IeMatchesMasks
    LineNeverStuck
    NoLostEvent
    WakeBalanced
    UpWithoutStale
PROPERTIES
    EventsHandled
