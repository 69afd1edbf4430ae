CONSTANTS
    BufSize = 4
    WriteSizes = {1, 2, 3}
    AskSizes = {1, 3}
    Spurious = {"wwait"}
    MaxBytes = 7
    MaxStarts = 3
SPECIFICATION FairSpec
INVARIANTS
    TypeOK
    RingHoldsUnplayed
    WaitIsServed
PROPERTIES
    DrainIsComplete
    ImplementsStream
    WriteEnds
    DrainEnds
CHECK_DEADLOCK FALSE
