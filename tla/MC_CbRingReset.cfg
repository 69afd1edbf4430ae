CONSTANTS
    BufSize = 4
    WriteSizes = {1, 3}
    AskSizes = {1, 3}
    Spurious = {}
    MaxBytes = 6
    MaxStarts = 2
SPECIFICATION Spec
PROPERTY AvailIsUnplayed
CHECK_DEADLOCK FALSE
