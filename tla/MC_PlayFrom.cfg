CONSTANTS
    FileLen = 7
    Block = 2
    SampleSize = 1
    Overhead = 1
    Near = 2
    Rate = 1
    NoFrame = NoFrame
    MaxFrames = 3
    MaxFakes = 1
    Numbers = {0, 3}
    BlocksPerFrame = 5
    BlocksPerLoop = 2
    ApeRate = 1
    MaxApeFrames = 3
    MaxRuns = 2
    Counts = {1, 2}
    Durations = {1, 3}
    ByteSizes = {1, 2}
    MaxChunks = 3
    WvLen = 12
    WvBlock = 2
    WvHead = 1
    WvRate = 1
    Rounds = 5
    MaxBlocks = 4
    NoIndex = NoIndex
    items = 3
    MaxTime = 4
    MaxClicks = 2
    Half = 3
    Off = Off
    NoPlace = NoPlace
SPECIFICATION Spec
INVARIANTS FlacTypeOK Brackets GivesUpLost ApeIsNear AlacOffset AlacOnTime ShownIsHeard BookIsHeard LengthIsShown
PROPERTIES SearchEnds RoundsShrink WvInFile ComesBack
CHECK_DEADLOCK FALSE
