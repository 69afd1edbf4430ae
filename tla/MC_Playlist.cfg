CONSTANTS
    user = user
    Threads = {t1, t2}
    Clients = {user}
    Does <- Everything
    Kinds = {"native", "m4a"}
    Sheets = {FALSE, TRUE}
    Len = 3
    NoThread = NoThread
    TracksEnd = TRUE
    MaySlip = {}
    MaxCommands = 3
SPECIFICATION Spec
INVARIANTS
    TypeOK
    Owned
    ShownIsPlayed
    StopIsSilent
    PausedIsKept
PROPERTIES
    InOrder
    ThreadsSurvive
    UsesNative
CHECK_DEADLOCK FALSE
SYMMETRY Alike
