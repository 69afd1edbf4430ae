CONSTANTS
    user = user
    Threads = {t1}
    Clients = {user}
    Does <- PhoneCalls
    Kinds = {"native"}
    Sheets = {TRUE}
    Len = 2
    NoThread = NoThread
    TracksEnd = TRUE
    MaySlip = {}
    MaxCommands = 3
SPECIFICATION Spec
INVARIANT CallSurvived
CHECK_DEADLOCK FALSE
