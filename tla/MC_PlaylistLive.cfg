CONSTANTS
    user = user
    Threads = {t1, t2}
    Clients = {user}
    Does <- Everything
    Kinds = {"native"}
    Sheets = {FALSE, TRUE}
    Len = 2
    NoThread = NoThread
    TracksEnd = TRUE
    MaySlip = {"thread", "timer"}
    MaxCommands = 2
SPECIFICATION FairSpec
PROPERTY ThreadsEnd
CHECK_DEADLOCK FALSE
