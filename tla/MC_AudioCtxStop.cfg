CONSTANTS
    Players = {p1}
    Binders = {b1, b2}
    Mode = "CALLBACK"
    Codecs = {"wv", "flac"}
    Commands = {"stop"}
    Endings = {"end"}
    NoOne = NoOne
    MaxPlays = 2
SPECIFICATION CalmSpec
PROPERTIES
    StoppedPlayIsSilent
    ClosedOnce
CHECK_DEADLOCK FALSE
