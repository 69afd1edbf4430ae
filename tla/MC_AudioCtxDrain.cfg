CONSTANTS
    Players = {p1}
    Binders = {b1}
    Mode = "CALLBACK"
    Codecs = {"flac"}
    Commands = {"stop"}
    Endings = {"end"}
    NoOne = NoOne
    MaxPlays = 1
SPECIFICATION FairSpec
PROPERTY StopEndsPlay
CHECK_DEADLOCK FALSE
