CONSTANTS
    Players = {p1}
    Binders = {b1, b2}
    Mode = "CALLBACK"
    Codecs = {"wav", "wv", "alac", "ape", "mpc"}
    Commands = {"stop", "pause", "resume"}
    Endings = {"end", "error"}
    NoOne = NoOne
    MaxPlays = 2
SPECIFICATION CalmSpec
INVARIANT EndedPlayClosed
PROPERTIES NoFdMeansStopped ImplementsNative
CHECK_DEADLOCK FALSE
