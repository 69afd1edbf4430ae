CONSTANTS
    Players = {p1}
    Binders = {b1, b2}
    Mode = "DIRECT"
    Codecs = {"wav", "wv", "flac", "alac", "ape", "mpc"}
    Commands = {"stop", "pause", "resume", "volume"}
    Endings = {"end", "error"}
    NoOne = NoOne
    MaxPlays = 1
SPECIFICATION FairSpec
PROPERTY StopEndsPlay
CHECK_DEADLOCK FALSE
