CONSTANTS
    Players = {p1}
    Binders = {b1}
    Mode = "CALLBACK"
    Codecs = {"wav", "wv", "flac", "alac", "ape", "mpc"}
    Commands = {"pause", "resume"}
    Endings = {}
    NoOne = NoOne
    MaxPlays = 2
SPECIFICATION Spec
INVARIANT PauseHolds
PROPERTY WritesOnlyWhilePlaying
CHECK_DEADLOCK FALSE
