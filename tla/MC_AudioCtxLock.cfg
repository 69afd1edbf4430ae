CONSTANTS
    Players = {p1, p2}
    Binders = {b1}
    Mode = "CALLBACK"
    Codecs = {"wav", "mpc", "alac"}
    Commands = {"stop"}
    Endings = {"end", "error"}
    NoOne = NoOne
    MaxPlays = 2
SPECIFICATION Spec
INVARIANTS
    TypeOK
    SectionsAreOwned
    AtRestStopped
CHECK_DEADLOCK FALSE
