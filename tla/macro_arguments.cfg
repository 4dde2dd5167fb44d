SPECIFICATION Spec
CONSTANTS
    NoRoot = NoRoot
    MaxSessions = 1
    MaxDepth = 4
    Plain = {"select", "drop", "x", "semi", "comment", "note"}
    Calls = {"m", "twice", "self", "deep", "open", "lost", "unknown", "inside"}
    Passes = {"same", "both", "outside", "apply"}
    MaxWords = 5
    MaxUnits = 3
    Names <- MC_Names
    Body <- MC_Body
    Sources <- MC_Threefold
INVARIANT
    RecursionIsReal
CHECK_DEADLOCK FALSE
