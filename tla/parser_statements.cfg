SPECIFICATION Spec
CONSTANTS
    NoRoot = NoRoot
    MaxSessions = 2
    MaxDepth = 4
    Plain = {"select", "drop", "x", "semi", "comment", "note"}
    Calls = {"m", "twice", "self", "deep", "open", "lost", "unknown", "inside"}
    Passes = {"same", "both", "outside", "apply"}
    MaxWords = 5
    MaxUnits = 3
    Names <- MC_Names
    Body <- MC_Body
    Sources <- MC_Sources
INVARIANTS
    LayersMatchFrames
    RecursionIsReal
PROPERTIES
    NextReturns
    ImplementsStream
CHECK_DEADLOCK FALSE
