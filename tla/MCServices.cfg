CONSTANTS
    MaxCalls = 2
    Main = main
    Jobs = {j1, j2}
    Files = {f}
    MaxEdits = 3
    Sessions = {s1}
    MaxRuntimes = 2
    MaxPrompts = 2
SPECIFICATION ServicesSpec
CHECK_DEADLOCK FALSE
INVARIANT CallsAreAnswered
PROPERTIES
    UndoStackIsHonest
    
