CONSTANTS
    Jobs = {j1, j2}
    Users = {ui}
    MaxConcurrent = 1
    MaxTotal = 2
    MaxCancels = 1
    MayShutDown = TRUE
    MaxFailures = 1
    MaxCrashes = 1
SYMMETRY JobSymmetry
CONSTRAINT OneFault
SPECIFICATION Spec
CHECK_DEADLOCK FALSE
INVARIANTS
    TypeOK
    StopIsRecorded
    AbandonedMeansAppExit
    WorkIsBounded
    ActiveCanBeStopped
    StopsAreKept
    
PROPERTIES
    TerminalIsFinal
