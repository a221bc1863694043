CONSTANTS
    NoJob = NoJob
    Jobs = {j1, j2}
    Others = {ui, tool}
    MaxSeq = 4
    MaxFailures = 0
    MaxCrashes = 1
SPECIFICATION Spec
CHECK_DEADLOCK FALSE
PROPERTIES
    LineageSurvives
