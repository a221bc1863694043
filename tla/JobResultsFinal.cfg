CONSTANTS
    NoJob = NoJob
    Jobs = {j1, j2}
    Waiters = {w1, w2}
    MaxWaits = 2
SPECIFICATION Spec
CHECK_DEADLOCK FALSE
PROPERTIES
    FinalDecisionStands
