CONSTANTS
    j1 = j1
    j2 = j2
    ui = ui
    Steps <- TwoSteps
    MaxAgents = 4
    TokenBudget = 3
    JobTokens = 1
    MaxCancels = 1
SPECIFICATION RunsSpec
CHECK_DEADLOCK FALSE
PROPERTIES
    StoppedJobsEnd
    RunKeepsItsPromises
    RunEndsWithinCap
