CONSTANTS
    j1 = j1
    j2 = j2
    ui = ui
    Steps <- TwoSteps
    MaxAgents = 6
    TokenBudget = 0
    JobTokens = 0
    MaxCancels = 0
SPECIFICATION RunsSpec
CHECK_DEADLOCK FALSE
PROPERTIES
    RetryFollowsVerdict
