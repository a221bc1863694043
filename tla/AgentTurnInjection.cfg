CONSTANTS
    MaxMessages = 7
    maxToolIterations = 2
    Keep = 2
    MaxPrompts = 2
    MaxInjections = 1
    MaxCancels = 0
    MaxFaults = 0
SPECIFICATION Spec
CHECK_DEADLOCK FALSE
PROPERTIES
    HandledCallsAreVisible
