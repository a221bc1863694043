CONSTANTS
    MaxTotal = 2
    MaxConcurrent = 1
    MaxDepth = 2
    Writes = {FALSE}
    MaxTurns = 2
    MaxCollects = 1
    UserRules <- SessionRules
    GrantRules <- SkillRules
    MaxRules = 2
SPECIFICATION ConversationSpec
CHECK_DEADLOCK FALSE
INVARIANTS
    
    ChildrenAreAccountedFor
PROPERTIES
    RequestIsWellFormed
    NoPromptStranded
    
    JobsEnd
