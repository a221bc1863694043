CONSTANTS
    Servers = {s1, s2}
    MaxClients = 4
    Jobs = {j1, j2}
    NoJob = none
    Callers = {k1, k2}
    Computers = {c1}
    Endpoints = {1, 2}
    MayRepoint = FALSE
    Requests = {q1, q2}
    Faults = {"answer"}
    MaxLogins = 2
    MaxTokens = 2
    ShadowAgents = {a1}
    MaxTurns = 2
    MaxHappenings = 3
    MaxEvidence = 2
    MaxGates = 1
    Settings = {"key", "trust", "hook", "newer"}
    Known = {"key", "trust", "hook"}
    Optional = {"key", "hook"}
    InArray = {"hook"}
    Values = {"set"}
    Flags = {}
    Misreads = TRUE
    Slugs = {p1}
    Keys = {k1, k2}
    MaxConfigured = 1
    MaxPrompts = 2
    MaxSubmits = 2
    MaxLists = 2
    Names = {a1}
    Sessions = {p1}
    Contents <- SkillFiles
    Embedded <- Hidden
    Published <- PlainSkills
    Commands = {}
    Calls = {1, 2}
    MaxParallel = 2
    MaxIterations = 5
    ConfigWindow = 3
    ConfigThreshold = 1
    p1 = p1
    none = none
SPECIFICATION FrontSpec
CHECK_DEADLOCK FALSE
INVARIANTS
    ServersAreOwned
    
    
    StoppedWhenStuck
PROPERTIES
    
    
    OnlyWhatWasAgreed
    StatusIsTheShells
    OthersSettingsStay
    OnlyTheAskedKey
