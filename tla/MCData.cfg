CONSTANTS
    s1 = s1
    Sessions = {s1, s2, s3}
    Computers = {c1}
    NoSession = none
    MaxMessages = 2
    Faults = {"append", "replace", "migrate", "delete", "cleanup"}
    Runes <- ShortRunes
    MaxRunes = 4
    ExcerptLimit = 4
    markerReserve = 1
    lineWindow = 1
    Budget = 1
    PageLimits = {3, 4}
    MaxSpills = 2
    Accounts = {a1, a2}
    Procs = {p1, p2}
    Models = {m1, m2}
    MaxTokens = 2
    Names = {n1, n2}
    MaxReplies = 2
    MaxCalls = 2
SPECIFICATION DataSpec
CHECK_DEADLOCK FALSE
INVARIANTS
    
    NothingIsOmitted
    PricedOnce
    ResultsReachTheirCalls

    
