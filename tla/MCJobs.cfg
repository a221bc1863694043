CONSTANTS
    j1 = j1
    j2 = j2
    w1 = w1
    w2 = w2
    main = main
    t1 = t1
    Jobs = {j1, j2}
    Others = {ui}
    NoJob = NoJob
    MaxSeq = 4
    MaxFailures = 1
    MaxCrashes = 1
SPECIFICATION JobsSpec
CHECK_DEADLOCK FALSE
INVARIANTS
    NothingIsLost
PROPERTIES
    RecordIsDurable
    EventuallyDurable
    QueueIsUndecided
    AnswersArrive
