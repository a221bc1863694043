CONSTANTS
    Main = main
    Agents = {job1}
    Tools = {t1}
    MaxPrompts = 2
    MaxChanges = 1
SPECIFICATION Spec
CHECK_DEADLOCK FALSE
INVARIANTS
    RememberedReachedCaller
