SPECIFICATION Spec
CONSTANTS
    start = start
    stop = stop
    restart = restart
    reload = reload
    Starts <- OneStart
    Stops <- OneStop
    Restarts <- None
    Reloads <- OneReload
    Masters <- OneStart
    Workers = 2
    ForkMayFail = TRUE
CHECK_DEADLOCK FALSE
INVARIANTS
    PausedHasWorkers
PROPERTY ReloadServes
