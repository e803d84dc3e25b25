SPECIFICATION Spec
CONSTANTS
    start = start
    stop = stop
    restart = restart
    reload = reload
    Starts <- OneStart
    Stops <- OneStop
    Restarts <- OneRestart
    Reloads <- OneReload
    Masters <- StartsAndRestart
    Workers = 1
    ForkMayFail = TRUE
CHECK_DEADLOCK FALSE
INVARIANTS
    OneMaster
    StopMeansStopped
    AddressFree
PROPERTY StopReturns
