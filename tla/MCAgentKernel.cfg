SPECIFICATION FairSpec
CONSTANTS
    MaxReplan = 3
    MaxSteps = 10
    ChCap = 3
    Watchdog = FALSE
    MaxTasks = 2
    MaxInterrupts = 2
INVARIANTS OneDriver ExecutesValidated ExecutionsBounded DriverHeard
PROPERTIES TaskEnds
CHECK_DEADLOCK FALSE
