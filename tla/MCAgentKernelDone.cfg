SPECIFICATION Spec
CONSTANTS
    MaxReplan = 3
    MaxSteps = 10
    ChCap = 3
    Watchdog = FALSE
    MaxTasks = 2
    MaxInterrupts = 2
INVARIANTS DoneMeansComplete
CHECK_DEADLOCK FALSE
