SPECIFICATION OutboxFairSpec
CONSTANTS
    MaxRecords = 4
    Unhandled = {3}
    RunsWorker = TRUE
    BatchLimit = 2
    RetryLimit = 2
    MaxRetries = 2
    MaxFailures = 3
    MaxFaults = 1
    MaxRestarts = 1
INVARIANTS NoneSkipped
PROPERTIES RetryWaits AtLeastOnce
CHECK_DEADLOCK FALSE
