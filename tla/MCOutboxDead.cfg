SPECIFICATION OutboxSpec
CONSTANTS
    MaxRecords = 2
    Unhandled = {}
    RunsWorker = TRUE
    BatchLimit = 2
    RetryLimit = 2
    MaxRetries = 2
    MaxFailures = 3
    MaxFaults = 0
    MaxRestarts = 0
INVARIANTS DeadAfterMaxRetries
CHECK_DEADLOCK FALSE
