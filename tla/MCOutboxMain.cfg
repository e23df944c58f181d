SPECIFICATION OutboxFairSpec
CONSTANTS
    MaxRecords = 2
    Unhandled = {}
    RunsWorker = FALSE
    BatchLimit = 2
    RetryLimit = 1
    MaxRetries = 2
    MaxFailures = 1
    MaxFaults = 0
    MaxRestarts = 0
PROPERTIES EachIsDelivered
CHECK_DEADLOCK FALSE
