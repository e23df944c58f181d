SPECIFICATION Spec
CONSTANTS
    a1 = a1
    a2 = a2
    h1 = h1
    None = None
    Autos = {a1, a2}
    Offered <- MCOffered
    Handlers = {h1}
    MaxRuns = 2
    MaxOps = 3
    MaxEnds = 1
    MaxFaults = 1
CHECK_DEADLOCK FALSE

\* One claim at a time:
PROPERTY CronOnSchedule
\* INVARIANT EndIsRecorded
