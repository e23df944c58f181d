SPECIFICATION Spec
CONSTANTS
    a1 = a1
    a2 = a2
    h1 = h1
    None = None
    Autos = {a1, a2}
    Offered <- MCOffered
    Handlers = {h1}
    MaxRuns = 2
    MaxOps = 3
    MaxEnds = 1
    MaxFaults = 1
INVARIANT RunningIsTrue
PROPERTY DueIsServed
CHECK_DEADLOCK FALSE
