SPECIFICATION Spec
CONSTANTS
    t1 = t1
    a1 = a1
    a2 = a2
    e1 = e1
    e2 = e2
    Tasks = {t1}
    Agents = {a1, a2}
    Execs = {e1, e2}
    NoAgent = NoAgent
    NoTask = NoTask
    NoExec = NoExec
    ToxicityLimit = 2
    SubCap = 1
    MaxVersion = 3
    MaxRestarts = 1
PROPERTIES EvictsOnlyExpired
CHECK_DEADLOCK FALSE
