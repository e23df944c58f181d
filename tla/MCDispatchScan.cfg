SPECIFICATION DispatchFairSpec
CONSTANTS
    t1 = t1
    t2 = t2
    a1 = a1
    a2 = a2
    NoAgent = NoAgent
    Tasks <- MCTasks
    Agents <- MCAgents
    SubTasks <- MCSubTasks
    Capable <- MCCapable
    ToxicityLimit = 2
    TypeColumn = FALSE
    MaxAgents = 1
    PushCap = 1
PROPERTY TasksEnd
CHECK_DEADLOCK FALSE
