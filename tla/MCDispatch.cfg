SPECIFICATION PatternFairSpec
CONSTANTS
    t1 = t1
    t2 = t2
    a1 = a1
    a2 = a2
    NoAgent = NoAgent
    Tasks <- MCTasks
    Agents <- MCAgents
    SubTasks <- MCSubTasks
    Capable <- MCCapable
    ToxicityLimit = 2
    TypeColumn = TRUE
    MaxAgents = 1
    PushCap = 1
INVARIANTS PatternSound StraysCounted
PROPERTY PatternReturns
CHECK_DEADLOCK FALSE
