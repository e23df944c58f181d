SPECIFICATION FairSpec
CONSTANTS
    group = group
    batch = batch
    buffer = buffer
    k = k
    e = e
    f = f
    t = t
    Callers = {group, batch, buffer}
    Program <- MCProgram
    Composite = {group}
    Keys = {k, e, f}
    Tasks = {t}
    NoTask = NoTask
    NoEvent = NoEvent
    Nil = Nil
    ChCap = 2
    PriorityCap = 1
    MaxBatchSize = 2
INVARIANTS AnswersTrue HashChain OneWinner SubmissionOrder
PROPERTIES LogRefinement Answered
CHECK_DEADLOCK FALSE
