SPECIFICATION Spec
CONSTANTS
    WebTurns = {w1, w2}
    ChannelTurns = {c1}
    ForeignKeys = FALSE
    MaxRounds = 2
    MaxDeletes = 1
    MaxEnds = 1
INVARIANT OnceInOrder
PROPERTY TurnsEnd
CHECK_DEADLOCK FALSE
