SPECIFICATION Spec
CONSTANTS
    WebTurns = {}
    ChannelTurns = {c1}
    ForeignKeys = FALSE
    MaxRounds = 2
    MaxDeletes = 0
    MaxEnds = 0
PROPERTY AllTurnsEnd
CHECK_DEADLOCK FALSE
