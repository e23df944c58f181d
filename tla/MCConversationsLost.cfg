SPECIFICATION Spec
CONSTANTS
    WebTurns = {w1, w2}
    ChannelTurns = {}
    ForeignKeys = TRUE
    MaxRounds = 2
    MaxDeletes = 0
    MaxEnds = 0
PROPERTY ReplacesWhatItRead
CHECK_DEADLOCK FALSE
