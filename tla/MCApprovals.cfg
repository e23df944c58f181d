SPECIFICATION Spec
CONSTANTS
    a1 = a1
    i1 = i1
    i2 = i2
    Package = Package
    h1 = h1
    h2 = h2
    None = None
    Actions = {a1}
    Installs = {i1, i2}
    Humans = {h1, h2}
    MaxAttempts = 2
    MaxAnswers = 2
    MaxEnds = 1
INVARIANT RunsApproved WaitersAreInside SendIsFree
CHECK_DEADLOCK FALSE
