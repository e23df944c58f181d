SPECIFICATION Spec
CONSTANTS
    e1 = e1
    e2 = e2
    NoExt = NoExt
    Exts <- MCExts
    Kinds <- MCKinds
    Names = {"a", "b"}
    BadNames = {"b"}
    MaxFaults = 1
    Builtin = FALSE
    MaxRequests = 2
    MaxRestarts = 1
INVARIANT NoDanglingTool DownloaderAtWork EnabledIsServed
SYMMETRY MCSymmetry
CHECK_DEADLOCK FALSE
