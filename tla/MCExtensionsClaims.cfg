SPECIFICATION Spec
CONSTANTS
    e1 = e1
    e2 = e2
    NoExt = NoExt
    Exts <- MCExts
    Kinds <- MCKinds
    Names = {"a", "b"}
    BadNames = {"b"}
    MaxFaults = 0
    Builtin = FALSE
    MaxRequests = 0
    MaxRestarts = 1
SYMMETRY MCSymmetry
CHECK_DEADLOCK FALSE

\* One claim at a time:
INVARIANT UninstallIsComplete
\* INVARIANT RefusedIsNotInstalled
