CONSTANTS
    Procs = {p0, p1, p2}
    Root = p0
    Platforms = {"linux"}
    MaxRounds = 3
    MaxInterrupts = 1
    HelperMayDie = FALSE
    SetUid = {}
SYMMETRY Symmetric
SPECIFICATION Spec
INVARIANT AbortKillsTree
CHECK_DEADLOCK FALSE
