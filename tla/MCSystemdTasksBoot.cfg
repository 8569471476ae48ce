CONSTANTS
    MaxRegistrations = 2
    MaxReboots = 1
    MayFail = {"reload"}
    TornWrites = FALSE
SPECIFICATION Spec
INVARIANT BootTimerNotStarted
CHECK_DEADLOCK FALSE
