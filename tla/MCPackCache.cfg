CONSTANTS
    Runners = {r1, r2, r3}
    NFiles = 3
    Cleaners = {}
    MaxAttempts = 2
    MaxDeaths = 2
    Signals = {"term", "kill"}
    TrapOnSignal = TRUE
    IOFailures = TRUE
SYMMETRY Symmetric
SPECIFICATION Spec
INVARIANTS RunsOnVerifiedTree NoLockLeftBehind
PROPERTY ImplementsService
CHECK_DEADLOCK FALSE
