CONSTANTS
    Runners = {r1, r2, r3}
    NFiles = 2
    Cleaners = {r1}
    MaxAttempts = 1
    MaxDeaths = 1
    Signals = {"kill"}
    TrapOnSignal = FALSE
    IOFailures = TRUE
SPECIFICATION FairSpec
INVARIANT OneExtractor
PROPERTIES EveryStartEnds ImplementsCleanService
CHECK_DEADLOCK FALSE
