SPECIFICATION Spec
CONSTANTS
    Calls <- MCCalls
    MaxRecords = 2
    MaxRows = 1
    ProgramCodes = {0, 1, 2, 70, 77, 78}
INVARIANTS
    SuccessIsComplete
    BrokenConfigStopsOnlyItsReaders
    RunsOnce
    NothingLeftBehind
CHECK_DEADLOCK FALSE
