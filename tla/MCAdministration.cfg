SPECIFICATION AdminSpec
CONSTANTS
    MaxRegistrations = 2
    MaxReboots = 1
    MayFail = {"stoptimer", "disable", "rmtimer", "writesvc", "writetimer", "reload", "enable", "starttimer", "stopsvc", "rmsvc", "startsvc"}
    TornWrites = TRUE
    AskedFor <- MCRequests
    LookedAt <- MCMoments
    MaxEdits = 2
    Services = {"u"}
INVARIANTS
    QuietStaysQuiet
    ReadsTellTheTruth
    GetsWhatItAsked
    ReadBackIsTrue
    VerbWasDone
    ListsEveryService
    NeverOpenUnsaid
    ReportIsTrue
PROPERTIES
    RegisterMakesTask
    UnregisterLeavesNothing
    ForeignUnitsStay
CHECK_DEADLOCK FALSE
