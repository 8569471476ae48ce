SPECIFICATION RunnerSpec
CONSTANTS
    ArgVectors <- MCArgVectors
    CallerSets <- MCCallerSets
    OnPath = 2
    Fixed = 1
    PackTrees <- MCTrees
    PackEdits <- MCEdits
    PackEntry <- MCEntry
    MaxEdits = 1
    MaxRedirects = 2
    MaxChunks = 2
    TextChunks <- MCTextChunks
    SourceRecords <- MCSourceRecords
    MaxParts = 3
INVARIANTS
    RootRunsOnlyJudged
    UvSeesOwnSettings
    ScriptSeesCallers
    UnpackIsRootsOwn
    RequestSurvives
    PackIsComplete
    DownloadIsWholeOrGone
    PiecesDoNotShow
CHECK_DEADLOCK FALSE
