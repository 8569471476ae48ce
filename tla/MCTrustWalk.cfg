SPECIFICATION FairSpec
CONSTANTS
    Dirs = {"root", "a", "b"}
    Files = {"g", "h", "lock"}
    Links = {"l", "m"}
    Root = "root"
    LockFiles = {"lock"}
    Names = {"x", "y", "z"}
    Layouts <- MCLayouts
    Paths <- MCPaths
    MaxHops = 2
    MaxTarget = 4
    MaxOdd = 1
INVARIANTS
    AcceptedIsRootsOwn
    RefusedForAReason
PROPERTY JudgementEnds
CHECK_DEADLOCK FALSE
