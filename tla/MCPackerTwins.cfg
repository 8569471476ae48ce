SPECIFICATION Spec
CONSTANTS
    Trees <- MCTwins
    Edits <- MCEdits
    Stdlib = {"os"}
    Entry <- MCEntry
    MaxEdits = 0
INVARIANT EmbedsWhatPythonLoads
CHECK_DEADLOCK FALSE
