SPECIFICATION Spec
CONSTANTS
    Threads = {a, b}
    Probers = {p}
    MaxCalls = 1
PROPERTY OneRunspaceServesAll
CHECK_DEADLOCK FALSE
