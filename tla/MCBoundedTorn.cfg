CONSTANTS
    Platforms = {"posix"}
    MayInterrupt = FALSE
SPECIFICATION Spec
INVARIANT FailureIsTyped
CHECK_DEADLOCK FALSE
