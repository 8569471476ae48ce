SPECIFICATION WaitsSpec
CONSTANTS
    Procs = {p0, p1, p2}
    Root = p0
    Platforms = {"linux", "other"}
    MaxRounds = 3
    MaxInterrupts = 2
    HelperMayDie = TRUE
    SetUid = {p1}
    JobProcs = {q0, q1, q2, q3}
    JobRoot = q0
    NCalls = 2
    MaxForeign = 1
    NThreads = 3
    MaxCalls = 1
INVARIANTS
    ResultMeansTreeGone
    TimeoutKillsTree
    JobHoldsTheTree
    ChildIsAccountedFor
    WhatRunsIsNew
PROPERTIES
    RefusedOnlyIfItMoved
    OneRunspaceServesAll
    EveryCallReturns
CHECK_DEADLOCK FALSE
