------------------------------ MODULE MCWaits -------------------------------
(***************************************************************************)
(* The calls that wait for somebody else: for a process tree (ProcessTree, *)
(* JobTree), for a child process (Bounded), for a service (ServiceControl) *)
(* and for a pipeline another thread may be running (Hosted).              *)
(*                                                                         *)
(* A behaviour is one of a single component, the one `which` names.  The   *)
(* components other than ProcessTree take their variables from a pool; the *)
(* variables a behaviour does not need keep their first value.             *)
(***************************************************************************)
EXTENDS ProcessTree

CONSTANTS
    JobProcs, JobRoot,      \* a Windows tree and its program
    NCalls, MaxForeign,     \* callers of a service, controls of others
    NThreads, MaxCalls      \* threads that use PowerShell, calls of each

VARIABLES
    which,
    x1, x2, x3, x4, x5, x6, x7, x8, x9, x10, x11, x12, x13, x14, x15

tail15 == <<x11, x12, x13, x14, x15>>
pool   == <<x1, x2, x3, x4, x5, x6, x7, x8, x9, x10, tail15>>
all    == <<which, vars, pool>>

J == INSTANCE JobTree WITH
        Procs <- JobProcs, Root <- JobRoot,
        MayInterrupt <- {"create", "resume", "wait", "kill"},
        proc <- x1, job <- x2, away <- x3, open <- x4, at <- x5, ending <- x6

B == INSTANCE Bounded WITH
        Platforms <- {"posix", "windows"}, MayInterrupt <- TRUE,
        platform <- x1, patient <- x2, daemonic <- x3, slow <- x4, child <- x5,
        message <- x6, pipe <- x7, writers <- x8, exitcode <- x9, killed <- x10,
        at <- x11, outcome <- x12

Verbs == <<"start", "stop", "stopnowait", "restart", "set_startup">>

S == INSTANCE ServiceControl WITH
        Calls <- 1..NCalls,
        Verbs <- {Verbs[i] : i \in 1..5},
        state <- x1, startType <- x2, instance <- x3, foreign <- x4, verb <- x5,
        half <- x6, at <- x7, late <- x8, moved <- x9, before <- x10

H == INSTANCE Hosted WITH
        Threads <- 1..NThreads, Probers <- {},
        installed <- x1, size <- x2, lock <- x3, ready <- x4, runspace <- x5,
        pool <- x6, opened <- x7, pc <- x8, made <- x9, shell <- x10,
        pipeline <- x11, timed <- x12, result <- x13, calls <- x14, last <- x15

ASSUME WaitsAssumption ==
    /\ NCalls \in Nat /\ NThreads \in Nat
    /\ J!JobAssumption /\ B!BoundedAssumption /\ S!ServiceAssumption /\ H!HostedAssumption

\* The process tree of a call nobody makes.
NoTree == Init /\ platform = "linux"

WaitsInit ==
    \/ /\ which = "tree" /\ Init
       /\ x1 = 0 /\ x2 = 0 /\ x3 = 0 /\ x4 = 0 /\ x5 = 0 /\ x6 = 0 /\ x7 = 0 /\ x8 = 0
       /\ x9 = 0 /\ x10 = 0 /\ x11 = 0 /\ x12 = 0 /\ x13 = 0 /\ x14 = 0 /\ x15 = 0
    \/ /\ which = "job" /\ NoTree /\ J!Init
       /\ x7 = 0 /\ x8 = 0 /\ x9 = 0 /\ x10 = 0 /\ x11 = 0 /\ x12 = 0 /\ x13 = 0
       /\ x14 = 0 /\ x15 = 0
    \/ /\ which = "bounded" /\ NoTree /\ B!Init /\ x13 = 0 /\ x14 = 0 /\ x15 = 0
    \/ /\ which = "service" /\ NoTree /\ S!Init
       \* The callers are alike: their verbs in one order suffice.
       /\ \E rank \in [1..NCalls -> 1..5] :
            /\ x5 = [c \in 1..NCalls |-> Verbs[rank[c]]]
            /\ \A c \in 2..NCalls : rank[c - 1] <= rank[c]
       /\ x11 = 0 /\ x12 = 0 /\ x13 = 0 /\ x14 = 0 /\ x15 = 0
    \/ /\ which = "hosted" /\ NoTree /\ H!Init

InTree    == which = "tree" /\ UNCHANGED <<which, pool>>
InJob     == which = "job" /\ UNCHANGED <<which, vars, x7, x8, x9, x10, tail15>>
InBounded == which = "bounded" /\ UNCHANGED <<which, vars, x13, x14, x15>>
InService == which = "service" /\ UNCHANGED <<which, vars, tail15>>
InHosted  == which = "hosted" /\ UNCHANGED <<which, vars>>

WaitsNext ==
    \/ InTree /\ Next
    \/ InJob /\ J!Next
    \/ InBounded /\ B!Next
    \/ InService /\ S!Next
    \/ InHosted /\ H!Next

\* The fairness of each component's own specification.  `which` never changes,
\* so that fairness of one of these steps is fairness of each of its parts.
Fair(i) ==
    \/ InTree /\ CASE i = 1 -> HelperStep [] i = 2 -> CallerStep [] i = 3 -> Terminate
                   [] i = 4 -> Deadline [] OTHER -> FALSE
    \/ InBounded /\ CASE i = 1 -> B!CallerStep [] i = 2 -> B!ChildStep
                      [] i = 3 -> B!ChildIsKilled [] i = 4 -> B!TimeOut [] OTHER -> FALSE
    \/ InService /\ i \in 1..NCalls /\ S!CallStep(i)
    \/ InService /\ i - NCalls \in 1..NCalls /\ S!DeadlinePasses(i - NCalls)
    \/ InHosted /\ i \in 1..NThreads /\ H!Step(i)

Parts == 1..4 \cup 1..2 * NCalls \cup 1..NThreads

WaitsSpec ==
    /\ WaitsInit /\ [][WaitsNext]_all
    /\ \A i \in Parts : WF_all(Fair(i))

-----------------------------------------------------------------------------
\* Windows, wait_tree=True: a result means that every process of the tree has
\* exited by itself, and however else the call ends (a start that failed half
\* way, a failed query, a timeout, Ctrl-C) none is left, suspended or running,
\* so none was ever in the tree and not in the job.  Ctrl-C between the start and
\* the assignment (process_tree_windows.py:117-121), which no handler there
\* catches, is outside the claim: MayInterrupt leaves it out.
JobHoldsTheTree == which = "job" => J!ResultMeansJobGone /\ J!NothingLeftBehind

\* run_bounded accounts for its child: "exited without a result" is never said
\* when its message is in the pipe, the exit code named is the child's own and
\* not that of the caller's kill, and however the call ends the child is
\* neither running nor a zombie.
ChildIsAccountedFor ==
    which = "bounded" => B!NoMessageIsLost /\ B!ExitCodeIsItsOwn /\ B!NoChildLeft

\* A stop or restart that returned has ended the instance it found, whoever
\* else started or stopped the service meanwhile: what runs then is newer.
WhatRunsIsNew == which = "service" => S!RestartRenews /\ S!OldInstanceIsGone

\* A service controller sends a control into a pending state only because the
\* service moved after its last look at it.
RefusedOnlyIfItMoved == [][which = "service" => S!RefusedForItMoved]_all

\* All calls of the hosted PowerShell are served by one runspace, one pipeline
\* at a time (a pool serves as many as it is large), so that
\* $global: state persists, although threads race for the first start.
OneRunspaceServesAll == [][which = "hosted" => H!SameRunspace /\ H!OnePipelineAtATime]_all

\* A call under way, by its number.
Waits(i) ==
    CASE which = "tree"    -> i = 1 /\ caller \notin CallerEnds
      [] which = "bounded" -> i = 1 /\ B!MustReturn /\ ~B!Returned
      [] which = "service" -> i \in 1..NCalls /\ ~S!Ended(i)
      [] which = "hosted"  -> i \in 1..NThreads /\ H!Busy(i)
      [] OTHER             -> FALSE

\* Every call comes back: a process tree's with a timeout however long the
\* tree lives, run_bounded's although the target hangs or the child dies before
\* it opens the pipe, a service verb's although the service never moves, a
\* hosted script's although threads queue for the lock and may time out.
EveryCallReturns == \A i \in Parts : Waits(i) ~> ~Waits(i)
=============================================================================
