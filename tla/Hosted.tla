------------------------------- MODULE Hosted -------------------------------
(***************************************************************************)
(* PowerShell hosted in the process (adapters/powershell/hosted.py).       *)
(* Threads share one module: a lock, the runspace or the pool, and whether *)
(* they are ready.  A call with a timeout runs its pipeline on a worker    *)
(* thread and stops it when the time is up.                                *)
(***************************************************************************)
EXTENDS Naturals, FiniteSets

CONSTANTS Threads,      \* threads that call run, invoke or get_command
          Probers,      \* threads that call is_runtime_available
          MaxCalls      \* bound: calls of a thread in one burst

\* What the constants must be; assumed where they get their values.
HostedAssumption ==
    /\ IsFiniteSet(Threads) /\ IsFiniteSet(Probers) /\ Threads \cap Probers = {}
    /\ 0 \notin Threads \cup Probers       \* nobody
    /\ MaxCalls \in Nat \ {0}

VARIABLES
    installed,        \* what the machine has: nothing, extra, sdk, runtime
    size,             \* PWSHPY_RUNSPACE_POOL_SIZE
    lock,             \* who holds _lock: a thread or nobody
    ready,            \* _ready
    runspace, pool,   \* the hosts the globals name, 0: None
    opened,           \* how many hosts were opened
    pc, made,         \* per thread: where it is, the host it opened and holds
    shell,            \* per thread: the host its shell is bound to
    pipeline,         \* per thread: its pipeline: none, running, ended, failed
    timed,            \* per thread: its call has a timeout
    result,           \* per thread: what its call came to
    calls, last       \* per thread: calls made; ghost: the host that served last

shared == <<installed, size, ready, runspace, pool, opened>>
vars == <<shared, lock, pc, made, shell, pipeline, timed, result, calls, last>>

All == Threads \cup Probers
nobody == 0

HostTypes ==
    /\ installed \in {"nothing", "extra", "sdk", "runtime"} /\ size \in 0..2
    /\ lock \in All \cup {nobody}
    /\ ready \in BOOLEAN
    /\ opened \in Nat
    /\ runspace \in 0..opened /\ pool \in 0..opened /\ last \in 0..opened
    /\ made \in [All -> 0..opened] /\ shell \in [All -> 0..opened]

CallTypes ==
    /\ pc \in [All -> {"idle", "ensure", "init", "open", "publish", "enter", "shell",
                       "invoke", "stop"}]
    /\ pipeline \in [All -> {"none", "running", "ended", "failed"}]
    /\ timed \in [All -> BOOLEAN]
    /\ result \in [All -> {"none", "ok", "unavailable", "error", "timeout", "true", "false"}]
    /\ calls \in [All -> 0..MaxCalls]

TypeOK == HostTypes /\ CallTypes

Init ==
    /\ installed \in {"nothing", "extra", "sdk", "runtime"} /\ size \in 0..2
    /\ lock = nobody /\ ready = FALSE /\ runspace = 0 /\ pool = 0 /\ opened = 0
    /\ pc = [t \in All |-> "idle"] /\ made = [t \in All |-> 0]
    /\ shell = [t \in All |-> 0] /\ pipeline = [t \in All |-> "none"]
    /\ timed = [t \in All |-> FALSE] /\ result = [t \in All |-> "none"]
    /\ calls = [t \in All |-> 0] /\ last = 0

At(t, p) == pc[t] = p
Goto(t, p) == pc' = [pc EXCEPT ![t] = p]

Return(t, r) ==
    /\ Goto(t, "idle")
    /\ result' = [result EXCEPT ![t] = r]

Begin(t, next, missing) ==
    /\ At(t, "idle") /\ calls[t] < MaxCalls
    /\ calls' = [calls EXCEPT ![t] = @ + 1]
    /\ IF installed = "nothing" THEN Return(t, missing) ELSE Goto(t, next) /\ UNCHANGED result
    /\ UNCHANGED <<shared, lock, made, shell, pipeline, last>>

\* _dispatch, for run, invoke and get_command.
Dispatch(t) ==
    /\ Begin(t, "ensure", "unavailable")
    /\ \E b \in BOOLEAN : timed' = [timed EXCEPT ![t] = b]

\* is_runtime_available goes to _init without the lock.
Probe(t) ==
    /\ Begin(t, "init", "false")
    /\ UNCHANGED timed

Acquire(t) ==
    /\ pc[t] \in {"ensure", "enter"} /\ lock = nobody
    /\ lock' = t
    /\ Goto(t, IF At(t, "ensure") THEN "init" ELSE "shell")
    /\ UNCHANGED <<shared, made, shell, pipeline, timed, result, calls, last>>

-----------------------------------------------------------------------------
(* _init, one-time, and what its callers do with its end. *)

Release(t) == lock' = IF lock = t THEN nobody ELSE lock

\* _ensure_ready returns into _dispatch, whose guard is no lock in pool mode.
Initialised(t) ==
    /\ IF t \in Probers THEN Return(t, "true")
       ELSE Goto(t, IF pool' # 0 THEN "shell" ELSE "enter") /\ UNCHANGED result
    /\ Release(t)

\* _init that does not look at _ready.
InitStartsAgain(t) ==
    /\ At(t, "init")
    /\ UNCHANGED <<shared, made, shell, pipeline, timed, calls, last>>
    /\ IF installed # "runtime"
       THEN Return(t, IF t \in Probers THEN "false" ELSE "unavailable") /\ Release(t)
       ELSE Goto(t, "open") /\ UNCHANGED <<lock, result>>

InitStarts(t) ==
    /\ At(t, "init")
    /\ UNCHANGED <<shared, made, shell, pipeline, timed, calls, last>>
    /\ IF ready THEN Initialised(t)
       ELSE IF installed # "runtime"
            THEN Return(t, IF t \in Probers THEN "false" ELSE "unavailable") /\ Release(t)
            ELSE Goto(t, "open") /\ UNCHANGED <<lock, result>>

\* Creating and opening the host, which may fail, is one .NET call after the
\* other: other threads run meanwhile.
Open(t) ==
    /\ At(t, "open")
    /\ opened' = opened + 1
    /\ made' = [made EXCEPT ![t] = opened + 1]
    /\ Goto(t, "publish")
    /\ UNCHANGED <<installed, size, ready, runspace, pool, lock, shell, pipeline, timed, result, calls, last>>

OpenFails(t) ==
    /\ At(t, "open")
    /\ Return(t, "error") /\ Release(t)
    /\ UNCHANGED <<shared, made, shell, pipeline, timed, calls, last>>

Publish(t) ==
    /\ At(t, "publish")
    /\ IF size > 1 THEN pool' = made[t] /\ UNCHANGED runspace
       ELSE runspace' = made[t] /\ UNCHANGED pool
    /\ ready' = TRUE
    /\ made' = [made EXCEPT ![t] = 0]
    /\ Initialised(t)
    /\ UNCHANGED <<installed, size, opened, shell, pipeline, timed, calls, last>>

-----------------------------------------------------------------------------
(* The rest of _dispatch. *)

\* _new_shell and Invoke.  A pool serves no more than size pipelines.
NewShell(t) ==
    /\ At(t, "shell")
    /\ shell' = [shell EXCEPT ![t] = IF pool # 0 THEN pool ELSE runspace]
    /\ pool # 0 => Cardinality({u \in All : pipeline[u] = "running"}) < size
    /\ pipeline' = [pipeline EXCEPT ![t] = "running"]
    /\ last' = shell'[t]
    /\ Goto(t, "invoke")
    /\ UNCHANGED <<shared, lock, made, timed, result, calls>>

\* The pipeline runs to its end or raises.
PipelineEnds(t) ==
    /\ pipeline[t] = "running"
    /\ \E p \in {"ended", "failed"} : pipeline' = [pipeline EXCEPT ![t] = p]
    /\ UNCHANGED <<shared, lock, pc, made, shell, timed, result, calls, last>>

\* worker.join(timeout) returned with the worker still alive.
TimesOut(t) ==
    /\ At(t, "invoke") /\ timed[t] /\ pipeline[t] = "running"
    /\ Goto(t, "stop")
    /\ UNCHANGED <<shared, lock, made, shell, pipeline, timed, result, calls, last>>

\* shell.Stop() and worker.join(5): Stop returns when the pipeline is over.
\* The finally block disposes the shell, then the lock is free.
Leave(t) ==
    /\ pc[t] \in {"invoke", "stop"} /\ pipeline[t] # "running"
    /\ Return(t, IF At(t, "stop") THEN "timeout"
                 ELSE IF pipeline[t] = "failed" THEN "error" ELSE "ok")
    /\ shell' = [shell EXCEPT ![t] = 0] /\ pipeline' = [pipeline EXCEPT ![t] = "none"]
    /\ timed' = [timed EXCEPT ![t] = FALSE]
    /\ Release(t)
    /\ UNCHANGED <<shared, made, calls, last>>

Step(t) ==
    \/ Acquire(t) \/ InitStarts(t) \/ Open(t) \/ OpenFails(t) \/ Publish(t)
    \/ NewShell(t) \/ PipelineEnds(t) \/ TimesOut(t) \/ Leave(t)

\* The program rests between two bursts of calls.
Rest ==
    /\ \A t \in All : At(t, "idle") /\ calls[t] = MaxCalls
    /\ calls' = [t \in All |-> 0] /\ result' = [t \in All |-> "none"]
    /\ UNCHANGED <<shared, lock, pc, made, shell, pipeline, timed, last>>

Next ==
    \/ \E t \in All : Step(t)
    \/ Rest
    \/ \E t \in Threads : Dispatch(t)
    \/ \E t \in Probers : Probe(t)

\* Threads run on, and a pipeline ends by itself or because it is stopped.
Spec == Init /\ [][Next]_vars /\ \A t \in All : WF_vars(Step(t))

-----------------------------------------------------------------------------

\* A runspace runs one pipeline at a time, and a pipeline runs only while
\* its call waits for it: no script goes on after its timeout was reported.
OnePipelineAtATime ==
    /\ \A t \in All : pipeline[t] # "none" => pc[t] \in {"invoke", "stop"}
    /\ pool = 0 => \A t, u \in All : shell[t] # 0 /\ shell[u] # 0 => t = u

\* A single shared runspace serves every call, so $global: state persists.
SameRunspace == size < 2 /\ last # 0 => last' = last

\* The same of a whole behaviour (hosted.py's module docstring).
OneRunspaceServesAll == [][SameRunspace]_vars

\* One-time start: who is in it holds the lock and finds nothing ready; once it
\* is over the globals name the one host that serves.
StartsOnce ==
    /\ \A t \in Threads :
         /\ pc[t] \in {"init", "open", "publish"} => lock = t
         /\ pc[t] \in {"open", "publish"} => ~ready
         /\ pc[t] = "publish" => made[t] # 0
         /\ pc[t] \in {"enter", "shell", "invoke", "stop"} => ready
    /\ ready => IF size > 1 THEN pool # 0 ELSE runspace # 0
    /\ size < 2 => pool = 0
    /\ ~ready => runspace = 0 /\ pool = 0
    /\ size < 2 => last \in {0, runspace}

\* A call that has a shell, or is about to, holds the lock unless a pool serves.
ServedUnderTheLock ==
    \A t \in Threads :
        /\ pc[t] \in {"shell", "invoke", "stop"} /\ pool = 0 => lock = t
        /\ shell[t] # 0 => pc[t] \in {"invoke", "stop"}

\* The inductive invariant of the proofs, of threads that run calls (a prober
\* goes to _init without the lock and breaks it).
HostedInv == TypeOK /\ StartsOnce /\ ServedUnderTheLock /\ OnePipelineAtATime

Busy(t) == pc[t] # "idle"

\* Every call that was made returns.
CallsReturn == \A t \in All : Busy(t) ~> ~Busy(t)
=============================================================================
