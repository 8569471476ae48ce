------------------------------ MODULE JobTree -------------------------------
(***************************************************************************)
(* exec(wait_tree=True) on Windows: run_process_tree driving a             *)
(* WindowsJobTree.  The program is created suspended, assigned to a job    *)
(* object and only then resumed, so that nothing it starts can be outside  *)
(* the job; closing the job's handle kills what is still in it.            *)
(***************************************************************************)
EXTENDS Naturals

CONSTANTS
    Procs,          \* the processes the tree can consist of
    Root,           \* the program itself
    MayInterrupt    \* states of the call in which Ctrl-C can hit it

Launching == {"create", "assign", "resume"}
Ends      == {"result", "error", "timeout", "aborted"}

\* What the constants must be; assumed where they get their values.
JobAssumption ==
    /\ Root \in Procs
    /\ MayInterrupt \subseteq Launching \cup {"wait", "kill"}

VARIABLES
    proc,           \* state of each process
    job,            \* the members of the job object
    away,           \* processes outside the tree: CREATE_BREAKAWAY_FROM_JOB
    open,           \* the job's handle is open
    at,             \* where run_process_tree is
    ending          \* how the call will end once close() has run

vars == <<proc, job, away, open, at, ending>>

\* Types; the job's handle is closed by the time the call ends.
TypeOK ==
    /\ proc \in [Procs -> {"none", "suspended", "alive", "gone"}]
    /\ job \subseteq Procs
    /\ away \subseteq Procs
    /\ open \in BOOLEAN
    /\ at \in Launching \cup {"wait", "kill", "close"} \cup Ends
    /\ ending \in Ends
    /\ at \in Ends => ~open

Init ==
    /\ proc = [p \in Procs |-> "none"]
    /\ job = {} /\ away = {} /\ open = TRUE
    /\ at = "create" /\ ending = "error"

Live == {p \in Procs : proc[p] \in {"alive", "suspended"}}
Kill(ps) == proc' = [p \in Procs |-> IF p \in ps \cap Live THEN "gone" ELSE proc[p]]

-----------------------------------------------------------------------------
(* The processes (external: Windows and the program).                      *)

\* A child of a job member is a member, unless it asks to break away; what a
\* process outside the tree starts is outside it too.
Spawn(p, q, breakaway) ==
    /\ proc[p] = "alive" /\ proc[q] = "none" /\ q # Root
    /\ proc' = [proc EXCEPT ![q] = "alive"]
    /\ job' = IF p \in job /\ ~breakaway THEN job \cup {q} ELSE job
    /\ away' = IF p \in away \/ breakaway THEN away \cup {q} ELSE away
    /\ UNCHANGED <<open, at, ending>>

Exit(p) ==
    /\ proc[p] = "alive"
    /\ Kill({p})
    /\ UNCHANGED <<job, away, open, at, ending>>

-----------------------------------------------------------------------------
(* WindowsJobTree.launch                                                   *)

Leave(how) == at' = "close" /\ ending' = how

CreateSuspended ==
    /\ at = "create"
    /\ at' = "assign"
    /\ proc' = [proc EXCEPT ![Root] = "suspended"]
    /\ UNCHANGED <<job, away, open, ending>>

CreateFails ==
    /\ at = "create"
    /\ Leave("error")
    /\ UNCHANGED <<proc, job, away, open>>

Assign ==
    /\ at = "assign"
    /\ at' = "resume"
    /\ job' = IF Root \in Live THEN job \cup {Root} ELSE job
    /\ UNCHANGED <<proc, away, open, ending>>

Resume ==
    /\ at = "resume"
    /\ at' = "wait"
    /\ proc' = [proc EXCEPT ![Root] = IF @ = "suspended" THEN "alive" ELSE @]
    /\ UNCHANGED <<job, away, open, ending>>

\* The handler that kills the half-started program left out.
LaunchFailsNoKill ==
    /\ at \in {"assign", "resume"}
    /\ Leave("error")
    /\ UNCHANGED <<proc, job, away, open>>

\* OpenProcess, AssignProcessToJobObject, the thread enumeration or
\* ResumeThread fails: popen.kill().
LaunchFails ==
    /\ at \in {"assign", "resume"}
    /\ Kill({Root})
    /\ Leave("error")
    /\ UNCHANGED <<job, away, open>>

-----------------------------------------------------------------------------
(* wait, kill, exit_code, close                                            *)

Active == job \cap Live

\* Waiting for the program only.
WaitEndsWithProgram ==
    /\ at = "wait" /\ Root \notin Live
    /\ Leave("result")
    /\ UNCHANGED <<proc, job, away, open>>

WaitEnds ==
    /\ at = "wait" /\ Active = {}
    /\ Leave("result")
    /\ UNCHANGED <<proc, job, away, open>>

Deadline ==
    /\ at = "wait" /\ Active # {}
    /\ at' = "kill"
    /\ UNCHANGED <<proc, job, away, open, ending>>

TerminateJob ==
    /\ at = "kill"
    /\ Kill(job)
    /\ Leave("timeout")
    /\ UNCHANGED <<job, away, open>>

\* A query or TerminateJobObject itself fails: NativeCallError.
NativeFails ==
    /\ at \in {"wait", "kill"}
    /\ Leave("error")
    /\ UNCHANGED <<proc, job, away, open>>

\* Ctrl-C: the exception leaves the call through its finally clause.
Interrupt ==
    /\ at \in MayInterrupt
    /\ Leave("aborted")
    /\ UNCHANGED <<proc, job, away, open>>

\* KILL_ON_JOB_CLOSE
Close ==
    /\ at = "close"
    /\ open' = FALSE
    /\ Kill(job)
    /\ at' = ending
    /\ UNCHANGED <<job, away, ending>>

Next ==
    \/ \E p, q \in Procs, b \in BOOLEAN : Spawn(p, q, b)
    \/ \E p \in Procs : Exit(p)
    \/ CreateSuspended \/ CreateFails \/ Assign \/ Resume \/ LaunchFails
    \/ WaitEnds \/ Deadline \/ TerminateJob \/ NativeFails \/ Interrupt \/ Close

Spec == Init /\ [][Next]_vars

-----------------------------------------------------------------------------
\* The wait ends with a result only when every process of the tree has
\* exited by itself: nothing is left for close() to kill.
ResultMeansJobGone == at = "close" /\ ending = "result" => Live \subseteq away

\* However the call ends otherwise (a failed start, a failed query, a timeout,
\* Ctrl-C) no process of the tree is left, suspended or running.
NothingLeftBehind == at \in Ends => Live \subseteq away

\* No live process is in the tree without being in the job, once the program
\* can run: the race the suspended start closes.
TreeIsInJob == \A p \in Procs : proc[p] = "alive" => p \in job \cup away

\* Only the program is ever suspended, and outside the job only until it is
\* assigned; before that nothing runs.
StartsInJob ==
    /\ at = "create" => Live = {}
    /\ at = "assign" => \A p \in Live : p = Root /\ proc[p] = "suspended"
    /\ \A p \in Procs :
         proc[p] = "suspended" => p = Root /\ (at = "assign" \/ p \in job)

\* The inductive invariant of the proofs.
JobInv == TypeOK /\ StartsInJob /\ TreeIsInJob /\ ResultMeansJobGone /\ NothingLeftBehind
=============================================================================
