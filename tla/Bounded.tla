------------------------------ MODULE Bounded -------------------------------
(***************************************************************************)
(* run_bounded: one call of a function in a killable spawn child.  The     *)
(* child sends exactly one message over a pipe; the caller waits for the   *)
(* pipe and for the child's process sentinel, reads the message or reports *)
(* the dead child, and reaps the child on every path.                      *)
(***************************************************************************)
EXTENDS Naturals

CONSTANTS
    Platforms,      \* where the call is made: "posix", "windows"
    MayInterrupt    \* Ctrl-C in the caller

\* What the constants must be; assumed where they get their values.
BoundedAssumption ==
    /\ Platforms \subseteq {"posix", "windows"}
    /\ MayInterrupt \in BOOLEAN

VARIABLES
    platform,       \* where this call is made
    patient,        \* its timeout is longer than anything here takes
    daemonic,       \* the caller is a daemonic multiprocessing process
    slow,           \* the child takes longer than a grace period to exit
    child,          \* how far the child is
    message,        \* the one it is sending or has sent
    pipe,           \* what is in the pipe of it: nothing, a part, all
    writers,        \* who holds the write end open
    exitcode,       \* the child's own, the kill's, or none yet
    killed,         \* SIGKILL / TerminateProcess was sent to the child
    at,             \* where the caller is
    outcome         \* what the call will return or raise

childVars == <<child, message, pipe, writers, exitcode>>
scene == <<platform, patient, daemonic, slow>>
vars == <<scene, child, message, pipe, writers, exitcode, killed, at, outcome>>

Outcomes == {"none", "refused", "notstarted", "raw", "timeout", "result",
             "failure", "noresult", "aborted"}
Ends     == {"returned", "raised"}
ChildAt  == {"none", "boot", "target", "sending", "sent", "closed", "dying",
             "zombie", "reaped"}

\* Message pipes, and a duplicate of the child's write end in the parent.
Windows == platform = "windows"

Init ==
    /\ platform \in Platforms
    /\ patient \in BOOLEAN /\ daemonic \in BOOLEAN /\ slow \in BOOLEAN
    /\ child = "none" /\ message = "none" /\ pipe = "empty"
    /\ writers = {} /\ exitcode = "none" /\ killed = FALSE
    /\ at = "check" /\ outcome = "none"

Running == child \in {"boot", "target", "sending", "sent", "closed", "dying"}

-----------------------------------------------------------------------------
(* The child: spawn's bootstrap, then _child.                              *)

\* A process that ends closes what it holds of the pipe.
ChildEnds(how) ==
    /\ child' = "zombie"
    /\ exitcode' = how
    /\ writers' = writers \ {"child"}

\* The Process object is unpickled: the child has the write end, and on
\* Windows the duplicate the parent kept for it is closed.
Bootstrap ==
    /\ child = "boot"
    /\ child' = "target"
    /\ writers' = (writers \ {"duplicate"}) \cup {"child"}
    /\ UNCHANGED <<scene, message, pipe, exitcode, killed, at, outcome>>

\* The target returned or raised (so did pickling its result): every failure
\* is sent as a message too.
StartSending(kind) ==
    /\ child = "target"
    /\ child' = "sending"
    /\ message' = kind
    /\ pipe' \in {"part", "all"}
    /\ UNCHANGED <<scene, writers, exitcode, killed, at, outcome>>

\* A message longer than the pipe's buffer is written in pieces.
FinishSending ==
    /\ child = "sending"
    /\ child' = "sent"
    /\ pipe' = IF pipe = "part" THEN "all" ELSE pipe
    /\ UNCHANGED <<scene, message, writers, exitcode, killed, at, outcome>>

CloseConnection ==
    /\ child = "sent"
    /\ child' = "closed"
    /\ writers' = writers \ {"child"}
    /\ UNCHANGED <<scene, message, pipe, exitcode, killed, at, outcome>>

ChildExits ==
    /\ child \in {"closed", "dying"}
    /\ ChildEnds("own")
    /\ UNCHANGED <<scene, message, pipe, killed, at, outcome>>

\* os._exit, a crash, a signal from elsewhere, an import that fails while the
\* child is bootstrapping: the write end closes, and the process is gone later.
ChildDies ==
    /\ child \in {"boot", "target", "sending", "sent"}
    /\ child' = "dying"
    /\ writers' = writers \ {"child"}
    /\ UNCHANGED <<scene, message, pipe, exitcode, killed, at, outcome>>

\* The kill takes effect.
ChildIsKilled ==
    /\ killed /\ Running
    /\ ChildEnds("killed")
    /\ UNCHANGED <<scene, message, pipe, killed, at, outcome>>

ChildStep == Bootstrap \/ FinishSending \/ CloseConnection \/ ChildExits

-----------------------------------------------------------------------------
(* run_bounded up to the started child                                     *)

\* finally: parent.close(), which frees what is left in the pipe.
Leave(how) ==
    /\ at' = IF how = "result" THEN "returned" ELSE "raised"
    /\ outcome' = how

Refuse ==
    /\ at = "check" /\ daemonic
    /\ Leave("refused")
    /\ UNCHANGED <<scene, childVars, killed>>

MakePipe ==
    /\ at = "check" /\ ~daemonic
    /\ at' = "start"
    /\ writers' = {"parent"}
    /\ UNCHANGED <<scene, child, message, pipe, exitcode, killed, outcome>>

\* process.start(), then child.close(): the child inherits the write end, or
\* on Windows fetches it from a duplicate once it unpickles it.
Start ==
    /\ at = "start"
    /\ at' = "wait"
    /\ child' = "boot"
    /\ writers' = IF Windows THEN {"duplicate"} ELSE {"child"}
    /\ UNCHANGED <<scene, message, pipe, exitcode, killed, outcome>>

\* An OSError is wrapped; a PicklingError stays as it is.
StartFails ==
    /\ at = "start"
    /\ writers' = {}
    /\ \E how \in {"notstarted", "raw"} : Leave(how)
    /\ UNCHANGED <<scene, child, message, pipe, exitcode, killed>>

-----------------------------------------------------------------------------
(* _await_result                                                           *)

\* The read end is ready for bytes, and for the end of file once nobody holds
\* the write end any more.
PipeReady == pipe # "empty" \/ writers = {}

\* Waiting for the pipe only.
ReadyPipeOnly == PipeReady

\* wait([parent, process.sentinel], timeout)
Ready == PipeReady \/ child = "zombie"

WaitReturns ==
    /\ at = "wait" /\ Ready
    /\ at' = "poll"
    /\ UNCHANGED <<scene, childVars, killed, outcome>>

\* The error leaves the call without the finally clause.
TimeOutForgetsChild ==
    /\ at = "wait" /\ ~Ready /\ ~patient
    /\ Leave("timeout")
    /\ UNCHANGED <<scene, childVars, killed>>

TimeOut ==
    /\ at = "wait" /\ ~Ready /\ ~patient
    /\ at' = "reap" /\ outcome' = "timeout"
    /\ UNCHANGED <<scene, childVars, killed>>

\* A child that is gone is reported without a look at the pipe.
PollSentinelFirst ==
    /\ at = "poll"
    /\ IF child # "zombie"
         THEN at' = "recv" /\ UNCHANGED outcome
         ELSE at' = "joinexited" /\ outcome' = "noresult"
    /\ UNCHANGED <<scene, childVars, killed>>

\* poll says no, or (Windows) raises BrokenPipeError: no result will come.
Poll ==
    /\ at = "poll"
    /\ IF PipeReady /\ ~(Windows /\ pipe = "empty")
         THEN at' = "recv" /\ UNCHANGED outcome
         ELSE at' = "joinexited" /\ outcome' = "noresult"
    /\ UNCHANGED <<scene, childVars, killed>>

\* recv() blocks until the whole message is there or the pipe ends.
Receive ==
    /\ at = "recv" /\ pipe = "all"
    /\ at' = "reap"
    /\ outcome' = IF message = "ok" THEN "result" ELSE "failure"
    /\ UNCHANGED <<scene, childVars, killed>>

\* The pipe ends before a message: EOFError.  A part of one in a byte pipe is
\* "got end of file during message", an OSError the handler does not name.
ReceiveEndOfFile ==
    /\ at = "recv" /\ pipe # "all" /\ writers = {}
    /\ IF pipe = "part" /\ ~Windows
         THEN at' = "reap" /\ outcome' = "raw"
         ELSE at' = "joinexited" /\ outcome' = "noresult"
    /\ UNCHANGED <<scene, childVars, killed>>

\* _reap_exited that kills first.
JoinExitedKills ==
    /\ at = "joinexited"
    /\ at' = "join"
    /\ killed' = Running
    /\ UNCHANGED <<scene, childVars, outcome>>

\* _reap_exited: the grace period in which the child may end by itself.
JoinExited ==
    /\ at = "joinexited"
    /\ child = "zombie" \/ slow
    /\ at' = "reap"
    /\ UNCHANGED <<scene, childVars, killed, outcome>>

\* _reap: kill the child if it still runs ...
Reap ==
    /\ at = "reap"
    /\ at' = "join"
    /\ killed' = Running
    /\ UNCHANGED <<scene, childVars, outcome>>

\* ... and wait for it, no longer than the grace period.
Join ==
    /\ at = "join"
    /\ \/ child = "zombie" /\ child' = "reaped"
       \/ slow /\ Running /\ UNCHANGED child
    /\ Leave(outcome)
    /\ UNCHANGED <<scene, message, pipe, writers, exitcode, killed>>

\* Ctrl-C inside _await_result's try: the finally clause reaps the child.
Interrupt ==
    /\ MayInterrupt
    /\ at \in {"wait", "poll", "recv", "joinexited"}
    /\ at' = "reap" /\ outcome' = "aborted"
    /\ UNCHANGED <<scene, childVars, killed>>

CallerStep ==
    \/ Refuse \/ MakePipe \/ Start \/ StartFails
    \/ WaitReturns \/ Poll \/ Receive \/ ReceiveEndOfFile
    \/ JoinExited \/ Reap \/ Join

Next ==
    \/ ChildStep \/ ChildDies \/ ChildIsKilled
    \/ \E kind \in {"ok", "error"} : StartSending(kind)
    \/ CallerStep \/ TimeOut \/ Interrupt

Spec == Init /\ [][Next]_vars

\* The caller runs; the child does too, but its target need not return: only
\* the bootstrap, a send once begun and the shutdown make progress.  A kill
\* takes effect, and the clock runs.
FairSpec ==
    /\ Spec
    /\ WF_vars(CallerStep) /\ WF_vars(ChildStep) /\ WF_vars(ChildIsKilled)
    /\ WF_vars(TimeOut)

-----------------------------------------------------------------------------
\* Types, and the write end is never open in the parent once it waits.
TypeOK ==
    /\ platform \in Platforms /\ patient \in BOOLEAN
    /\ daemonic \in BOOLEAN /\ slow \in BOOLEAN
    /\ child \in ChildAt
    /\ message \in {"none", "ok", "error"}
    /\ pipe \in {"empty", "part", "all"}
    /\ writers \subseteq {"parent", "duplicate", "child"}
    /\ exitcode \in {"none", "own", "killed"}
    /\ killed \in BOOLEAN
    /\ at \in {"check", "start", "wait", "poll", "recv", "joinexited", "reap",
               "join"} \cup Ends
    /\ outcome \in Outcomes
    /\ at \in {"wait", "poll", "recv"} => "parent" \notin writers

\* "exited without a result" is never said of a child whose message is there:
\* not when it sent and exited while the caller slept in wait(), not when only
\* its sentinel woke the caller.
NoMessageIsLost == outcome = "noresult" => pipe # "all"

\* The exit code in that error is the child's own, not the one the caller's
\* own kill would have given it (for a child that does exit).
ExitCodeIsItsOwn ==
    at = "raised" /\ outcome = "noresult" /\ ~slow => exitcode = "own"

\* However the call ends, its child is neither running nor a zombie (for a
\* child that exits when it is killed).
NoChildLeft == at \in Ends /\ ~slow => child \in {"none", "reaped"}

\* A child that can still send has the write end or will be given it, and what
\* it sent stays in the pipe.
ChildCanSend ==
    /\ child = "boot" => writers # {}
    /\ child \in {"target", "sending", "sent"} => "child" \in writers
    /\ child = "sending" => pipe # "empty"
    /\ child \in {"sent", "closed"} => pipe = "all"

\* There is a child to wait for between its start and its join, and a wait ends
\* for a reason that does not go away.
WaitsForAChild ==
    /\ at \in {"check", "start"} => child = "none"
    /\ at \in {"wait", "poll", "recv", "joinexited", "reap", "join"} =>
         child \notin {"none", "reaped"}
    /\ at = "poll" => Ready

\* No kill before _reap; a child given up as dead is, and has its own exit code
\* by the time it is reaped if it takes no longer than the grace period.
GivenUpIsDead ==
    /\ killed => at \in {"join"} \cup Ends
    /\ exitcode = "killed" => killed
    /\ child \in {"zombie", "reaped"} => exitcode # "none"
    /\ outcome = "noresult" =>
         /\ child \in {"dying", "zombie", "reaped"}
         /\ at \in {"joinexited", "reap", "join", "raised"}
         /\ at # "joinexited" /\ ~slow => child # "dying" /\ exitcode = "own"

\* The inductive invariant of the proofs.
BoundedInv ==
    /\ TypeOK /\ ChildCanSend /\ WaitsForAChild /\ GivenUpIsDead
    /\ NoMessageIsLost /\ ExitCodeIsItsOwn /\ NoChildLeft

\* The docstring's Raises: a child that exits without having sent its result
\* gives NativeCallError.
FailureIsTyped == at = "raised" /\ outcome = "raw" => child = "none"

Returned == at \in Ends

\* The call returns although the target never does, and although a child that
\* will not die in time is only waited for so long.  A child that is gone ends
\* it without any timeout, also when the parent's duplicate keeps the pipe open.
MustReturn == ~patient \/ child = "zombie"

\* The same as a property of run_bounded.
CallReturns == MustReturn ~> Returned
=============================================================================
