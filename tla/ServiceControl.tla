--------------------------- MODULE ServiceControl ---------------------------
(***************************************************************************)
(* NativeServiceController: start, stop, restart and set_startup of one    *)
(* Windows service, by several callers at once, while the service changes  *)
(* state by itself and other programs control it too.  The service control *)
(* manager takes a control in settled states only, so each call looks at   *)
(* the state, waits a foreign transition out, sends at most one control    *)
(* and polls for its target, all within one deadline.                      *)
(***************************************************************************)
EXTENDS Naturals

CONSTANTS
    Calls,          \* the calls under way
    Verbs,          \* what a call may be
    MaxForeign      \* bound: controls of other programs, and crashes

\* What the constants must be; assumed where they get their values.
ServiceAssumption ==
    /\ Verbs \subseteq {"start", "stop", "stopnowait", "restart", "set_startup"}
    /\ MaxForeign \in Nat

VARIABLES
    state,          \* the service's state
    startType,      \* its startup configuration
    instance,       \* how many times the service was started
    foreign,        \* what others did so far
    verb,           \* of each call
    half,           \* which part of the call runs: its stop or its start
    at,             \* where it is
    late,           \* its deadline has passed
    moved,          \* the state has changed since the call last looked
    before          \* the instance when the call began

serviceVars == <<state, startType, instance, foreign>>
vars == <<serviceVars, verb, half, at, late, moved, before>>

PendingStates == {"StartPending", "StopPending", "ContinuePending", "PausePending"}
States == PendingStates \cup {"Stopped", "Running", "Paused"}
Raised == {"unsettled", "timeout", "refused", "failed"}
Ends   == Raised \cup {"done"}

Target(h)        == IF h = "start" THEN "Running" ELSE "Stopped"
TargetPending(h) == IF h = "start" THEN "StartPending" ELSE "StopPending"

Init ==
    /\ state \in States
    /\ startType \in {"manual", "disabled"}
    /\ instance = 0 /\ foreign = 0
    /\ verb \in [Calls -> Verbs]
    /\ half = [c \in Calls |-> IF verb[c] = "start" THEN "start" ELSE "stop"]
    /\ at = [c \in Calls |-> "look"]
    /\ late = [c \in Calls |-> FALSE]
    /\ moved = [c \in Calls |-> FALSE]
    /\ before = [c \in Calls |-> 0]

-----------------------------------------------------------------------------
(* The service and its control manager (external).                         *)

StateBecomes(s) ==
    /\ state' = s
    /\ moved' = [c \in Calls |-> TRUE]

\* The pending transitions end; a start may fail.
Settle ==
    /\ \E s \in CASE state = "StartPending"    -> {"Running", "Stopped"}
                  [] state = "StopPending"     -> {"Stopped"}
                  [] state = "ContinuePending" -> {"Running"}
                  [] state = "PausePending"    -> {"Paused"}
                  [] OTHER -> {} : StateBecomes(s)
    /\ UNCHANGED <<startType, instance, foreign, verb, half, at, late, before>>

\* Whether the manager takes the control, and what it then does.
Accepts(h) ==
    IF h = "start" THEN state = "Stopped" /\ startType # "disabled"
                   ELSE state \in {"Running", "Paused"}

Control(h) ==
    /\ StateBecomes(TargetPending(h))
    /\ instance' = IF h = "start" THEN instance + 1 ELSE instance

\* Another program's control, a crash, another administrator.
Foreign ==
    /\ foreign < MaxForeign
    /\ foreign' = foreign + 1
    /\ \/ /\ \E h \in {"start", "stop"} : Accepts(h) /\ Control(h)
          /\ UNCHANGED startType
       \/ /\ \/ state = "Running" /\ StateBecomes("PausePending")
             \/ state = "Paused" /\ StateBecomes("ContinuePending")
             \/ state # "Stopped" /\ StateBecomes("Stopped")
          /\ UNCHANGED <<startType, instance>>
       \/ /\ startType' \in {"manual", "disabled"}
          /\ UNCHANGED <<state, instance, moved>>
    /\ UNCHANGED <<verb, half, at, late, before>>

-----------------------------------------------------------------------------
(* next_control_step, _drive                                               *)

\* Every settled or pending state but the target gets the control.
NextControlStepUnsettled(s, h) ==
    CASE s = Target(h)        -> "DONE"
      [] s = TargetPending(h) -> "AWAIT_TARGET"
      [] OTHER                -> "ISSUE"

NextControlStep(s, h) ==
    CASE s = Target(h)         -> "DONE"
      [] s = TargetPending(h)  -> "AWAIT_TARGET"
      [] s \in PendingStates \ {TargetPending(h)} -> "SETTLE_FIRST"
      [] OTHER                 -> "ISSUE"

\* A transition that is under way already is not waited for.
AfterNoAwait(step, c) ==
    CASE step = "SETTLE_FIRST" -> "settle"
      [] step = "ISSUE"        -> "issue"
      [] OTHER                 -> "report"

\* Where the decision leads the call.
After(step, c) ==
    CASE step = "SETTLE_FIRST" -> "settle"
      [] step = "ISSUE"        -> "issue"
      [] step = "AWAIT_TARGET" -> IF verb[c] = "stopnowait" THEN "report" ELSE "await"
      [] step = "DONE"         -> "report"

Goto(c, to) == at' = [at EXCEPT ![c] = to]
Looked(c)   == moved' = [moved EXCEPT ![c] = FALSE]

\* A query or opening the service fails: NativeCallError.
QueryFails(c) ==
    /\ at[c] \in {"look", "settle", "await", "report"}
    /\ Goto(c, "failed")
    /\ UNCHANGED <<serviceVars, verb, half, late, moved, before>>

Look(c) ==
    /\ at[c] = "look" /\ verb[c] # "set_startup"
    /\ Goto(c, After(NextControlStep(state, half[c]), c))
    /\ Looked(c)
    /\ before' = [before EXCEPT ![c] = IF half[c] = "start" /\ verb[c] = "restart"
                                         THEN @ ELSE instance]
    /\ UNCHANGED <<serviceVars, verb, half, late>>

DeadlinePasses(c) ==
    /\ at[c] \in {"look", "settle", "issue", "await"} /\ ~late[c]
    /\ late' = [late EXCEPT ![c] = TRUE]
    /\ UNCHANGED <<serviceVars, verb, half, at, moved, before>>

\* The settle wait without a deadline.
SettleRoundUnbounded(c) ==
    /\ at[c] = "settle"
    /\ Goto(c, IF state \in PendingStates THEN "settle"
               ELSE After(NextControlStep(state, half[c]), c))
    /\ Looked(c)
    /\ UNCHANGED <<serviceVars, verb, half, late, before>>

\* One round of _wait_until_settled; settled, the step is decided again.
SettleRound(c) ==
    /\ at[c] = "settle"
    /\ Goto(c, IF state \in PendingStates
               THEN IF late[c] THEN "unsettled" ELSE "settle"
               ELSE After(NextControlStep(state, half[c]), c))
    /\ Looked(c)
    /\ UNCHANGED <<serviceVars, verb, half, late, before>>

\* StartService, ControlService: sent whatever the state is by now.
Issue(c) ==
    /\ at[c] = "issue"
    /\ IF Accepts(half[c])
         THEN /\ Control(half[c])
              /\ Goto(c, IF verb[c] = "stopnowait" THEN "report" ELSE "await")
         ELSE /\ Goto(c, "refused")
              /\ UNCHANGED <<state, instance, moved>>
    /\ UNCHANGED <<startType, foreign, verb, half, late, before>>

\* One round of _wait_for_state: the state first, then the deadline.
AwaitRound(c) ==
    /\ at[c] = "await"
    /\ Goto(c, IF state = Target(half[c]) THEN "report"
               ELSE IF late[c] THEN "timeout" ELSE "await")
    /\ Looked(c)
    /\ UNCHANGED <<serviceVars, verb, half, late, before>>

\* _query_one: the call returns the state it reads now.  A restart's stop is
\* followed by its start, with a deadline of its own.
Report(c) ==
    /\ at[c] = "report"
    /\ IF verb[c] = "restart" /\ half[c] = "stop"
         THEN /\ Goto(c, "look")
              /\ half' = [half EXCEPT ![c] = "start"]
              /\ late' = [late EXCEPT ![c] = FALSE]
         ELSE Goto(c, "done") /\ UNCHANGED <<half, late>>
    /\ Looked(c)
    /\ UNCHANGED <<serviceVars, verb, before>>

SetStartup(c) ==
    /\ at[c] = "look" /\ verb[c] = "set_startup"
    /\ startType' \in {"manual", "disabled"}
    /\ Goto(c, "report")
    /\ UNCHANGED <<state, instance, foreign, verb, half, late, moved, before>>

CallStep(c) ==
    \/ Look(c) \/ SettleRound(c) \/ Issue(c) \/ AwaitRound(c) \/ Report(c)
    \/ SetStartup(c)

Next ==
    \/ Settle \/ Foreign
    \/ \E c \in Calls : CallStep(c) \/ QueryFails(c) \/ DeadlinePasses(c)

Spec == Init /\ [][Next]_vars

\* A call runs on and its clock does; the service may stay where it is.
FairSpec ==
    Spec /\ \A c \in Calls : WF_vars(CallStep(c)) /\ WF_vars(DeadlinePasses(c))

-----------------------------------------------------------------------------
\* Types; a stop told not to wait for its target never does.
TypeOK ==
    /\ state \in States
    /\ startType \in {"manual", "disabled"}
    /\ instance \in Nat /\ foreign \in 0..MaxForeign
    /\ verb \in [Calls -> Verbs]
    /\ half \in [Calls -> {"start", "stop"}]
    /\ at \in [Calls -> {"look", "settle", "issue", "await", "report"} \cup Ends]
    /\ late \in [Calls -> BOOLEAN] /\ moved \in [Calls -> BOOLEAN]
    /\ before \in [Calls -> 0..instance]
    /\ \A c \in Calls : at[c] = "await" => verb[c] # "stopnowait"

\* The manager refuses a control (NativeCallError) of a service in transition
\* only because it moved after the call's last look at it: on its own account
\* a call never sends one into a pending state.
RefusedForItMoved ==
    \A c \in Calls :
        at[c] = "issue" /\ at'[c] = "refused" => moved[c] \/ state \notin PendingStates

\* A restart that returns has renewed the service, whoever else started or
\* stopped it meanwhile: the instance of before is not the one there now.
RestartRenews ==
    \A c \in Calls : at[c] = "done" /\ verb[c] = "restart" => instance > before[c]

\* After a stop that waited has returned, the instance it stopped never runs
\* again: what runs then was started since.
OldInstanceIsGone ==
    \A c \in Calls :
        at[c] = "done" /\ verb[c] = "stop" /\ state # "Stopped" => instance > before[c]

\* A control goes out into a settled state, or the call does not know better.
SentWhenSettled ==
    \A c \in Calls : at[c] = "issue" /\ ~moved[c] => state \notin PendingStates

\* The service has stopped, or was even started again, since the call began.
HasStopped(c) == state = "Stopped" \/ instance > before[c]

\* A stop, and the stop half of a restart, ends where the service has stopped;
\* the start half then ends with an instance that is newer.
StopThenStart ==
    \A c \in Calls :
        /\ verb[c] = "stop" => half[c] = "stop"
        /\ verb[c] \in {"stop", "restart"} /\ half[c] = "stop" /\ at[c] \in {"report", "done"}
             => HasStopped(c)
        /\ verb[c] = "restart" /\ half[c] = "start" => HasStopped(c)
        /\ verb[c] = "restart" /\ at[c] = "done" => half[c] = "start"
        /\ verb[c] = "restart" /\ half[c] = "start" /\ at[c] \in {"await", "report", "done"}
             => instance > before[c]

\* The inductive invariant of the proofs.
ServiceInv == TypeOK /\ SentWhenSettled /\ StopThenStart

Ended(c) == at[c] \in Ends

\* Every call ends within its deadlines, also when the service never leaves
\* the state it is in.
CallsReturn == \A c \in Calls : <>Ended(c)
=============================================================================
