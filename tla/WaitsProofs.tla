---------------------------- MODULE WaitsProofs -----------------------------
(***************************************************************************)
(* Proofs about the calls that wait, for trees of any size and any number  *)
(* of callers and threads: what MCWaits states of WaitsSpec.               *)
(***************************************************************************)
EXTENDS MCWaits, FiniteSetTheorems, TLAPS

USE WaitsAssumption

-----------------------------------------------------------------------------
(* The Windows job.                                                        *)

\* The call before CreateProcess satisfies the job's invariant.
LEMMA JobInit == J!Init => J!JobInv
BY DEF WaitsAssumption, J!JobAssumption, J!Init, J!JobInv, J!TypeOK, J!StartsInJob,
       J!TreeIsInJob, J!ResultMeansJobGone, J!NothingLeftBehind, J!Live, J!Launching,
       J!Ends

\* Every step of WindowsJobTree, of run_process_tree and of the processes keeps it:
\* a suspended program is not yet outside the job when it can first run.
LEMMA JobNext == J!JobInv /\ [J!Next]_(J!vars) => J!JobInv'
<1> SUFFICES ASSUME J!JobInv, [J!Next]_(J!vars) PROVE J!JobInv'
  OBVIOUS
<1> JobRoot \in JobProcs
  BY DEF WaitsAssumption, J!JobAssumption
<1> USE DEF J!JobInv, J!TypeOK, J!StartsInJob, J!TreeIsInJob, J!ResultMeansJobGone,
            J!NothingLeftBehind, J!Live, J!Launching, J!Ends
<1>1. CASE UNCHANGED J!vars
  BY <1>1 DEF J!vars
<1>2. ASSUME NEW p \in JobProcs, NEW q \in JobProcs, NEW b \in BOOLEAN, J!Spawn(p, q, b)
      PROVE  J!JobInv'
  BY <1>2 DEF J!Spawn
<1>3. ASSUME NEW p \in JobProcs, J!Exit(p)
      PROVE  J!JobInv'
  BY <1>3 DEF J!Exit, J!Kill
<1>4. CASE J!CreateSuspended
  BY <1>4 DEF J!CreateSuspended
<1>5. CASE J!CreateFails
  BY <1>5 DEF J!CreateFails, J!Leave
<1>6. CASE J!Assign
  BY <1>6 DEF J!Assign
<1>7. CASE J!Resume
  BY <1>7 DEF J!Resume
<1>8. CASE J!LaunchFails
  BY <1>8 DEF J!LaunchFails, J!Leave, J!Kill
<1>9. CASE J!WaitEnds
  BY <1>9 DEF J!WaitEnds, J!Leave, J!Active
<1>10. CASE J!Deadline
  BY <1>10 DEF J!Deadline
<1>11. CASE J!TerminateJob
  BY <1>11 DEF J!TerminateJob, J!Leave, J!Kill
<1>12. CASE J!NativeFails
  BY <1>12 DEF J!NativeFails, J!Leave
<1>13. CASE J!Interrupt
  BY <1>13 DEF J!Interrupt, J!Leave
<1>14. CASE J!Close
  BY <1>14 DEF J!Close, J!Kill
<1> QED
  BY <1>1, <1>2, <1>3, <1>4, <1>5, <1>6, <1>7, <1>8, <1>9, <1>10, <1>11, <1>12,
     <1>13, <1>14 DEF J!Next

-----------------------------------------------------------------------------
(* The child process of run_bounded.                                       *)

\* run_bounded before it makes its pipe satisfies its invariant.
LEMMA BoundedInit == B!Init => B!BoundedInv
BY DEF B!Init, B!BoundedInv, B!TypeOK, B!ChildCanSend, B!WaitsForAChild, B!GivenUpIsDead,
       B!NoMessageIsLost, B!ExitCodeIsItsOwn, B!NoChildLeft, B!Ends, B!ChildAt, B!Outcomes

\* Every step of the caller and of the child keeps it: a wait that ended has a
\* reason that lasts, so a child given up as dead can send no more.
LEMMA BoundedNext == B!BoundedInv /\ [B!Next]_(B!vars) => B!BoundedInv'
<1> SUFFICES ASSUME B!BoundedInv, [B!Next]_(B!vars) PROVE B!BoundedInv'
  OBVIOUS
<1> USE DEF B!BoundedInv, B!TypeOK, B!ChildCanSend, B!WaitsForAChild, B!GivenUpIsDead,
            B!NoMessageIsLost, B!ExitCodeIsItsOwn, B!NoChildLeft, B!Ends, B!ChildAt,
            B!Outcomes, B!Ready, B!PipeReady, B!Running, B!Windows, B!scene, B!childVars
<1>1. CASE UNCHANGED B!vars
  BY <1>1 DEF B!vars
<1>2. CASE B!Bootstrap
  <2>1. B!TypeOK' /\ B!ChildCanSend'
    BY <1>2 DEF B!Bootstrap
  <2>2. B!WaitsForAChild'
    BY <1>2 DEF B!Bootstrap
  <2>3. B!GivenUpIsDead' /\ B!NoMessageIsLost' /\ B!ExitCodeIsItsOwn' /\ B!NoChildLeft'
    BY <1>2 DEF B!Bootstrap
  <2> QED BY <2>1, <2>2, <2>3
<1>3. CASE B!FinishSending
  BY <1>3 DEF B!FinishSending
<1>4. CASE B!CloseConnection
  BY <1>4 DEF B!CloseConnection
<1>5. CASE B!ChildExits
  BY <1>5 DEF B!ChildExits, B!ChildEnds
<1>6. CASE B!ChildDies
  BY <1>6 DEF B!ChildDies
<1>7. CASE B!ChildIsKilled
  BY <1>7 DEF B!ChildIsKilled, B!ChildEnds
<1>8. ASSUME NEW kind \in {"ok", "error"}, B!StartSending(kind)
      PROVE  B!BoundedInv'
  BY <1>8 DEF B!StartSending
<1>9. CASE B!Refuse
  BY <1>9 DEF B!Refuse, B!Leave
<1>10. CASE B!MakePipe
  BY <1>10 DEF B!MakePipe
<1>11. CASE B!Start
  BY <1>11 DEF B!Start
<1>12. CASE B!StartFails
  BY <1>12 DEF B!StartFails, B!Leave
<1>13. CASE B!WaitReturns
  BY <1>13 DEF B!WaitReturns
<1>14. CASE B!Poll
  <2>1. CASE B!PipeReady /\ ~(B!Windows /\ x7 = "empty")
    BY <1>14, <2>1 DEF B!Poll
  <2>2. CASE B!Windows /\ x7 = "empty" /\ x8 = {}
    BY <1>14, <2>2 DEF B!Poll
  <2>3. CASE ~B!PipeReady
    BY <1>14, <2>3 DEF B!Poll
  <2> QED BY <2>1, <2>2, <2>3
<1>15. CASE B!Receive
  BY <1>15 DEF B!Receive
<1>16. CASE B!ReceiveEndOfFile
  BY <1>16 DEF B!ReceiveEndOfFile
<1>17. CASE B!JoinExited
  BY <1>17 DEF B!JoinExited
<1>18. CASE B!Reap
  BY <1>18 DEF B!Reap
<1>19. CASE B!Join
  BY <1>19 DEF B!Join, B!Leave
<1>20. CASE B!TimeOut
  BY <1>20 DEF B!TimeOut
<1>21. CASE B!Interrupt
  BY <1>21 DEF B!Interrupt
<1> QED
  BY <1>1, <1>2, <1>3, <1>4, <1>5, <1>6, <1>7, <1>8, <1>9, <1>10, <1>11, <1>12,
     <1>13, <1>14, <1>15, <1>16, <1>17, <1>18, <1>19, <1>20, <1>21
  DEF B!Next, B!ChildStep, B!CallerStep

-----------------------------------------------------------------------------
(* The hosted PowerShell.                                                  *)

\* With no prober around, the threads are those that run calls.
LEMMA HostedThreads == H!All = 1..NThreads
BY DEF H!All

\* The module as it is imported satisfies the hosted invariant.
LEMMA HostedInit == H!Init => H!HostedInv
<1> SUFFICES ASSUME H!Init PROVE H!HostedInv
  OBVIOUS
<1> NThreads \in Nat /\ MaxCalls \in Nat \ {0}
  BY DEF WaitsAssumption, H!HostedAssumption
<1> USE HostedThreads DEF H!Init, H!nobody
<1>1. H!HostTypes
  <2>1. /\ x1 \in {"nothing", "extra", "sdk", "runtime"} /\ x2 \in 0..2
        /\ x3 \in H!All \cup {H!nobody} /\ x4 \in BOOLEAN
    OBVIOUS
  <2>2. x5 \in 0..x7 /\ x6 \in 0..x7 /\ x15 \in 0..x7 /\ x7 \in Nat
    OBVIOUS
  <2>3. x9 \in [H!All -> 0..x7] /\ x10 \in [H!All -> 0..x7]
    OBVIOUS
  <2> QED BY <2>1, <2>2, <2>3 DEF H!HostTypes
<1>2. H!CallTypes
  <2>1. x12 \in [H!All -> BOOLEAN]
    OBVIOUS
  <2> QED BY <2>1 DEF H!CallTypes
<1>3. H!StartsOnce /\ H!ServedUnderTheLock /\ H!OnePipelineAtATime
  BY DEF H!StartsOnce, H!ServedUnderTheLock, H!OnePipelineAtATime
<1> QED BY <1>1, <1>2, <1>3 DEF H!HostedInv, H!TypeOK

\* Every step of every thread keeps it, and none moves to another runspace: the
\* start is done once, under the lock.
LEMMA HostedNext == H!HostedInv /\ [H!Next]_(H!vars) => H!HostedInv' /\ H!SameRunspace
<1> SUFFICES ASSUME H!HostedInv, [H!Next]_(H!vars) PROVE H!HostedInv' /\ H!SameRunspace
  OBVIOUS
<1> NThreads \in Nat /\ MaxCalls \in Nat \ {0}
  BY DEF WaitsAssumption, H!HostedAssumption
<1> USE HostedThreads
        DEF H!HostedInv, H!TypeOK, H!HostTypes, H!CallTypes, H!StartsOnce,
            H!ServedUnderTheLock, H!OnePipelineAtATime, H!SameRunspace, H!nobody,
            H!shared, H!At, H!Goto, H!Return, H!Release
<1>1. CASE UNCHANGED H!vars
  BY <1>1 DEF H!vars
<1>2. CASE H!Rest
  <2>1. H!HostTypes'
    BY <1>2 DEF H!Rest
  <2>2. H!CallTypes'
    BY <1>2 DEF H!Rest
  <2>3. H!StartsOnce' /\ H!SameRunspace
    BY <1>2 DEF H!Rest
  <2>4. H!ServedUnderTheLock' /\ H!OnePipelineAtATime'
    BY <1>2 DEF H!Rest
  <2> QED BY <2>1, <2>2, <2>3, <2>4
<1>3. ASSUME NEW t \in 1..NThreads, H!Dispatch(t)
      PROVE  H!HostedInv' /\ H!SameRunspace
  <2>1. x14' \in [H!All -> 0..MaxCalls]
    <3>1. x14[t] < MaxCalls /\ x14' = [x14 EXCEPT ![t] = @ + 1]
      BY <1>3 DEF H!Dispatch, H!Begin
    <3>2. x14 \in [1..NThreads -> 0..MaxCalls] /\ x14[t] + 1 \in 0..MaxCalls
      BY <3>1
    <3> QED BY ONLY <3>1, <3>2, HostedThreads
  <2>2. x12' \in [H!All -> BOOLEAN]
    <3>1. PICK b \in BOOLEAN : x12' = [x12 EXCEPT ![t] = b]
      BY <1>3 DEF H!Dispatch
    <3> QED BY <3>1
  <2>3. PICK to \in {"idle", "ensure"} : x8[t] = "idle" /\ x8' = [x8 EXCEPT ![t] = to]
    BY <1>3 DEF H!Dispatch, H!Begin
  <2>4. x13' \in [H!All -> {"none", "ok", "unavailable", "error", "timeout", "true", "false"}]
    <3>1. x13' = x13 \/ x13' = [x13 EXCEPT ![t] = "unavailable"]
      BY <1>3 DEF H!Dispatch, H!Begin
    <3> QED BY <3>1
  <2>5. UNCHANGED <<x1, x2, x3, x4, x5, x6, x7, x9, x10, x11, x15>>
    BY <1>3 DEF H!Dispatch, H!Begin
  <2>6. H!TypeOK'
    BY <2>1, <2>2, <2>3, <2>4, <2>5
  <2>7. H!StartsOnce' /\ H!SameRunspace /\ H!ServedUnderTheLock' /\ H!OnePipelineAtATime'
    BY <2>3, <2>5
  <2> QED BY <2>6, <2>7
<1>4. ASSUME NEW t \in 1..NThreads, H!Step(t)
      PROVE  H!HostedInv' /\ H!SameRunspace
  <2>1. CASE H!Acquire(t)
    <3>1. H!HostTypes'
      BY <2>1 DEF H!Acquire
    <3>2. H!CallTypes'
      BY <2>1 DEF H!Acquire
    <3>3. H!StartsOnce' /\ H!SameRunspace
      BY <2>1 DEF H!Acquire
    <3>4. H!ServedUnderTheLock' /\ H!OnePipelineAtATime'
      <4>1. /\ x8[t] \in {"ensure", "enter"} /\ x3 = H!nobody /\ x3' = t
            /\ UNCHANGED <<x6, x10, x11>>
        BY <2>1 DEF H!Acquire
      <4>2. PICK to \in {"init", "shell"} : x8' = [x8 EXCEPT ![t] = to]
        BY <2>1 DEF H!Acquire
      <4>3. \A u \in 1..NThreads : x8'[u] = IF u = t THEN to ELSE x8[u]
        BY <4>2
      <4>4. x10[t] = 0 /\ x11[t] = "none"
        BY <4>1
      <4>5. \A u \in 1..NThreads :
              /\ x8[u] \in {"shell", "invoke", "stop"} /\ x6 = 0 => x3 = u
              /\ x10[u] # 0 => x8[u] \in {"invoke", "stop"}
              /\ x11[u] # "none" => x8[u] \in {"invoke", "stop"}
        OBVIOUS
      <4>6. H!ServedUnderTheLock'
        BY ONLY <4>1, <4>3, <4>4, <4>5, NThreads \in Nat
      <4>7. \A u \in 1..NThreads : x11'[u] # "none" => x8'[u] \in {"invoke", "stop"}
        BY ONLY <4>1, <4>3, <4>4, <4>5
      <4>8. x6 = 0 => \A u, v \in 1..NThreads : x10[u] # 0 /\ x10[v] # 0 => u = v
        OBVIOUS
      <4> QED BY ONLY <4>1, <4>6, <4>7, <4>8, HostedThreads DEF H!OnePipelineAtATime
    <3> QED BY <3>1, <3>2, <3>3, <3>4
  <2>2. CASE H!InitStarts(t)
    <3>1. H!HostTypes'
      BY <2>2 DEF H!InitStarts, H!Initialised
    <3>2. /\ x8[t] = "init"
          /\ UNCHANGED <<x1, x2, x4, x5, x6, x7, x9, x10, x11, x12, x14, x15>>
      BY <2>2 DEF H!InitStarts
    <3>3. x3 = t /\ x10[t] = 0 /\ x11[t] = "none"
      BY <3>2
    <3>4. PICK to \in {"idle", "shell", "enter", "open"} :
            /\ x8' = [x8 EXCEPT ![t] = to]
            /\ to = "shell" => x6 # 0
            /\ to \in {"shell", "enter"} => x4
            /\ to = "open" => ~x4 /\ x3' = x3
      BY <2>2, <3>2 DEF H!InitStarts, H!Initialised
    <3>5. x13' = x13 \/ x13' = [x13 EXCEPT ![t] = "unavailable"]
      BY <2>2 DEF H!InitStarts, H!Initialised
    <3>6. x13' \in [H!All -> {"none", "ok", "unavailable", "error", "timeout", "true", "false"}]
      BY <3>5
    <3>7. x8' \in [H!All -> {"idle", "ensure", "init", "open", "publish", "enter", "shell", "invoke", "stop"}]
      BY <3>4
    <3>8. H!CallTypes'
      BY <3>2, <3>6, <3>7
    <3>9. H!StartsOnce'
      <4>1. \A u \in 1..NThreads : x8'[u] = IF u = t THEN to ELSE x8[u]
        BY <3>4
      <4>2. \A u \in 1..NThreads : x8[u] \in {"init", "open", "publish"} => u = t
        BY <3>3
      <4> QED BY <3>2, <3>3, <3>4, <4>1, <4>2
    <3>10. H!SameRunspace
      BY <3>2
    <3>11. H!ServedUnderTheLock' /\ H!OnePipelineAtATime'
      BY <3>2, <3>3, <3>4
    <3> QED BY <3>1, <3>8, <3>9, <3>10, <3>11
  <2>3. CASE H!Open(t)
    <3>1. H!HostTypes'
      BY <2>3 DEF H!Open
    <3>2. H!CallTypes'
      BY <2>3 DEF H!Open
    <3>3. H!StartsOnce' /\ H!SameRunspace
      BY <2>3 DEF H!Open
    <3>4. H!ServedUnderTheLock' /\ H!OnePipelineAtATime'
      BY <2>3 DEF H!Open
    <3> QED BY <3>1, <3>2, <3>3, <3>4
  <2>4. CASE H!OpenFails(t)
    <3>1. H!HostTypes'
      BY <2>4 DEF H!OpenFails
    <3>2. H!CallTypes'
      BY <2>4 DEF H!OpenFails
    <3>3. H!StartsOnce' /\ H!SameRunspace
      BY <2>4 DEF H!OpenFails
    <3>4. H!ServedUnderTheLock' /\ H!OnePipelineAtATime'
      BY <2>4 DEF H!OpenFails
    <3> QED BY <3>1, <3>2, <3>3, <3>4
  <2>5. CASE H!Publish(t)
    <3>1. /\ x8[t] = "publish" /\ x4' = TRUE
          /\ x9' = [x9 EXCEPT ![t] = 0]
          /\ IF x2 > 1 THEN x6' = x9[t] /\ x5' = x5 ELSE x5' = x9[t] /\ x6' = x6
          /\ UNCHANGED <<x1, x2, x7, x10, x11, x12, x14, x15>>
      BY <2>5 DEF H!Publish
    <3>2. x3 = t /\ ~x4 /\ x9[t] # 0 /\ x5 = 0 /\ x6 = 0 /\ x10[t] = 0 /\ x11[t] = "none"
      BY <3>1
    <3>3. PICK to \in {"idle", "shell", "enter"} :
            x8' = [x8 EXCEPT ![t] = to] /\ (to = "shell" => x6' # 0)
      BY <2>5 DEF H!Publish, H!Initialised
    <3>4. \A u \in 1..NThreads : x8'[u] = IF u = t THEN to ELSE x8[u]
      BY <3>3
    <3>5. \A u \in 1..NThreads :
            /\ x8[u] \in {"init", "open", "publish", "shell", "invoke", "stop"} => u = t
            /\ x10[u] # 0 => x8[u] \in {"invoke", "stop"}
      BY <3>2
    <3>6. H!HostTypes'
      <4>1. x3' \in H!All \cup {H!nobody}
        BY <2>5 DEF H!Publish, H!Initialised
      <4>2. x9[t] \in 0..x7
        OBVIOUS
      <4>3. x5' \in 0..x7 /\ x6' \in 0..x7
        BY <3>1, <4>2
      <4> QED BY <3>1, <4>1, <4>3
    <3>7. H!CallTypes'
      <4>1. x13' = x13 \/ x13' = [x13 EXCEPT ![t] = "true"]
        BY <2>5 DEF H!Publish, H!Initialised
      <4>2. x13' \in [H!All -> {"none", "ok", "unavailable", "error", "timeout", "true", "false"}]
        BY <4>1
      <4> QED BY <3>1, <3>3, <4>2
    <3>8. H!StartsOnce'
      BY <3>1, <3>2, <3>4, <3>5
    <3>9. H!SameRunspace
      BY <3>1
    <3>10. H!ServedUnderTheLock'
      BY ONLY <3>1, <3>2, <3>3, <3>4, <3>5, HostedThreads DEF H!ServedUnderTheLock
    <3>11. H!OnePipelineAtATime'
      BY <3>1, <3>2, <3>4, <3>5
    <3> QED BY <3>6, <3>7, <3>8, <3>9, <3>10, <3>11
  <2>6. CASE H!NewShell(t)
    <3>1. H!HostTypes'
      BY <2>6 DEF H!NewShell
    <3>2. H!CallTypes'
      BY <2>6 DEF H!NewShell
    <3>3. H!StartsOnce' /\ H!SameRunspace
      BY <2>6 DEF H!NewShell
    <3>4. H!ServedUnderTheLock' /\ H!OnePipelineAtATime'
      BY <2>6 DEF H!NewShell
    <3> QED BY <3>1, <3>2, <3>3, <3>4
  <2>7. CASE H!PipelineEnds(t)
    <3>1. H!HostTypes'
      BY <2>7 DEF H!PipelineEnds
    <3>2. H!CallTypes'
      BY <2>7 DEF H!PipelineEnds
    <3>3. H!StartsOnce' /\ H!SameRunspace
      BY <2>7 DEF H!PipelineEnds
    <3>4. H!ServedUnderTheLock' /\ H!OnePipelineAtATime'
      BY <2>7 DEF H!PipelineEnds
    <3> QED BY <3>1, <3>2, <3>3, <3>4
  <2>8. CASE H!TimesOut(t)
    <3>1. H!HostTypes'
      BY <2>8 DEF H!TimesOut
    <3>2. H!CallTypes'
      BY <2>8 DEF H!TimesOut
    <3>3. H!StartsOnce' /\ H!SameRunspace
      BY <2>8 DEF H!TimesOut
    <3>4. H!ServedUnderTheLock' /\ H!OnePipelineAtATime'
      BY <2>8 DEF H!TimesOut
    <3> QED BY <3>1, <3>2, <3>3, <3>4
  <2>9. CASE H!Leave(t)
    <3>1. H!HostTypes'
      BY <2>9 DEF H!Leave
    <3>2. H!CallTypes'
      BY <2>9 DEF H!Leave
    <3>3. H!StartsOnce' /\ H!SameRunspace
      BY <2>9 DEF H!Leave
    <3>4. H!ServedUnderTheLock' /\ H!OnePipelineAtATime'
      BY <2>9 DEF H!Leave
    <3> QED BY <3>1, <3>2, <3>3, <3>4
  <2> QED
    BY <1>4, <2>1, <2>2, <2>3, <2>4, <2>5, <2>6, <2>7, <2>8, <2>9 DEF H!Step
<1> QED
  BY <1>1, <1>2, <1>3, <1>4 DEF H!Next

-----------------------------------------------------------------------------
(* Windows service control.                                                *)

\* What next_control_step's decision says of the state it was made for.
LEMMA Decision ==
    ASSUME NEW s \in S!States, NEW h \in {"start", "stop"}, NEW c
    PROVE  LET to == S!After(S!NextControlStep(s, h), c)
           IN  /\ to \in {"settle", "issue", "report", "await"}
               /\ to = "issue" => s \notin S!PendingStates
               /\ to = "await" => s = S!TargetPending(h) /\ x5[c] # "stopnowait"
               /\ to = "report" => s = S!Target(h) \/ x5[c] = "stopnowait"
BY DEF S!States, S!PendingStates, S!After, S!NextControlStep, S!Target, S!TargetPending

\* Calls that have not looked yet satisfy the service invariant.
LEMMA ServiceInit == S!Init => S!ServiceInv
<1> SUFFICES ASSUME S!Init PROVE S!ServiceInv
  OBVIOUS
<1> NCalls \in Nat /\ MaxForeign \in Nat
  BY DEF WaitsAssumption, S!ServiceAssumption
<1> USE DEF S!Init
<1>1. S!TypeOK
  BY DEF S!TypeOK
<1>2. S!SentWhenSettled /\ S!StopThenStart
  BY DEF S!SentWhenSettled, S!StopThenStart
<1> QED BY <1>1, <1>2 DEF S!ServiceInv

\* Every step of the service, of other programs and of a call keeps it, and no call
\* on its own account sends a control into a pending state.
LEMMA ServiceNext == S!ServiceInv /\ [S!Next]_(S!vars) => S!ServiceInv' /\ S!RefusedForItMoved
<1> SUFFICES ASSUME S!ServiceInv, [S!Next]_(S!vars)
             PROVE  S!ServiceInv' /\ S!RefusedForItMoved
  OBVIOUS
<1> NCalls \in Nat /\ MaxForeign \in Nat
  BY DEF WaitsAssumption, S!ServiceAssumption
<1>0. ASSUME NEW c \in 1..NCalls
      PROVE  /\ S!After(S!NextControlStep(x1, x6[c]), c) \in {"settle", "issue", "report", "await"}
             /\ S!After(S!NextControlStep(x1, x6[c]), c) = "issue" => x1 \notin S!PendingStates
             /\ S!After(S!NextControlStep(x1, x6[c]), c) = "await" =>
                  x1 = S!TargetPending(x6[c]) /\ x5[c] # "stopnowait"
             /\ S!After(S!NextControlStep(x1, x6[c]), c) = "report" =>
                  x1 = S!Target(x6[c]) \/ x5[c] = "stopnowait"
  BY Decision DEF S!ServiceInv, S!TypeOK
<1> USE DEF S!ServiceInv, S!TypeOK, S!SentWhenSettled, S!StopThenStart, S!HasStopped,
            S!RefusedForItMoved, S!Ends, S!Raised, S!serviceVars
<1>1. CASE UNCHANGED S!vars
  BY <1>1 DEF S!vars
<1>2. CASE S!Settle
  <2>1. S!TypeOK'
    BY <1>2 DEF S!Settle, S!StateBecomes, S!States, S!PendingStates
  <2>2. S!SentWhenSettled' /\ S!RefusedForItMoved
    BY <1>2 DEF S!Settle, S!StateBecomes, S!States, S!PendingStates
  <2>3. S!StopThenStart'
    BY <1>2 DEF S!Settle, S!StateBecomes, S!States, S!PendingStates
  <2> QED BY <2>1, <2>2, <2>3
<1>3. CASE S!Foreign
  <2>1. S!TypeOK'
    <3>1. x3' \in Nat /\ x3' >= x3 /\ x10' = x10
      BY <1>3 DEF S!Foreign, S!Control
    <3>2. x10' \in [1..NCalls -> 0..x3']
      BY <3>1
    <3>3. x1' \in S!States /\ x9' \in [1..NCalls -> BOOLEAN]
      BY <1>3 DEF S!Foreign, S!StateBecomes, S!Control, S!TargetPending, S!States,
                  S!PendingStates
    <3>4. /\ x2' \in {"manual", "disabled"} /\ x4' \in 0..MaxForeign
          /\ UNCHANGED <<x5, x6, x7, x8, x10>>
      BY <1>3 DEF S!Foreign
    <3> QED BY <3>1, <3>2, <3>3, <3>4
  <2>2. S!SentWhenSettled' /\ S!RefusedForItMoved
    BY <1>3 DEF S!Foreign, S!StateBecomes, S!Control, S!Accepts, S!TargetPending, S!States, S!PendingStates
  <2>3. S!StopThenStart'
    BY <1>3 DEF S!Foreign, S!StateBecomes, S!Control, S!Accepts, S!TargetPending, S!States, S!PendingStates
  <2> QED BY <2>1, <2>2, <2>3
<1>4. ASSUME NEW c \in 1..NCalls, S!CallStep(c) \/ S!QueryFails(c) \/ S!DeadlinePasses(c)
      PROVE  S!ServiceInv' /\ S!RefusedForItMoved
  <2>1. CASE S!QueryFails(c)
    <3>1. S!TypeOK'
      BY <2>1 DEF S!QueryFails, S!Goto
    <3>2. S!SentWhenSettled' /\ S!RefusedForItMoved
      BY <2>1 DEF S!QueryFails, S!Goto
    <3>3. S!StopThenStart'
      BY <2>1 DEF S!QueryFails, S!Goto
    <3> QED BY <3>1, <3>2, <3>3
  <2>2. CASE S!DeadlinePasses(c)
    <3>1. S!TypeOK'
      BY <2>2 DEF S!DeadlinePasses
    <3>2. S!SentWhenSettled' /\ S!RefusedForItMoved
      BY <2>2 DEF S!DeadlinePasses
    <3>3. S!StopThenStart'
      BY <2>2 DEF S!DeadlinePasses
    <3> QED BY <3>1, <3>2, <3>3
  <2>3. CASE S!Look(c)
    <3>1. S!TypeOK'
      BY <2>3, Decision DEF S!Look, S!Goto, S!Looked, S!Target, S!TargetPending
    <3>2. S!SentWhenSettled' /\ S!RefusedForItMoved
      BY <2>3, Decision DEF S!Look, S!Goto, S!Looked, S!Target, S!TargetPending
    <3>3. S!StopThenStart'
      <4>1. PICK to \in {"settle", "issue", "report", "await"} :
              /\ x7' = [x7 EXCEPT ![c] = to]
              /\ to = "await" => x1 = S!TargetPending(x6[c])
              /\ to = "report" => x1 = S!Target(x6[c]) \/ x5[c] = "stopnowait"
        <5> DEFINE next == S!After(S!NextControlStep(x1, x6[c]), c)
        <5>1. x7' = [x7 EXCEPT ![c] = next]
          BY <2>3, Zenon DEF S!Look, S!Goto
        <5>2. /\ next \in {"settle", "issue", "report", "await"}
              /\ next = "await" => x1 = S!TargetPending(x6[c])
              /\ next = "report" => x1 = S!Target(x6[c]) \/ x5[c] = "stopnowait"
          BY <1>0, Zenon
        <5> HIDE DEF next
        <5> QED BY <5>1, <5>2
      <4>2. UNCHANGED <<x1, x2, x3, x4, x5, x6, x8>>
        BY <2>3 DEF S!Look
      <4>3. /\ x10' \in [1..NCalls -> 0..x3]
            /\ \A d \in 1..NCalls \ {c} : x10'[d] = x10[d]
            /\ x5[c] = "restart" /\ x6[c] = "start" => x10'[c] = x10[c]
        BY <2>3 DEF S!Look
      <4> QED BY <4>1, <4>2, <4>3 DEF S!Target, S!TargetPending
    <3> QED BY <3>1, <3>2, <3>3
  <2>4. CASE S!SettleRound(c)
    <3>1. S!TypeOK'
      <4>1. UNCHANGED <<x1, x2, x3, x4, x5, x6, x8, x10>>
        BY <2>4 DEF S!SettleRound
      <4>2. x9' = [x9 EXCEPT ![c] = FALSE]
        BY <2>4 DEF S!SettleRound, S!Looked
      <4>3. PICK to \in {"settle", "issue", "report", "await", "unsettled"} :
              /\ x7' = [x7 EXCEPT ![c] = to]
              /\ to = "await" => x5[c] # "stopnowait"
        <5>1. CASE x1 \in S!PendingStates
          <6>1. \/ x7' = [x7 EXCEPT ![c] = "unsettled"]
                \/ x7' = [x7 EXCEPT ![c] = "settle"]
            BY <2>4, <5>1, Zenon DEF S!SettleRound, S!Goto
          <6> QED BY <6>1
        <5>2. CASE x1 \notin S!PendingStates
          <6> DEFINE next == S!After(S!NextControlStep(x1, x6[c]), c)
          <6>1. x7' = [x7 EXCEPT ![c] = next]
            BY <2>4, <5>2, Zenon DEF S!SettleRound, S!Goto
          <6>2. next \in {"settle", "issue", "report", "await"}
            BY <1>0, Zenon
          <6>3. next = "await" => x5[c] # "stopnowait"
            BY <1>0, Zenon
          <6> HIDE DEF next
          <6> QED BY <6>1, <6>2, <6>3
        <5> QED BY <5>1, <5>2
      <4> QED BY <4>1, <4>2, <4>3
    <3>2. S!SentWhenSettled' /\ S!RefusedForItMoved
      BY <2>4, Decision DEF S!SettleRound, S!Goto, S!Looked, S!Target, S!TargetPending
    <3>3. S!StopThenStart'
      <4>1. PICK to \in {"settle", "issue", "report", "await", "unsettled"} :
              /\ x7' = [x7 EXCEPT ![c] = to]
              /\ to = "await" => x1 = S!TargetPending(x6[c])
              /\ to = "report" => x1 = S!Target(x6[c]) \/ x5[c] = "stopnowait"
        <5>1. CASE x1 \in S!PendingStates
          <6>1. \/ x7' = [x7 EXCEPT ![c] = "unsettled"]
                \/ x7' = [x7 EXCEPT ![c] = "settle"]
            BY <2>4, <5>1, Zenon DEF S!SettleRound, S!Goto
          <6> QED BY <6>1
        <5>2. CASE x1 \notin S!PendingStates
          <6> DEFINE next == S!After(S!NextControlStep(x1, x6[c]), c)
          <6>1. x7' = [x7 EXCEPT ![c] = next]
            BY <2>4, <5>2, Zenon DEF S!SettleRound, S!Goto
          <6>2. /\ next \in {"settle", "issue", "report", "await"}
                /\ next = "await" => x1 = S!TargetPending(x6[c])
                /\ next = "report" => x1 = S!Target(x6[c]) \/ x5[c] = "stopnowait"
            BY <1>0, Zenon
          <6> HIDE DEF next
          <6> QED BY <6>1, <6>2
        <5> QED BY <5>1, <5>2
      <4>2. UNCHANGED <<x1, x2, x3, x4, x5, x6, x8>> /\ UNCHANGED x10
        BY <2>4 DEF S!SettleRound
      <4> QED BY <4>1, <4>2 DEF S!Target, S!TargetPending
    <3> QED BY <3>1, <3>2, <3>3
  <2>5. CASE S!Issue(c)
    <3>1. S!TypeOK'
      <4>1. x3' \in Nat /\ x3' >= x3 /\ x10' = x10
        BY <2>5 DEF S!Issue, S!Control
      <4>2. x10' \in [1..NCalls -> 0..x3']
        BY <4>1
      <4>3. x1' \in S!States /\ x9' \in [1..NCalls -> BOOLEAN]
        BY <2>5 DEF S!Issue, S!StateBecomes, S!Control, S!TargetPending, S!States,
                    S!PendingStates
      <4>4. PICK to \in {"report", "await", "refused"} :
              x7' = [x7 EXCEPT ![c] = to] /\ (to = "await" => x5[c] # "stopnowait")
        BY <2>5 DEF S!Issue, S!Goto
      <4>5. UNCHANGED <<x2, x4, x5, x6, x8>>
        BY <2>5 DEF S!Issue
      <4> QED BY <4>1, <4>2, <4>3, <4>4, <4>5
    <3>2. S!SentWhenSettled' /\ S!RefusedForItMoved
      BY <2>5 DEF S!Issue, S!Goto, S!Accepts, S!Control, S!StateBecomes, S!TargetPending, S!States, S!PendingStates
    <3>3. S!StopThenStart'
      BY <2>5 DEF S!Issue, S!Goto, S!Accepts, S!Control, S!StateBecomes, S!TargetPending, S!States, S!PendingStates
    <3> QED BY <3>1, <3>2, <3>3
  <2>6. CASE S!AwaitRound(c)
    <3>1. S!TypeOK'
      BY <2>6 DEF S!AwaitRound, S!Goto, S!Looked, S!Target
    <3>2. S!SentWhenSettled' /\ S!RefusedForItMoved
      BY <2>6 DEF S!AwaitRound, S!Goto, S!Looked, S!Target
    <3>3. S!StopThenStart'
      BY <2>6 DEF S!AwaitRound, S!Goto, S!Looked, S!Target
    <3> QED BY <3>1, <3>2, <3>3
  <2>7. CASE S!Report(c)
    <3>1. S!TypeOK'
      BY <2>7 DEF S!Report, S!Goto, S!Looked
    <3>2. S!SentWhenSettled' /\ S!RefusedForItMoved
      BY <2>7 DEF S!Report, S!Goto, S!Looked
    <3>3. S!StopThenStart'
      BY <2>7 DEF S!Report, S!Goto, S!Looked
    <3> QED BY <3>1, <3>2, <3>3
  <2>8. CASE S!SetStartup(c)
    <3>1. S!TypeOK'
      BY <2>8 DEF S!SetStartup, S!Goto
    <3>2. S!SentWhenSettled' /\ S!RefusedForItMoved
      BY <2>8 DEF S!SetStartup, S!Goto
    <3>3. S!StopThenStart'
      BY <2>8 DEF S!SetStartup, S!Goto
    <3> QED BY <3>1, <3>2, <3>3
  <2> QED
    BY <1>4, <2>1, <2>2, <2>3, <2>4, <2>5, <2>6, <2>7, <2>8 DEF S!CallStep
<1> QED
  BY <1>1, <1>2, <1>3, <1>4 DEF S!Next

-----------------------------------------------------------------------------
(* The process tree on POSIX.                                              *)

LEMMA TreeStarts == Init => TreeInv
<1> SUFFICES ASSUME Init PROVE TreeInv
  OBVIOUS
<1>1. Alive = {} /\ ~SaysExited /\ ~SaidExited
  BY DEF Init, Alive, SaysExited, SaidExited
<1>2. TypesInv
  BY DEF Init, TypesInv, HelperAt
<1>3. RootInv /\ SubreaperInv /\ ReportInv
  BY <1>1 DEF Init, RootInv, SubreaperInv, ReportInv
<1> QED BY <1>1, <1>2, <1>3 DEF Init, TreeInv

\* What SIGTERM does, by where it finds the helper.
LEMMA TerminateDoes ==
    ASSUME Terminate
    PROVE  /\ UNCHANGED <<scene, callerState, code>>
           /\ terms > 0 /\ terms' = 0
           /\ \/ helper = "boot" /\ HelperGone /\ UNCHANGED <<status, report, killState>>
              \/ /\ \/ /\ helper \in {"ready", "scan", "signal", "reap", "report", "exit"}
                       /\ LeaveKillLoop
                    \/ helper \in {"start", "forked"} /\ ~Linux /\ UNCHANGED killState
                 /\ helper' = "report" /\ report' = "killed"
                 /\ UNCHANGED <<procState, status>>
              \/ /\ helper \in {"report", "exit"} /\ HelperGone
                 /\ UNCHANGED <<status, report, killState>>
              \/ /\ helper \in {"start", "forked", "waiting"} /\ Linux
                 /\ round' = 0 /\ StartRound
                 /\ UNCHANGED <<procState, status, report>>
              \/ /\ helper = "waiting" /\ ~Linux
                 /\ helper' = "report" /\ report' \in {"failed", "killed"}
                 /\ \E dying \in SUBSET Alive : AfterDeath(dying, OSInit)
                 /\ UNCHANGED <<status, killState>>
<1>1. UNCHANGED <<scene, callerState, code>>
  BY DEF Terminate
<1>2. terms > 0 /\ terms' = 0
  BY DEF Terminate
<1>3. ASSUME NEW spared \in SUBSET (Alive \cap foreign),
             AfterDeath((Alive \cap (group \cup {Root})) \ spared, OSInit)
      PROVE  \E dying \in SUBSET Alive : AfterDeath(dying, OSInit)
  <2>1. (Alive \cap (group \cup {Root})) \ spared \in SUBSET Alive
    OBVIOUS
  <2> QED BY <1>3, <2>1
<1>4. ASSUME NEW spared \in SUBSET (Alive \cap foreign),
             report' = IF Root \in spared THEN "failed" ELSE "killed"
      PROVE  report' \in {"failed", "killed"}
  BY <1>4
<1> QED BY <1>1, <1>2, <1>3, <1>4, Zenon DEF Terminate

\* Every step keeps the types.
LEMMA TypesKeep == TreeInv /\ [Next]_vars => TypesInv'
<1> SUFFICES ASSUME TreeInv, [Next]_vars PROVE TypesInv'
  OBVIOUS
<1>0. TypesInv /\ Root \in Procs
  BY TreeOfProcesses DEF TreeInv
<1> USE DEF TypesInv, HelperAt, scene, procState, callerState, helperState, killState
<1>1. CASE UNCHANGED vars
  BY <1>0, <1>1 DEF vars
<1>2. ASSUME NEW p \in Procs, NEW q \in Procs, Fork(p, q) PROVE TypesInv'
  BY <1>0, <1>2 DEF Fork
<1>3. ASSUME NEW p \in Procs, Exit(p) PROVE TypesInv'
  BY <1>0, <1>3 DEF Exit, AfterDeath, Adopter
<1>4. ASSUME NEW p \in Procs, LeaveGroup(p) PROVE TypesInv'
  BY <1>0, <1>4 DEF LeaveGroup
<1>5. ASSUME NEW p \in Procs, ReapOwnChild(p) PROVE TypesInv'
  BY <1>0, <1>5 DEF ReapOwnChild
<1>6. CASE InstallHandlers
  BY <1>0, <1>6 DEF InstallHandlers
<1>7. CASE ReadRequest
  BY <1>0, <1>7 DEF ReadRequest
<1>8. CASE StartProgram
  BY <1>0, <1>8 DEF StartProgram
<1>9. CASE StartFails
  BY <1>0, <1>9 DEF StartFails
<1>10. CASE ChildAssigned
  BY <1>0, <1>10 DEF ChildAssigned
<1>11. CASE WaitEnds
  BY <1>0, <1>11 DEF WaitEnds
<1>12. CASE WriteReport
  <2>1. status' \in Seq({"exited", "failed", "killed"})
    BY <1>0, <1>12 DEF WriteReport
  <2> QED BY <1>0, <2>1, <1>12 DEF WriteReport
<1>13. CASE HelperExits
  BY <1>0, <1>13 DEF HelperExits, HelperGone
<1>14. CASE ScanDone
  BY <1>0, <1>14 DEF ScanDone
<1>15. CASE ReapReady
  BY <1>0, <1>15 DEF ReapReady, ChildrenOf
<1>16. CASE KillLoopEnds
  BY <1>0, <1>16 DEF KillLoopEnds
<1>17. CASE NextRound
  BY <1>0, <1>17 DEF NextRound, StartRound
<1>18. ASSUME NEW p \in Procs, WaitReaps(p) PROVE TypesInv'
  BY <1>0, <1>18 DEF WaitReaps
<1>19. ASSUME NEW p \in Procs, ScanOne(p) PROVE TypesInv'
  BY <1>0, <1>19 DEF ScanOne
<1>20. ASSUME NEW p \in Procs, SignalOne(p) PROVE TypesInv'
  BY <1>0, <1>20 DEF SignalOne, AfterDeath
<1>21. CASE Terminate
  BY <1>0, <1>21, TerminateDoes DEF StartRound, HelperGone, AfterDeath
<1>22. CASE SendRequest
  BY <1>0, <1>22 DEF SendRequest
<1>23. CASE SendFails
  BY <1>0, <1>23 DEF SendFails
<1>24. CASE WaitReturns
  BY <1>0, <1>24 DEF WaitReturns
<1>25. CASE ReadStatus
  BY <1>0, <1>25 DEF ReadStatus
<1>26. CASE KillReturns
  BY <1>0, <1>26 DEF KillReturns
<1>27. CASE HelperNotStarted
  BY <1>0, <1>27 DEF HelperNotStarted
<1>28. CASE Deadline
  BY <1>0, <1>28 DEF Deadline
<1>29. CASE GraceExpires
  BY <1>0, <1>29 DEF GraceExpires, HelperGone
<1>30. CASE Interrupt
  BY <1>0, <1>30 DEF Interrupt
<1>31. CASE HelperDies
  BY <1>0, <1>31 DEF HelperDies, HelperGone
<1>32. ASSUME NEW p \in Procs, ChangeUser(p) PROVE TypesInv'
  BY <1>0, <1>32 DEF ChangeUser
<1> QED BY <1>1, <1>2, <1>3, <1>4, <1>5, <1>6, <1>7, <1>8, <1>9, <1>10, <1>11, <1>12, <1>13,
           <1>14, <1>15, <1>16, <1>17, <1>18, <1>19, <1>20, <1>21, <1>22, <1>23, <1>24,
           <1>25, <1>26, <1>27, <1>28, <1>29, <1>30, <1>31, <1>32 DEF Next, ProcStep, HelperStep, CallerStep

\* The program is reaped by the helper only.
LEMMA RootKeep == TreeInv /\ [Next]_vars => RootInv'
<1> SUFFICES ASSUME TreeInv, [Next]_vars PROVE RootInv'
  OBVIOUS
<1>0. TypesInv /\ RootInv /\ Root \in Procs /\ Helper # OSInit /\ {Helper, OSInit} \cap Procs = {}
  BY TreeOfProcesses DEF TreeInv, Helper, OSInit
<1> USE DEF TypesInv, RootInv, Alive, scene, procState, callerState, helperState, killState
<1>1. CASE UNCHANGED vars
  BY <1>0, <1>1 DEF vars
<1>2. ASSUME NEW p \in Procs, NEW q \in Procs, Fork(p, q) PROVE RootInv'
  BY <1>0, <1>2 DEF Fork
<1>3. ASSUME NEW p \in Procs, Exit(p) PROVE RootInv'
  BY <1>0, <1>3 DEF Exit, AfterDeath, Adopter
<1>4. ASSUME NEW p \in Procs, LeaveGroup(p) PROVE RootInv'
  BY <1>0, <1>4 DEF LeaveGroup
<1>5. ASSUME NEW p \in Procs, ReapOwnChild(p) PROVE RootInv'
  BY <1>0, <1>5 DEF ReapOwnChild
<1>6. CASE InstallHandlers
  BY <1>0, <1>6 DEF InstallHandlers
<1>7. CASE ReadRequest
  BY <1>0, <1>7 DEF ReadRequest
<1>8. CASE StartProgram
  BY <1>0, <1>8 DEF StartProgram
<1>9. CASE StartFails
  BY <1>0, <1>9 DEF StartFails
<1>10. CASE ChildAssigned
  BY <1>0, <1>10 DEF ChildAssigned
<1>11. CASE WaitEnds
  BY <1>0, <1>11 DEF WaitEnds
<1>12. CASE WriteReport
  BY <1>0, <1>12 DEF WriteReport
<1>13. CASE HelperExits
  BY <1>0, <1>13 DEF HelperExits, HelperGone
<1>14. CASE ScanDone
  BY <1>0, <1>14 DEF ScanDone
<1>15. CASE ReapReady
  BY <1>0, <1>15 DEF ReapReady, ChildrenOf
<1>16. CASE KillLoopEnds
  BY <1>0, <1>16 DEF KillLoopEnds
<1>17. CASE NextRound
  BY <1>0, <1>17 DEF NextRound, StartRound
<1>18. ASSUME NEW p \in Procs, WaitReaps(p) PROVE RootInv'
  BY <1>0, <1>18 DEF WaitReaps
<1>19. ASSUME NEW p \in Procs, ScanOne(p) PROVE RootInv'
  BY <1>0, <1>19 DEF ScanOne
<1>20. ASSUME NEW p \in Procs, SignalOne(p) PROVE RootInv'
  BY <1>0, <1>20 DEF SignalOne, AfterDeath
<1>21. CASE Terminate
  BY <1>0, <1>21, TerminateDoes DEF StartRound, HelperGone, AfterDeath
<1>22. CASE SendRequest
  BY <1>0, <1>22 DEF SendRequest
<1>23. CASE SendFails
  BY <1>0, <1>23 DEF SendFails
<1>24. CASE WaitReturns
  BY <1>0, <1>24 DEF WaitReturns
<1>25. CASE ReadStatus
  BY <1>0, <1>25 DEF ReadStatus
<1>26. CASE KillReturns
  BY <1>0, <1>26 DEF KillReturns
<1>27. CASE HelperNotStarted
  BY <1>0, <1>27 DEF HelperNotStarted
<1>28. CASE Deadline
  BY <1>0, <1>28 DEF Deadline
<1>29. CASE GraceExpires
  BY <1>0, <1>29 DEF GraceExpires, HelperGone
<1>30. CASE Interrupt
  BY <1>0, <1>30 DEF Interrupt
<1>31. CASE HelperDies
  BY <1>0, <1>31 DEF HelperDies, HelperGone
<1>32. ASSUME NEW p \in Procs, ChangeUser(p) PROVE RootInv'
  BY <1>0, <1>32 DEF ChangeUser
<1> QED BY <1>1, <1>2, <1>3, <1>4, <1>5, <1>6, <1>7, <1>8, <1>9, <1>10, <1>11, <1>12, <1>13,
           <1>14, <1>15, <1>16, <1>17, <1>18, <1>19, <1>20, <1>21, <1>22, <1>23, <1>24,
           <1>25, <1>26, <1>27, <1>28, <1>29, <1>30, <1>31, <1>32 DEF Next, ProcStep, HelperStep, CallerStep

\* Who dies leaves children to the subreaper.
LEMMA DeathKeepsTree ==
    ASSUME TypesInv, SubreaperInv, Linux, helper # "gone", {Helper, OSInit} \cap Procs = {},
           NEW dying \in SUBSET Procs, AfterDeath(dying, Helper), UNCHANGED <<platform>>
    PROVE  SubreaperInv'
<1>1. Alive' = Alive \ dying
  BY DEF AfterDeath, Alive, TypesInv, OSInit
<1>2. \A p \in Alive' : parent'[p] = IF parent[p] \in dying THEN Helper ELSE parent[p]
  BY DEF AfterDeath, Alive
<1>3. /\ \A p \in Alive : parent[p] \in Alive \cup {Helper}
      /\ \A set \in SUBSET Alive : set # {} => \E p \in set : parent[p] \notin set
  BY DEF SubreaperInv
<1>4. \A p \in Alive' : parent'[p] \in Alive' \cup {Helper}
  BY <1>1, <1>2, <1>3
<1>5. ASSUME NEW set \in SUBSET Alive', set # {} PROVE \E p \in set : parent'[p] \notin set
  <2>1. PICK p \in set : parent[p] \notin set
    BY <1>1, <1>3, <1>5
  <2>2. parent'[p] \notin set
    BY <1>1, <1>2, <2>1 DEF Alive
  <2> QED BY <2>1, <2>2
<1> QED BY <1>4, <1>5 DEF SubreaperInv

\* Whoever stays alive with the same parent keeps the shape of the tree.
LEMMA SameTreeKeeps ==
    ASSUME SubreaperInv, Linux, helper # "gone", UNCHANGED <<platform>>,
           Alive' = Alive, \A p \in Alive : parent'[p] = parent[p]
    PROVE  SubreaperInv'
<1>1. /\ \A p \in Alive : parent[p] \in Alive \cup {Helper}
      /\ \A set \in SUBSET Alive : set # {} => \E p \in set : parent[p] \notin set
  BY DEF SubreaperInv
<1>2. \A p \in Alive' : parent'[p] \in Alive' \cup {Helper}
  BY <1>1
<1>3. ASSUME NEW set \in SUBSET Alive', set # {} PROVE \E p \in set : parent'[p] \notin set
  <2>1. PICK p \in set : parent[p] \notin set
    BY <1>1, <1>3
  <2> QED BY <2>1
<1> QED BY <1>2, <1>3 DEF SubreaperInv

\* Nobody leaves the tree of a subreaper while it is there.
LEMMA SubreaperKeep == TreeInv /\ [Next]_vars => SubreaperInv'
<1> SUFFICES ASSUME TreeInv, [Next]_vars PROVE SubreaperInv'
  OBVIOUS
<1>0. TypesInv /\ RootInv /\ SubreaperInv /\ Root \in Procs /\ {Helper, OSInit} \cap Procs = {}
  BY TreeOfProcesses DEF TreeInv
<1> USE DEF Linux, scene, procState, callerState, helperState, killState
<1>1. CASE UNCHANGED vars
  <2>1. CASE Linux /\ helper # "gone"
    <3>1. Alive' = Alive /\ \A p \in Alive : parent'[p] = parent[p]
      BY <1>0, <1>1 DEF vars, Alive
    <3> QED BY <1>0, <2>1, <3>1, <1>1, SameTreeKeeps DEF vars
  <2>2. CASE ~(Linux /\ helper # "gone")
    BY <2>2, <1>1 DEF vars, SubreaperInv
  <2> QED BY <2>1, <2>2
<1>2. ASSUME NEW p \in Procs, NEW q \in Procs, Fork(p, q) PROVE SubreaperInv'
  <2>1. CASE Linux /\ helper # "gone"
    <3>1. /\ p \in Alive /\ q \in Procs /\ proc[q] = "none" /\ UNCHANGED <<platform, helper>>
          /\ Alive' = Alive \cup {q} /\ q \notin Alive
          /\ parent'[q] = p /\ \A r \in Alive : parent'[r] = parent[r]
      BY <1>0, <1>2 DEF Fork, Alive, TypesInv
    <3>2. /\ \A r \in Alive : parent[r] \in Alive \cup {Helper}
          /\ \A set \in SUBSET Alive : set # {} => \E r \in set : parent[r] \notin set
      BY <1>0, <2>1 DEF SubreaperInv
    <3>3. \A r \in Alive' : parent'[r] \in Alive' \cup {Helper}
      BY <3>1, <3>2
    <3>4. ASSUME NEW set \in SUBSET Alive', set # {} PROVE \E r \in set : parent'[r] \notin set
      <4>1. CASE set = {q}
        BY <3>1, <4>1
      <4>2. CASE set # {q}
        <5>1. set \ {q} \in SUBSET Alive /\ set \ {q} # {}
          BY <3>1, <3>4, <4>2
        <5>2. PICK r \in set \ {q} : parent[r] \notin set \ {q}
          BY <3>2, <5>1
        <5>3. parent'[r] = parent[r] /\ parent[r] # q
          BY <1>0, <3>1, <3>2, <5>1, <5>2
        <5> QED BY <5>2, <5>3
      <4> QED BY <4>1, <4>2
    <3> QED BY <3>3, <3>4 DEF SubreaperInv
  <2>2. CASE ~(Linux /\ helper # "gone")
    BY <2>2, <1>2 DEF Fork, SubreaperInv
  <2> QED BY <2>1, <2>2
<1>3. ASSUME NEW p \in Procs, Exit(p) PROVE SubreaperInv'
  <2>1. CASE Linux /\ helper # "gone"
    BY <1>0, <2>1, <1>3, DeathKeepsTree DEF Exit, Adopter
  <2>2. CASE ~(Linux /\ helper # "gone")
    BY <2>2, <1>3 DEF Exit, SubreaperInv
  <2> QED BY <2>1, <2>2
<1>4. ASSUME NEW p \in Procs, LeaveGroup(p) PROVE SubreaperInv'
  <2>1. CASE Linux /\ helper # "gone"
    <3>1. Alive' = Alive /\ \A r \in Alive : parent'[r] = parent[r]
      BY <1>0, <1>4 DEF LeaveGroup, Alive
    <3> QED BY <1>0, <2>1, <3>1, <1>4, SameTreeKeeps DEF LeaveGroup
  <2>2. CASE ~(Linux /\ helper # "gone")
    BY <2>2, <1>4 DEF LeaveGroup, SubreaperInv
  <2> QED BY <2>1, <2>2
<1>5. ASSUME NEW p \in Procs, ReapOwnChild(p) PROVE SubreaperInv'
  <2>1. CASE Linux /\ helper # "gone"
    <3>1. Alive' = Alive /\ \A r \in Alive : parent'[r] = parent[r]
      BY <1>0, <1>5 DEF ReapOwnChild, TypesInv, Alive
    <3> QED BY <1>0, <2>1, <3>1, <1>5, SameTreeKeeps DEF ReapOwnChild
  <2>2. CASE ~(Linux /\ helper # "gone")
    BY <2>2, <1>5 DEF ReapOwnChild, SubreaperInv
  <2> QED BY <2>1, <2>2
<1>6. CASE InstallHandlers
  <2>1. CASE Linux /\ helper # "gone"
    <3>1. Alive' = Alive /\ \A p \in Alive : parent'[p] = parent[p]
      BY <1>0, <1>6 DEF InstallHandlers, Alive
    <3> QED BY <1>0, <2>1, <3>1, <1>6, SameTreeKeeps DEF InstallHandlers
  <2>2. CASE ~(Linux /\ helper # "gone")
    BY <2>2, <1>6 DEF InstallHandlers, SubreaperInv
  <2> QED BY <2>1, <2>2
<1>7. CASE ReadRequest
  <2>1. CASE Linux /\ helper # "gone"
    <3>1. Alive' = Alive /\ \A p \in Alive : parent'[p] = parent[p]
      BY <1>0, <1>7 DEF ReadRequest, Alive
    <3> QED BY <1>0, <2>1, <3>1, <1>7, SameTreeKeeps DEF ReadRequest
  <2>2. CASE ~(Linux /\ helper # "gone")
    BY <2>2, <1>7 DEF ReadRequest, SubreaperInv
  <2> QED BY <2>1, <2>2
<1>8. CASE StartProgram
  <2>1. Alive' = {Root} /\ parent'[Root] = Helper
    BY <1>0, <1>8 DEF StartProgram, Alive, TypesInv, RootInv
  <2>2. Root # Helper
    BY <1>0
  <2> QED BY <2>1, <2>2 DEF SubreaperInv
<1>9. CASE StartFails
  <2>1. CASE Linux /\ helper # "gone"
    <3>1. Alive' = Alive /\ \A p \in Alive : parent'[p] = parent[p]
      BY <1>0, <1>9 DEF StartFails, Alive
    <3> QED BY <1>0, <2>1, <3>1, <1>9, SameTreeKeeps DEF StartFails
  <2>2. CASE ~(Linux /\ helper # "gone")
    BY <2>2, <1>9 DEF StartFails, SubreaperInv
  <2> QED BY <2>1, <2>2
<1>10. CASE ChildAssigned
  <2>1. CASE Linux /\ helper # "gone"
    <3>1. Alive' = Alive /\ \A p \in Alive : parent'[p] = parent[p]
      BY <1>0, <1>10 DEF ChildAssigned, Alive
    <3> QED BY <1>0, <2>1, <3>1, <1>10, SameTreeKeeps DEF ChildAssigned
  <2>2. CASE ~(Linux /\ helper # "gone")
    BY <2>2, <1>10 DEF ChildAssigned, SubreaperInv
  <2> QED BY <2>1, <2>2
<1>11. CASE WaitEnds
  <2>1. CASE Linux /\ helper # "gone"
    <3>1. Alive' = Alive /\ \A p \in Alive : parent'[p] = parent[p]
      BY <1>0, <1>11 DEF WaitEnds, Alive
    <3> QED BY <1>0, <2>1, <3>1, <1>11, SameTreeKeeps DEF WaitEnds
  <2>2. CASE ~(Linux /\ helper # "gone")
    BY <2>2, <1>11 DEF WaitEnds, SubreaperInv
  <2> QED BY <2>1, <2>2
<1>12. CASE WriteReport
  <2>1. CASE Linux /\ helper # "gone"
    <3>1. Alive' = Alive /\ \A p \in Alive : parent'[p] = parent[p]
      BY <1>0, <1>12 DEF WriteReport, Alive
    <3> QED BY <1>0, <2>1, <3>1, <1>12, SameTreeKeeps DEF WriteReport
  <2>2. CASE ~(Linux /\ helper # "gone")
    BY <2>2, <1>12 DEF WriteReport, SubreaperInv
  <2> QED BY <2>1, <2>2
<1>13. CASE HelperExits
  BY <1>13 DEF HelperExits, HelperGone, SubreaperInv
<1>14. CASE ScanDone
  <2>1. CASE Linux /\ helper # "gone"
    <3>1. Alive' = Alive /\ \A p \in Alive : parent'[p] = parent[p]
      BY <1>0, <1>14 DEF ScanDone, Alive
    <3> QED BY <1>0, <2>1, <3>1, <1>14, SameTreeKeeps DEF ScanDone
  <2>2. CASE ~(Linux /\ helper # "gone")
    BY <2>2, <1>14 DEF ScanDone, SubreaperInv
  <2> QED BY <2>1, <2>2
<1>15. CASE ReapReady
  <2>1. CASE Linux /\ helper # "gone"
    <3>1. Alive' = Alive /\ \A p \in Alive : parent'[p] = parent[p]
      BY <1>0, <1>15 DEF ReapReady, TypesInv, Alive
    <3> QED BY <1>0, <2>1, <3>1, <1>15, SameTreeKeeps DEF ReapReady
  <2>2. CASE ~(Linux /\ helper # "gone")
    BY <2>2, <1>15 DEF ReapReady, SubreaperInv
  <2> QED BY <2>1, <2>2
<1>16. CASE KillLoopEnds
  <2>1. CASE Linux /\ helper # "gone"
    <3>1. Alive' = Alive /\ \A p \in Alive : parent'[p] = parent[p]
      BY <1>0, <1>16 DEF KillLoopEnds, Alive
    <3> QED BY <1>0, <2>1, <3>1, <1>16, SameTreeKeeps DEF KillLoopEnds
  <2>2. CASE ~(Linux /\ helper # "gone")
    BY <2>2, <1>16 DEF KillLoopEnds, SubreaperInv
  <2> QED BY <2>1, <2>2
<1>17. CASE NextRound
  <2>1. CASE Linux /\ helper # "gone"
    <3>1. Alive' = Alive /\ \A p \in Alive : parent'[p] = parent[p]
      BY <1>0, <1>17 DEF NextRound, StartRound, Alive
    <3> QED BY <1>0, <2>1, <3>1, <1>17, SameTreeKeeps DEF NextRound
  <2>2. CASE ~(Linux /\ helper # "gone")
    BY <2>2, <1>17 DEF NextRound, StartRound, SubreaperInv
  <2> QED BY <2>1, <2>2
<1>18. ASSUME NEW p \in Procs, WaitReaps(p) PROVE SubreaperInv'
  <2>1. CASE Linux /\ helper # "gone"
    <3>1. Alive' = Alive /\ \A r \in Alive : parent'[r] = parent[r]
      BY <1>0, <1>18 DEF WaitReaps, TypesInv, Alive
    <3> QED BY <1>0, <2>1, <3>1, <1>18, SameTreeKeeps DEF WaitReaps
  <2>2. CASE ~(Linux /\ helper # "gone")
    BY <2>2, <1>18 DEF WaitReaps, SubreaperInv
  <2> QED BY <2>1, <2>2
<1>19. ASSUME NEW p \in Procs, ScanOne(p) PROVE SubreaperInv'
  <2>1. CASE Linux /\ helper # "gone"
    <3>1. Alive' = Alive /\ \A r \in Alive : parent'[r] = parent[r]
      BY <1>0, <1>19 DEF ScanOne, Alive
    <3> QED BY <1>0, <2>1, <3>1, <1>19, SameTreeKeeps DEF ScanOne
  <2>2. CASE ~(Linux /\ helper # "gone")
    BY <2>2, <1>19 DEF ScanOne, SubreaperInv
  <2> QED BY <2>1, <2>2
<1>20. ASSUME NEW p \in Procs, SignalOne(p) PROVE SubreaperInv'
  <2>1. CASE Linux /\ AfterDeath({p}, Helper)
    BY <1>0, <2>1, <1>20, DeathKeepsTree DEF SignalOne
  <2>2. CASE Linux /\ UNCHANGED procState
    <3>1. Alive' = Alive /\ \A r \in Alive : parent'[r] = parent[r]
      BY <2>2 DEF Alive
    <3> QED BY <1>0, <2>2, <3>1, <1>20, SameTreeKeeps DEF SignalOne
  <2>3. CASE ~Linux
    BY <2>3, <1>20 DEF SignalOne, SubreaperInv
  <2> QED BY <1>20, <2>1, <2>2, <2>3 DEF SignalOne
<1>21. CASE Terminate
  <2>1. CASE ~Linux
    BY <2>1, <1>21, TerminateDoes DEF StartRound, SubreaperInv
  <2>2. CASE HelperGone
    BY <2>2 DEF HelperGone, SubreaperInv
  <2>3. CASE UNCHANGED procState /\ helper # "gone" /\ Linux
    <3>1. Alive' = Alive
      BY <2>3 DEF Alive
    <3> QED BY <1>0, <2>3, <3>1, <1>21, TerminateDoes, SameTreeKeeps
  <2> QED BY <2>1, <2>2, <2>3, <1>21, TerminateDoes
<1>22. CASE SendRequest
  <2>1. CASE Linux /\ helper # "gone"
    <3>1. Alive' = Alive /\ \A p \in Alive : parent'[p] = parent[p]
      BY <1>0, <1>22 DEF SendRequest, Alive
    <3> QED BY <1>0, <2>1, <3>1, <1>22, SameTreeKeeps DEF SendRequest
  <2>2. CASE ~(Linux /\ helper # "gone")
    BY <2>2, <1>22 DEF SendRequest, SubreaperInv
  <2> QED BY <2>1, <2>2
<1>23. CASE SendFails
  <2>1. CASE Linux /\ helper # "gone"
    <3>1. Alive' = Alive /\ \A p \in Alive : parent'[p] = parent[p]
      BY <1>0, <1>23 DEF SendFails, Alive
    <3> QED BY <1>0, <2>1, <3>1, <1>23, SameTreeKeeps DEF SendFails
  <2>2. CASE ~(Linux /\ helper # "gone")
    BY <2>2, <1>23 DEF SendFails, SubreaperInv
  <2> QED BY <2>1, <2>2
<1>24. CASE WaitReturns
  <2>1. CASE Linux /\ helper # "gone"
    <3>1. Alive' = Alive /\ \A p \in Alive : parent'[p] = parent[p]
      BY <1>0, <1>24 DEF WaitReturns, Alive
    <3> QED BY <1>0, <2>1, <3>1, <1>24, SameTreeKeeps DEF WaitReturns
  <2>2. CASE ~(Linux /\ helper # "gone")
    BY <2>2, <1>24 DEF WaitReturns, SubreaperInv
  <2> QED BY <2>1, <2>2
<1>25. CASE ReadStatus
  <2>1. CASE Linux /\ helper # "gone"
    <3>1. Alive' = Alive /\ \A p \in Alive : parent'[p] = parent[p]
      BY <1>0, <1>25 DEF ReadStatus, Alive
    <3> QED BY <1>0, <2>1, <3>1, <1>25, SameTreeKeeps DEF ReadStatus
  <2>2. CASE ~(Linux /\ helper # "gone")
    BY <2>2, <1>25 DEF ReadStatus, SubreaperInv
  <2> QED BY <2>1, <2>2
<1>26. CASE KillReturns
  <2>1. CASE Linux /\ helper # "gone"
    <3>1. Alive' = Alive /\ \A p \in Alive : parent'[p] = parent[p]
      BY <1>0, <1>26 DEF KillReturns, Alive
    <3> QED BY <1>0, <2>1, <3>1, <1>26, SameTreeKeeps DEF KillReturns
  <2>2. CASE ~(Linux /\ helper # "gone")
    BY <2>2, <1>26 DEF KillReturns, SubreaperInv
  <2> QED BY <2>1, <2>2
<1>27. CASE HelperNotStarted
  BY <1>27 DEF HelperNotStarted, HelperGone, SubreaperInv
<1>28. CASE Deadline
  <2>1. CASE Linux /\ helper # "gone"
    <3>1. Alive' = Alive /\ \A p \in Alive : parent'[p] = parent[p]
      BY <1>0, <1>28 DEF Deadline, Alive
    <3> QED BY <1>0, <2>1, <3>1, <1>28, SameTreeKeeps DEF Deadline
  <2>2. CASE ~(Linux /\ helper # "gone")
    BY <2>2, <1>28 DEF Deadline, SubreaperInv
  <2> QED BY <2>1, <2>2
<1>29. CASE GraceExpires
  BY <1>29 DEF GraceExpires, HelperGone, SubreaperInv
<1>30. CASE Interrupt
  <2>1. CASE Linux /\ helper # "gone"
    <3>1. Alive' = Alive /\ \A p \in Alive : parent'[p] = parent[p]
      BY <1>0, <1>30 DEF Interrupt, Alive
    <3> QED BY <1>0, <2>1, <3>1, <1>30, SameTreeKeeps DEF Interrupt
  <2>2. CASE ~(Linux /\ helper # "gone")
    BY <2>2, <1>30 DEF Interrupt, SubreaperInv
  <2> QED BY <2>1, <2>2
<1>31. CASE HelperDies
  BY <1>31 DEF HelperDies, HelperGone, SubreaperInv
<1>32. ASSUME NEW p \in Procs, ChangeUser(p) PROVE SubreaperInv'
  <2>1. CASE Linux /\ helper # "gone"
    <3>1. Alive' = Alive /\ \A r \in Alive : parent'[r] = parent[r]
      BY <1>0, <1>32 DEF ChangeUser, Alive
    <3> QED BY <1>0, <2>1, <3>1, <1>32, SameTreeKeeps DEF ChangeUser
  <2>2. CASE ~(Linux /\ helper # "gone")
    BY <2>2, <1>32 DEF ChangeUser, SubreaperInv
  <2> QED BY <2>1, <2>2
<1> QED BY <1>1, <1>2, <1>3, <1>4, <1>5, <1>6, <1>7, <1>8, <1>9, <1>10, <1>11, <1>12, <1>13,
           <1>14, <1>15, <1>16, <1>17, <1>18, <1>19, <1>20, <1>21, <1>22, <1>23, <1>24,
           <1>25, <1>26, <1>27, <1>28, <1>29, <1>30, <1>31, <1>32 DEF Next, ProcStep, HelperStep, CallerStep

\* A tree without children of the subreaper is empty.
LEMMA NoChildNoTree ==
    ASSUME SubreaperInv, Linux, helper # "gone", ChildrenOf(Helper) = {} PROVE Alive = {}
<1> SUFFICES ASSUME Alive # {} PROVE FALSE
  OBVIOUS
<1>1. PICK p \in Alive : parent[p] \notin Alive
  BY DEF SubreaperInv
<1>2. parent[p] = Helper
  BY <1>1 DEF SubreaperInv
<1> QED BY <1>1, <1>2 DEF ChildrenOf, Alive

\* Once the helper says that the tree has exited nothing of it is left to start anything.
LEMMA ReportKeep == TreeInv /\ [Next]_vars => (ReportInv /\ (caller = "result" => SaidExited))'
<1> SUFFICES ASSUME TreeInv, [Next]_vars PROVE (ReportInv /\ (caller = "result" => SaidExited))'
  OBVIOUS
<1>0. /\ TypesInv /\ RootInv /\ SubreaperInv /\ ReportInv /\ (caller = "result" => SaidExited)
      /\ Root \in Procs /\ {Helper, OSInit} \cap Procs = {}
  BY TreeOfProcesses DEF TreeInv
<1> USE DEF SaysExited, SaidExited, ReportInv, Linux, Alive, scene, procState, callerState,
            helperState, killState
<1>1. CASE UNCHANGED vars
  BY <1>0, <1>1 DEF vars
<1>2. ASSUME NEW p \in Procs, NEW q \in Procs, Fork(p, q) PROVE (ReportInv /\ (caller = "result" => SaidExited))'
  BY <1>0, <1>2 DEF Fork, TypesInv
<1>3. ASSUME NEW p \in Procs, Exit(p) PROVE (ReportInv /\ (caller = "result" => SaidExited))'
  BY <1>0, <1>3 DEF Exit, AfterDeath, TypesInv
<1>4. ASSUME NEW p \in Procs, LeaveGroup(p) PROVE (ReportInv /\ (caller = "result" => SaidExited))'
  BY <1>0, <1>4 DEF LeaveGroup
<1>5. ASSUME NEW p \in Procs, ReapOwnChild(p) PROVE (ReportInv /\ (caller = "result" => SaidExited))'
  BY <1>0, <1>5 DEF ReapOwnChild
<1>6. CASE InstallHandlers
  BY <1>0, <1>6 DEF InstallHandlers
<1>7. CASE ReadRequest
  BY <1>0, <1>7 DEF ReadRequest
<1>8. CASE StartProgram
  BY <1>0, <1>8 DEF StartProgram
<1>9. CASE StartFails
  BY <1>0, <1>9 DEF StartFails
<1>10. CASE ChildAssigned
  BY <1>0, <1>10 DEF ChildAssigned
<1>11. CASE WaitEnds
  <2>1. SaidExited => FALSE
    BY <1>0, <1>11 DEF WaitEnds
  <2>2. CASE Linux
    <3>1. ChildrenOf(Helper) = {}
      BY <2>2, <1>11 DEF WaitEnds, TreeIsGone
    <3>2. Alive = {}
      BY <1>0, <2>2, <3>1, <1>11, NoChildNoTree DEF WaitEnds
    <3>3. code = "own"
      BY <1>0, <3>1, <1>11 DEF WaitEnds, RootInv, ChildrenOf
    <3> QED BY <1>0, <2>1, <2>2, <3>2, <3>3, <1>11 DEF WaitEnds
  <2>3. CASE ~Linux
    <3>1. code = "own" /\ \A p \in group : proc[p] = "gone"
      BY <1>0, <2>3, <1>11 DEF WaitEnds, TreeIsGone, RootInv
    <3> QED BY <1>0, <2>1, <2>3, <3>1, <1>11 DEF WaitEnds
  <2> QED BY <2>2, <2>3
<1>12. CASE WriteReport
  <2>1. /\ SaysExited' => SaysExited
        /\ SaidExited => SaidExited'
    BY <1>0, <1>12 DEF WriteReport, TypesInv
  <2> QED BY <1>0, <2>1, <1>12 DEF WriteReport
<1>13. CASE HelperExits
  <2>1. /\ SaysExited' => SaidExited
        /\ (caller = "result" => SaidExited) => (caller' = "result" => SaidExited')
    BY <1>13 DEF HelperExits, HelperGone
  <2>2. Alive' = Alive /\ (\A p \in Procs : proc[p] = "gone" => proc'[p] = "gone")
    BY <1>0, <1>13 DEF HelperExits, HelperGone, TypesInv
  <2>3. UNCHANGED <<platform, group, code>> /\ helper' = "gone"
    BY <1>13 DEF HelperExits, HelperGone
  <2> QED BY <1>0, <2>1, <2>2, <2>3 DEF TypesInv
<1>14. CASE ScanDone
  BY <1>0, <1>14 DEF ScanDone
<1>15. CASE ReapReady
  BY <1>0, <1>15 DEF ReapReady, ChildrenOf
<1>16. CASE KillLoopEnds
  BY <1>0, <1>16 DEF KillLoopEnds
<1>17. CASE NextRound
  BY <1>0, <1>17 DEF NextRound, StartRound
<1>18. ASSUME NEW p \in Procs, WaitReaps(p) PROVE (ReportInv /\ (caller = "result" => SaidExited))'
  BY <1>0, <1>18 DEF WaitReaps
<1>19. ASSUME NEW p \in Procs, ScanOne(p) PROVE (ReportInv /\ (caller = "result" => SaidExited))'
  BY <1>0, <1>19 DEF ScanOne
<1>20. ASSUME NEW p \in Procs, SignalOne(p) PROVE (ReportInv /\ (caller = "result" => SaidExited))'
  BY <1>0, <1>20 DEF SignalOne, AfterDeath
<1>21. CASE Terminate
  <2>1. SaysExited' => SaidExited
    BY <1>21, TerminateDoes DEF StartRound, HelperGone
  <2>2. SaidExited => Alive' = Alive \/ ~Linux
    BY <1>0, <1>21, TerminateDoes DEF StartRound, HelperGone, TypesInv
  <2> QED BY <1>0, <2>1, <2>2, <1>21, TerminateDoes DEF StartRound, HelperGone, TypesInv
<1>22. CASE SendRequest
  BY <1>0, <1>22 DEF SendRequest
<1>23. CASE SendFails
  BY <1>0, <1>23 DEF SendFails
<1>24. CASE WaitReturns
  BY <1>0, <1>24 DEF WaitReturns
<1>25. CASE ReadStatus
  BY <1>0, <1>25 DEF ReadStatus
<1>26. CASE KillReturns
  BY <1>0, <1>26 DEF KillReturns
<1>27. CASE HelperNotStarted
  BY <1>0, <1>27 DEF HelperNotStarted
<1>28. CASE Deadline
  BY <1>0, <1>28 DEF Deadline
<1>29. CASE GraceExpires
  <2>1. /\ SaysExited' => SaidExited
        /\ (caller = "result" => SaidExited) => (caller' = "result" => SaidExited')
    BY <1>29 DEF GraceExpires, HelperGone
  <2>2. Alive' = Alive /\ (\A p \in Procs : proc[p] = "gone" => proc'[p] = "gone")
    BY <1>0, <1>29 DEF GraceExpires, HelperGone, TypesInv
  <2>3. UNCHANGED <<platform, group, code>> /\ helper' = "gone"
    BY <1>29 DEF GraceExpires, HelperGone
  <2> QED BY <1>0, <2>1, <2>2, <2>3 DEF TypesInv
<1>30. CASE Interrupt
  BY <1>0, <1>30 DEF Interrupt
<1>31. CASE HelperDies
  <2>1. /\ SaysExited' => SaidExited
        /\ (caller = "result" => SaidExited) => (caller' = "result" => SaidExited')
    BY <1>31 DEF HelperDies, HelperGone
  <2>2. Alive' = Alive /\ (\A p \in Procs : proc[p] = "gone" => proc'[p] = "gone")
    BY <1>0, <1>31 DEF HelperDies, HelperGone, TypesInv
  <2>3. UNCHANGED <<platform, group, code>> /\ helper' = "gone"
    BY <1>31 DEF HelperDies, HelperGone
  <2> QED BY <1>0, <2>1, <2>2, <2>3 DEF TypesInv
<1>32. ASSUME NEW p \in Procs, ChangeUser(p) PROVE (ReportInv /\ (caller = "result" => SaidExited))'
  BY <1>0, <1>32 DEF ChangeUser
<1> QED BY <1>1, <1>2, <1>3, <1>4, <1>5, <1>6, <1>7, <1>8, <1>9, <1>10, <1>11, <1>12, <1>13,
           <1>14, <1>15, <1>16, <1>17, <1>18, <1>19, <1>20, <1>21, <1>22, <1>23, <1>24,
           <1>25, <1>26, <1>27, <1>28, <1>29, <1>30, <1>31, <1>32 DEF Next, ProcStep, HelperStep, CallerStep

\* The invariant of a call for a process tree.
LEMMA TreeNext == TreeInv /\ [Next]_vars => TreeInv'
BY TypesKeep, RootKeep, SubreaperKeep, ReportKeep DEF TreeInv

LEMMA ResultIsWhole == TreeInv => ResultMeansTreeGone
BY DEF TreeInv, TypesInv, ReportInv, SaysExited, ResultMeansTreeGone, TreeAlive, Alive

-----------------------------------------------------------------------------
(* A timeout kills the tree, when the deadline of the kill loop admits as  *)
(* many rounds as its processes can die or change their user.              *)

\* Nobody comes back from death, and a foreign process is foreign for good.
LEMMA DeadStays ==
    ASSUME TreeInv, [Next]_vars, NEW p \in Procs, proc[p] \in {"zombie", "gone"}
    PROVE  proc'[p] \in {"zombie", "gone"}
<1>0. TypesInv /\ RootInv
  BY DEF TreeInv
<1>1. CASE StartProgram
  BY <1>0, <1>1 DEF StartProgram, RootInv
<1>2. CASE ProcStep
  BY <1>0, <1>2 DEF ProcStep, Fork, Exit, ChangeUser, LeaveGroup, ReapOwnChild, AfterDeath, TypesInv,
                    Alive, procState
<1>3. CASE UNCHANGED procState
  BY <1>3 DEF procState
<1>4. CASE HelperGone
  BY <1>4 DEF HelperGone
<1>5. CASE Terminate
  BY <1>3, <1>4, <1>5, TerminateDoes DEF StartRound, AfterDeath, Alive
<1>6. ASSUME NEW q \in Procs, WaitReaps(q) \/ SignalOne(q) PROVE proc'[p] \in {"zombie", "gone"}
  BY <1>0, <1>6 DEF WaitReaps, SignalOne, AfterDeath, procState, Alive, TypesInv
<1>7. CASE ReapReady
  BY <1>0, <1>7 DEF ReapReady
<1>8. CASE HelperExits \/ GraceExpires \/ HelperDies
  BY <1>4, <1>8 DEF HelperExits, GraceExpires, HelperDies
<1> QED
  BY <1>1, <1>2, <1>3, <1>5, <1>6, <1>7, <1>8
     DEF Next, HelperStep, CallerStep, vars, procState, InstallHandlers, ReadRequest, StartFails,
         ChildAssigned, WaitEnds, WriteReport, ScanDone, KillLoopEnds, NextRound, ScanOne,
         SendRequest, SendFails, WaitReturns, ReadStatus, KillReturns, HelperNotStarted,
         Deadline, Interrupt

LEMMA ForeignStays == ASSUME [Next]_vars PROVE foreign \subseteq foreign'
<1> USE DEF scene
<1>1. CASE ProcStep
  BY <1>1 DEF ProcStep, Fork, Exit, ChangeUser, LeaveGroup, ReapOwnChild
<1>2. CASE HelperStep
  BY <1>2 DEF HelperStep, InstallHandlers, ReadRequest, StartProgram, StartFails, ChildAssigned,
              WaitEnds, WriteReport, HelperExits, ScanDone, ReapReady, KillLoopEnds, NextRound,
              WaitReaps, ScanOne, SignalOne
<1>3. CASE CallerStep
  BY <1>3 DEF CallerStep, SendRequest, SendFails, WaitReturns, ReadStatus, KillReturns
<1> QED
  BY <1>1, <1>2, <1>3
     DEF Next, vars, Terminate, HelperNotStarted, Deadline, GraceExpires, Interrupt, HelperDies

\* Two things can still happen to each process.
LEMMA FatesAreTwo ==
    ASSUME IsFiniteSet(Procs)
    PROVE  IsFiniteSet(Fates) /\ Cardinality(Fates) = 2 * Cardinality(Procs)
<1>1. IsFiniteSet({"dies"}) /\ Cardinality({"dies"}) = 1 /\ "changes" \notin {"dies"}
  BY FS_Singleton
<1>2. IsFiniteSet({"dies"} \cup {"changes"}) /\ Cardinality({"dies"} \cup {"changes"}) = 2
  BY <1>1, FS_AddElement
<1>3. {"dies", "changes"} = {"dies"} \cup {"changes"}
  OBVIOUS
<1>4. IsFiniteSet({"dies", "changes"}) /\ Cardinality({"dies", "changes"}) = 2
  BY <1>2, <1>3
<1>5. IsFiniteSet(Fates) /\ Cardinality(Fates) = Cardinality(Procs) * Cardinality({"dies", "changes"})
  BY <1>4, FS_Product DEF Fates
<1>6. Cardinality(Procs) \in Nat
  BY FS_CardinalityType
<1> QED BY <1>4, <1>5, <1>6

\* So less and less is left that can happen to the processes.
LEMMA LeftShrinks ==
    ASSUME IsFiniteSet(Procs), TreeInv, [Next]_vars
    PROVE  /\ Cardinality(Left) \in Nat /\ Cardinality(Left') \in Nat /\ Cardinality(Fates) \in Nat
           /\ Cardinality(Left) <= Cardinality(Fates) /\ Cardinality(Left') <= Cardinality(Left)
           /\ \A p \in Fresh : p \notin Fresh' => Cardinality(Left') < Cardinality(Left)
           /\ \A p \in Fresh \ foreign : p \in foreign' => Cardinality(Left') < Cardinality(Left)
<1>1. Fresh' \subseteq Fresh
  <2> SUFFICES ASSUME NEW p \in Procs, p \in Fresh', p \notin Fresh PROVE FALSE
    BY DEF Fresh
  <2>1. proc[p] \in {"zombie", "gone"}
    BY DEF Fresh, TreeInv, TypesInv
  <2> QED BY <2>1, DeadStays DEF Fresh
<1>2. foreign \subseteq foreign' /\ Fresh \subseteq Procs
  BY ForeignStays DEF Fresh
<1>3. IsFiniteSet(Fates) /\ Cardinality(Fates) \in Nat
  BY FatesAreTwo, FS_CardinalityType
<1>4. Left \subseteq Fates /\ Left' \subseteq Left
  BY <1>1, <1>2 DEF Left, Fates
<1>5. IsFiniteSet(Left) /\ IsFiniteSet(Left')
  BY <1>3, <1>4, FS_Subset
<1>6. /\ Cardinality(Left) \in Nat /\ Cardinality(Left') \in Nat
      /\ Cardinality(Left) <= Cardinality(Fates) /\ Cardinality(Left') <= Cardinality(Left)
  BY <1>3, <1>4, <1>5, FS_Subset, FS_CardinalityType
<1>7. ASSUME NEW x \in Left, x \notin Left' PROVE Cardinality(Left') < Cardinality(Left)
  BY <1>4, <1>5, <1>6, <1>7, FS_Subset
<1>8. ASSUME NEW p \in Fresh, p \notin Fresh' PROVE Cardinality(Left') < Cardinality(Left)
  <2>1. <<p, "dies">> \in Left /\ <<p, "dies">> \notin Left'
    BY <1>8 DEF Left
  <2> QED BY <1>7, <2>1
<1>9. ASSUME NEW p \in Fresh \ foreign, p \in foreign' PROVE Cardinality(Left') < Cardinality(Left)
  <2>1. <<p, "changes">> \in Left /\ <<p, "changes">> \notin Left'
    BY <1>9 DEF Left
  <2> QED BY <1>7, <2>1
<1> QED BY <1>3, <1>6, <1>8, <1>9

\* Only the helper starts a tree, and only who can be signalled starts another
\* that can be.
LEMMA NobodyRises ==
    ASSUME TreeInv, [Next]_vars, Ours = {}, helper # "start" PROVE Ours' = {}
<1>0. TypesInv /\ \A p \in Procs : proc[p] = "alive" => p \in foreign
  BY DEF TreeInv, Ours, Alive
<1> SUFFICES ASSUME NEW p \in Procs PROVE proc'[p] = "alive" => p \in foreign'
  BY DEF Ours, Alive
<1>a. foreign \subseteq foreign'
  BY ForeignStays
<1>b. CASE proc'[p] = proc[p] \/ proc'[p] # "alive"
  BY <1>0, <1>a, <1>b
<1>1. ASSUME NEW r \in Procs, NEW q \in Procs, Fork(r, q) PROVE proc'[p] = "alive" => p \in foreign'
  BY <1>0, <1>a, <1>1 DEF Fork, TypesInv, Alive
<1>2. CASE ProcStep
  <2>1. ASSUME NEW q \in Procs, Exit(q) \/ ChangeUser(q) \/ LeaveGroup(q) \/ ReapOwnChild(q)
        PROVE  proc'[p] = proc[p] \/ proc'[p] # "alive"
    BY <1>0, <2>1 DEF Exit, AfterDeath, ChangeUser, LeaveGroup, ReapOwnChild, TypesInv, procState
  <2> QED BY <1>1, <1>2, <1>b, <2>1 DEF ProcStep
<1>3. CASE UNCHANGED procState
  BY <1>b, <1>3 DEF procState
<1>4. CASE HelperGone
  BY <1>0, <1>b, <1>4 DEF HelperGone
<1>5. ASSUME NEW dying \in SUBSET Procs, NEW h, AfterDeath(dying, h)
      PROVE  proc'[p] = "alive" => p \in foreign'
  BY <1>0, <1>b, <1>5 DEF AfterDeath
<1>6. CASE Terminate
  BY <1>0, <1>3, <1>4, <1>5, <1>6, TerminateDoes DEF StartRound, Alive
<1>7. ASSUME NEW q \in Procs, WaitReaps(q) \/ SignalOne(q)
      PROVE  proc'[p] = "alive" => p \in foreign'
  <2>1. CASE WaitReaps(q)
    BY <1>0, <1>b, <2>1 DEF WaitReaps, TypesInv
  <2>2. CASE SignalOne(q)
    BY <1>3, <1>5, <2>2 DEF SignalOne
  <2> QED BY <1>7, <2>1, <2>2
<1>8. CASE ReapReady
  BY <1>0, <1>b, <1>8 DEF ReapReady
<1>9. CASE HelperExits \/ GraceExpires \/ HelperDies
  BY <1>4, <1>9 DEF HelperExits, GraceExpires, HelperDies
<1> QED
  BY <1>2, <1>3, <1>6, <1>7, <1>8, <1>9
     DEF Next, HelperStep, CallerStep, vars, procState, InstallHandlers, ReadRequest,
         StartProgram, StartFails, ChildAssigned, WaitEnds, WriteReport, ScanDone, KillLoopEnds,
         NextRound, ScanOne, SendRequest, SendFails, WaitReturns, ReadStatus, KillReturns,
         HelperNotStarted, Deadline, Interrupt

\* Only the deadline sends SIGTERM while the caller waits for its result.
LEMMA SignalKeep == TreeInv /\ SignalInv /\ [Next]_vars => SignalInv'
<1> SUFFICES ASSUME TreeInv, SignalInv, [Next]_vars PROVE SignalInv'
  OBVIOUS
<1> USE DEF SignalInv, scene, procState, callerState, helperState
<1>1. CASE UNCHANGED <<caller, helper, terms>>
  BY <1>1
<1>2. CASE ProcStep
  BY <1>1, <1>2 DEF ProcStep, Fork, Exit, ChangeUser, LeaveGroup, ReapOwnChild
<1>3. CASE HelperStep
  <2>1. /\ UNCHANGED <<caller, terms>> /\ helper # "gone"
        /\ helper' \in {"scan", "signal", "reap"} => helper \in {"scan", "signal", "reap"}
    BY <1>3 DEF HelperStep, InstallHandlers, ReadRequest, StartProgram, StartFails,
                ChildAssigned, WaitEnds, WriteReport, HelperExits, HelperGone, ScanDone,
                ReapReady, KillLoopEnds, NextRound, StartRound, WaitReaps, ScanOne, SignalOne
  <2> QED BY <2>1
<1>4. CASE Terminate
  BY <1>4, TerminateDoes DEF HelperGone
<1>5. CASE CallerStep
  BY <1>5 DEF CallerStep, SendRequest, SendFails, WaitReturns, ReadStatus, KillReturns
<1>6. CASE HelperNotStarted
  BY <1>6 DEF HelperNotStarted
<1>7. CASE Deadline
  BY <1>7 DEF Deadline
<1>8. CASE Interrupt
  BY <1>8 DEF Interrupt
<1>9. CASE GraceExpires \/ HelperDies
  BY <1>9 DEF GraceExpires, HelperDies, HelperGone
<1> QED BY <1>1, <1>2, <1>3, <1>4, <1>5, <1>6, <1>7, <1>8, <1>9 DEF Next, vars

\* Whoever is alive when a round begins is doomed: the ppids that lead from the
\* process to the helper are still to be read.
LEMMA StartDooms ==
    ASSUME SubreaperInv, Linux, helper # "gone", StartRound, UNCHANGED <<proc, parent>>,
           NEW p \in Alive
    PROVE  Doomed(p)'
<1>1. Alive' = Alive /\ helper' = "scan" /\ Alive \subseteq todo' /\ Alive \subseteq Procs
  BY DEF StartRound, Alive
<1>2. \A q \in Alive : parent'[q] \in Alive \cup {Helper} /\ q \in todo'
  BY <1>1 DEF SubreaperInv
<1>3. \E line \in SUBSET Alive :
        /\ p \in line
        /\ \A q \in line : parent'[q] \in line \cup {Helper} /\ q \in todo'
  BY <1>2
<1> QED BY <1>1, <1>3 DEF Doomed

\* The doomed are found: their ancestors, read as they are, lead to the helper.
LEMMA DoomedAreFound ==
    ASSUME TypesInv, SubreaperInv, Linux, helper = "scan", todo = {}, DOMAIN snapshot = Procs,
           NEW p \in Procs, Doomed(p)
    PROVE  p \in Descendants(Helper, snapshot)
<1>1. PICK line \in SUBSET Alive :
        /\ p \in line
        /\ \A q \in line : parent[q] \in line \cup {Helper} /\ snapshot[q] = parent[q]
  BY DEF Doomed
<1> SUFFICES ASSUME NEW set \in SUBSET Procs,
                    {q \in Procs : snapshot[q] \in set \cup {Helper}} \subseteq set,
                    p \notin set
             PROVE  FALSE
  BY DEF Descendants
<1>2. line \ set \in SUBSET Alive /\ line \ set # {} /\ Alive \subseteq Procs
  BY <1>1 DEF Alive
<1>3. PICK q \in line \ set : parent[q] \notin line \ set
  BY <1>2 DEF SubreaperInv
<1>4. snapshot[q] \in set \cup {Helper} /\ q \in Procs
  BY <1>1, <1>2, <1>3
<1> QED BY <1>3, <1>4

\* A tree that is killed does not grow faster than it is reaped: in every round a
\* process dies, or takes another user before the signal reaches it.
LEMMA RoundKeep ==
    ASSUME IsFiniteSet(Procs), TreeInv, RoundInv, [Next]_vars PROVE RoundInv'
<1>0. /\ TypesInv /\ SubreaperInv /\ Helper \notin Procs /\ OSInit \notin Procs
      /\ round \in Nat /\ DOMAIN snapshot = Procs
  BY TreeOfProcesses DEF TreeInv, RoundInv
<1>a. /\ Cardinality(Left) \in Nat /\ Cardinality(Left') \in Nat /\ Cardinality(Fates) \in Nat
      /\ Cardinality(Left) <= Cardinality(Fates) /\ Cardinality(Left') <= Cardinality(Left)
      /\ \A p \in Fresh : p \notin Fresh' => Cardinality(Left') < Cardinality(Left)
      /\ \A p \in Fresh \ foreign : p \in foreign' => Cardinality(Left') < Cardinality(Left)
  BY LeftShrinks
<1>b. helper # "start" /\ Ours' # {} => Ours # {}
  BY NobodyRises
<1> HIDE DEF Left
<1> USE DEF Linux, scene, procState, callerState, helperState, killState
\* Nothing has happened yet to the doomed, ...
<1>c. ASSUME UNCHANGED <<platform, helper, round>>, DOMAIN snapshot' = Procs,
             helper \in {"scan", "signal"} => \A p \in Ours : Doomed(p) => p \in Ours' /\ Doomed(p)'
      PROVE  RoundInv'
  BY <1>0, <1>a, <1>b, <1>c DEF RoundInv
\* ... or something has.
<1>d. ASSUME UNCHANGED <<platform, helper, round>>, DOMAIN snapshot' = Procs,
             Cardinality(Left') < Cardinality(Left)
      PROVE  RoundInv'
  BY <1>0, <1>a, <1>b, <1>d DEF RoundInv
<1>1. CASE UNCHANGED <<platform, foreign, procState, helper, killState>>
  BY <1>0, <1>1, <1>c DEF Doomed, Ours, Alive
<1>2. CASE ProcStep
  <2>1. ASSUME NEW p \in Procs, NEW q \in Procs, Fork(p, q) PROVE RoundInv'
    <3>1. /\ UNCHANGED <<platform, helper, killState>> /\ proc[q] = "none"
          /\ proc' = [proc EXCEPT ![q] = "alive"] /\ parent' = [parent EXCEPT ![q] = p]
          /\ foreign' \subseteq foreign \cup {q}
      BY <2>1 DEF Fork
    <3>2. \A r \in Procs : r # q => proc'[r] = proc[r] /\ parent'[r] = parent[r]
      BY <1>0, <3>1 DEF TypesInv
    <3>3. Alive \subseteq Alive' /\ q \notin Alive /\ Alive \subseteq Procs /\ Ours \subseteq Ours'
      BY <3>1, <3>2 DEF Alive, Ours
    <3>4. ASSUME NEW r \in Ours, Doomed(r) PROVE Doomed(r)'
      BY <3>1, <3>2, <3>3, <3>4 DEF Doomed
    <3> QED BY <1>0, <1>c, <3>1, <3>3, <3>4
  <2>2. ASSUME NEW p \in Procs, Exit(p) PROVE RoundInv'
    <3>1. p \in Fresh /\ p \notin Fresh'
      BY <1>0, <2>2 DEF Exit, AfterDeath, Fresh, Alive
    <3> QED BY <1>0, <1>a, <1>d, <2>2, <3>1 DEF Exit
  <2>3. ASSUME NEW p \in Procs, ChangeUser(p) PROVE RoundInv'
    <3>1. p \in Fresh \ foreign /\ p \in foreign'
      BY <2>3 DEF ChangeUser, Fresh, Alive
    <3> QED BY <1>0, <1>a, <1>d, <2>3, <3>1 DEF ChangeUser
  <2>4. ASSUME NEW p \in Procs, LeaveGroup(p) \/ ReapOwnChild(p) PROVE RoundInv'
    <3>1. UNCHANGED <<platform, foreign, parent, helper, killState>> /\ Alive' = Alive
      BY <1>0, <2>4 DEF LeaveGroup, ReapOwnChild, Alive, TypesInv
    <3> QED BY <1>0, <1>c, <3>1 DEF Doomed, Ours
  <2> QED BY <1>2, <2>1, <2>2, <2>3, <2>4 DEF ProcStep
<1>3. CASE helper' \notin {"scan", "signal", "reap"} /\ (LeaveKillLoop \/ UNCHANGED <<round, snapshot>>)
  BY <1>0, <1>3 DEF RoundInv, LeaveKillLoop
<1>4. ASSUME NEW p \in Procs, ScanOne(p) PROVE RoundInv'
  <2>1. /\ UNCHANGED <<platform, foreign, proc, parent, helper, round>> /\ helper = "scan"
        /\ DOMAIN snapshot' = Procs /\ todo' = todo \ {p}
        /\ \A q \in Procs : q # p => snapshot'[q] = snapshot[q]
        /\ proc[p] # "gone" => snapshot'[p] = parent[p]
    BY <1>0, <1>4 DEF ScanOne
  <2>2. Alive' = Alive /\ Ours' = Ours /\ Alive \subseteq Procs /\ (p \in Alive => proc[p] # "gone")
    BY <2>1 DEF Alive, Ours
  <2>3. ASSUME NEW r \in Ours, Doomed(r) PROVE Doomed(r)'
    <3>1. PICK line \in SUBSET Alive :
            /\ r \in line
            /\ \A q \in line : /\ parent[q] \in line \cup {Helper}
                               /\ q \in todo \/ snapshot[q] = parent[q]
      BY <2>1, <2>3 DEF Doomed
    <3>2. \A q \in line : q \in todo' \/ snapshot'[q] = parent'[q]
      BY <2>1, <2>2, <3>1
    <3> QED BY <2>1, <2>2, <3>1, <3>2 DEF Doomed
  <2> QED BY <1>c, <2>1, <2>2, <2>3
<1>5. CASE ScanDone
  <2>1. /\ Alive' = Alive /\ UNCHANGED <<platform, foreign, round, proc, parent>> /\ todo = {}
        /\ helper = "scan" /\ helper' = "signal" /\ todo' = Descendants(Helper, snapshot)
        /\ DOMAIN snapshot' = Procs
    BY <1>5 DEF ScanDone, Alive
  <2>2. Ours' = Ours /\ Ours \subseteq Procs
    BY <2>1 DEF Ours, Alive
  <2>3. ASSUME Linux, NEW p \in Ours, Doomed(p) PROVE Doomed(p)'
    <3>1. p \in todo'
      BY <1>0, <2>1, <2>2, <2>3, DoomedAreFound
    <3> QED BY <2>1, <3>1 DEF Doomed
  <2> QED BY <1>0, <1>a, <2>1, <2>2, <2>3 DEF RoundInv
<1>6. ASSUME NEW p \in Procs, SignalOne(p) PROVE RoundInv'
  <2>1. UNCHANGED <<platform, foreign, helper, round, snapshot>> /\ helper = "signal" /\ todo' = todo \ {p}
    BY <1>6 DEF SignalOne
  <2>2. CASE p \in Alive /\ AfterDeath({p}, Helper)
    <3>1. p \in Fresh /\ p \notin Fresh'
      BY <2>2 DEF AfterDeath, Fresh, Alive
    <3> QED BY <1>0, <1>a, <1>d, <2>1, <3>1
  <2>3. CASE p \notin Ours /\ UNCHANGED procState
    <3>1. Ours' = Ours
      BY <2>1, <2>3 DEF Ours, Alive
    <3>2. ASSUME NEW r \in Ours, Doomed(r) PROVE Doomed(r)'
      BY <2>1, <2>3, <3>2 DEF Doomed
    <3> QED BY <1>0, <1>c, <2>1, <3>1, <3>2
  <2> QED BY <1>6, <2>2, <2>3 DEF SignalOne, Ours
<1>7. CASE ReapReady
  <2>1. UNCHANGED <<platform, foreign, round, snapshot>> /\ helper = "signal" /\ helper' = "reap" /\ todo = {}
    BY <1>7 DEF ReapReady
  <2>2. \A p \in Procs : ~Doomed(p)
    BY <2>1 DEF Doomed
  <2> QED BY <1>0, <1>a, <1>b, <2>1, <2>2 DEF RoundInv, Ours, Alive
<1>8. CASE NextRound
  <2>1. /\ UNCHANGED <<platform, foreign, proc, parent>> /\ helper = "reap" /\ helper' = "scan"
        /\ round' = round + 1 /\ DOMAIN snapshot' = Procs /\ StartRound
    BY <1>8 DEF NextRound, StartRound
  <2>2. Ours' = Ours /\ Ours \subseteq Alive
    BY <2>1 DEF Ours, Alive
  <2>3. ASSUME Linux, NEW p \in Ours PROVE Doomed(p)'
    BY <1>0, <2>1, <2>2, <2>3, StartDooms
  <2> QED BY <1>0, <1>a, <2>1, <2>2, <2>3 DEF RoundInv
<1>9. CASE Terminate
  <2>1. CASE helper' = "scan" /\ Linux
    <3>1. /\ UNCHANGED <<platform, foreign, proc, parent>> /\ helper # "gone" /\ round' = 0 /\ StartRound
      BY <1>9, <2>1, TerminateDoes DEF HelperGone
    <3>2. Ours' = Ours /\ Ours \subseteq Alive
      BY <3>1 DEF Ours, Alive
    <3>3. ASSUME NEW p \in Ours PROVE Doomed(p)'
      BY <1>0, <2>1, <3>1, <3>2, <3>3, StartDooms
    <3> QED BY <1>a, <2>1, <3>1, <3>2, <3>3 DEF RoundInv, StartRound
  <2>2. CASE helper' \notin {"scan", "signal", "reap"} /\ (LeaveKillLoop \/ UNCHANGED <<round, snapshot>>)
    BY <1>3, <2>2
  <2>3. (helper' = "scan" /\ Linux) \/ LeaveKillLoop \/ UNCHANGED <<round, snapshot>>
    BY <1>9, TerminateDoes DEF StartRound
  <2>4. (helper' = "scan" /\ Linux) \/ helper' \in {"gone", "report"}
    BY <1>9, TerminateDoes DEF StartRound, HelperGone
  <2> QED BY <2>1, <2>2, <2>3, <2>4
<1>10. CASE HelperStep
  <2>1. ASSUME NEW p \in Procs, WaitReaps(p) PROVE RoundInv'
    BY <1>3, <2>1 DEF WaitReaps
  <2> QED
    BY <1>3, <1>4, <1>5, <1>6, <1>7, <1>8, <1>10, <2>1
       DEF HelperStep, InstallHandlers, ReadRequest, StartProgram, StartFails, ChildAssigned,
           WaitEnds, WriteReport, HelperExits, HelperGone, KillLoopEnds
<1>11. CASE CallerStep \/ Deadline \/ Interrupt \/ HelperNotStarted \/ GraceExpires \/ HelperDies
  BY <1>1, <1>3, <1>11
     DEF CallerStep, SendRequest, SendFails, WaitReturns, ReadStatus, KillReturns, Deadline,
         Interrupt, HelperNotStarted, GraceExpires, HelperDies, HelperGone
<1> QED BY <1>1, <1>2, <1>9, <1>10, <1>11 DEF Next, vars

\* With rounds enough the helper goes only when nobody it may signal is left.
LEMMA EmptyKeep ==
    ASSUME IsFiniteSet(Procs), Cardinality(Fates) <= MaxRounds, TreeInv, KillInv, [Next]_vars
    PROVE  EmptyInv'
<1>0. /\ TypesInv /\ RootInv /\ SubreaperInv /\ SignalInv /\ RoundInv /\ EmptyInv
  BY DEF TreeInv, KillInv
<1>a. Cardinality(Left) \in Nat /\ Cardinality(Fates) \in Nat /\ round \in Nat /\ MaxRounds \in Nat
  BY <1>0, LeftShrinks, TreeOfProcesses DEF RoundInv
<1>b. Ours = {} /\ helper # "start" => Ours' = {}
  BY NobodyRises
<1> HIDE DEF Left
<1> USE DEF Linux, scene, procState, callerState, helperState, killState
<1>1. CASE UNCHANGED <<platform, lost, caller, helper>>
  BY <1>0, <1>1, <1>b DEF EmptyInv
<1>2. CASE HelperStep
  <2>1. UNCHANGED <<platform, lost, caller>>
    BY <1>2 DEF HelperStep, InstallHandlers, ReadRequest, StartProgram, StartFails,
                ChildAssigned, WaitEnds, WriteReport, HelperExits, HelperGone, ScanDone,
                ReapReady, KillLoopEnds, NextRound, StartRound, WaitReaps, ScanOne, SignalOne
  <2>2. CASE WriteReport \/ HelperExits
    BY <1>0, <1>b, <2>1, <2>2 DEF WriteReport, HelperExits, HelperGone, EmptyInv
  <2>3. CASE ReadRequest \/ StartFails
    <3>1. Alive' = {}
      BY <1>0, <2>3 DEF ReadRequest, StartFails, RootInv, Alive
    <3> QED BY <3>1 DEF EmptyInv, Ours
  <2>4. CASE WaitEnds
    <3>1. ReportInv' /\ SaysExited'
      BY <2>4, ReportKeep DEF WaitEnds, SaysExited
    <3> QED BY <3>1 DEF ReportInv, EmptyInv, Ours
  <2>5. CASE KillLoopEnds
    <3>1. Ours' = Ours /\ helper = "reap"
      BY <2>5 DEF KillLoopEnds, Ours, Alive
    <3>2. ASSUME Linux PROVE Ours = {}
      <4>1. CASE ChildrenOf(Helper) = {}
        BY <1>0, <3>1, <3>2, <4>1, NoChildNoTree DEF Ours
      <4>2. CASE round >= MaxRounds
        BY <1>0, <1>a, <3>1, <3>2, <4>2 DEF RoundInv
      <4> QED BY <2>5, <4>1, <4>2 DEF KillLoopEnds
    <3> QED BY <2>1, <3>1, <3>2 DEF EmptyInv
  <2>6. CASE helper' \notin {"report", "exit", "gone"}
    BY <2>6 DEF EmptyInv
  <2> QED
    BY <1>1, <1>2, <2>1, <2>2, <2>3, <2>4, <2>5, <2>6
       DEF HelperStep, InstallHandlers, StartProgram, ChildAssigned, ScanDone, ReapReady,
           NextRound, StartRound, WaitReaps, ScanOne, SignalOne
<1>3. CASE Terminate
  <2>1. UNCHANGED <<platform, lost, caller>> /\ terms = 1
    BY <1>0, <1>3, TerminateDoes DEF SignalInv
  <2>2. CASE helper \in {"boot", "ready"}
    <3>1. Ours = {}
      BY <1>0, <2>2 DEF RootInv, Ours, Alive
    <3> QED BY <1>b, <2>2, <3>1 DEF EmptyInv
  <2>3. CASE helper \in {"report", "exit"}
    BY <1>0, <1>b, <2>1, <2>3 DEF EmptyInv
  <2>4. CASE helper \in {"start", "forked", "waiting"}
    BY <1>3, <2>1, <2>4, TerminateDoes DEF StartRound, EmptyInv
  <2>5. CASE helper \in {"scan", "signal", "reap"}
    BY <1>0, <2>1, <2>5 DEF SignalInv, EmptyInv
  <2> QED BY <1>3, <2>2, <2>3, <2>4, <2>5, TerminateDoes
<1>4. CASE CallerStep \/ Deadline \/ Interrupt
  <2>1. /\ UNCHANGED <<platform, lost, helper>>
        /\ caller \in {"closewait", "aborted"} => caller' \in {"closewait", "aborted"}
    BY <1>4 DEF CallerStep, SendRequest, SendFails, WaitReturns, ReadStatus, KillReturns,
                Deadline, Interrupt
  <2>2. helper # "start" => (Ours = {} => Ours' = {})
    BY <1>b
  <2> QED BY <1>0, <2>1, <2>2 DEF EmptyInv
<1>5. CASE HelperNotStarted
  <2>1. Ours = {} /\ helper = "boot"
    BY <1>0, <1>5 DEF HelperNotStarted, RootInv, Ours, Alive
  <2> QED BY <1>b, <2>1 DEF EmptyInv
<1>6. CASE GraceExpires \/ HelperDies
  BY <1>6 DEF GraceExpires, HelperDies, EmptyInv
<1>7. CASE ProcStep
  BY <1>1, <1>7 DEF ProcStep, Fork, Exit, ChangeUser, LeaveGroup, ReapOwnChild
<1> QED BY <1>1, <1>2, <1>3, <1>4, <1>5, <1>6, <1>7 DEF Next, vars

\* The invariant of the kill loop.
LEMMA KillNext ==
    ASSUME IsFiniteSet(Procs), Cardinality(Fates) <= MaxRounds PROVE
    TreeInv /\ KillInv /\ [Next]_vars => KillInv'
BY SignalKeep, RoundKeep, EmptyKeep DEF KillInv

LEMMA KillStarts == Init => KillInv
BY DEF Init, KillInv, SignalInv, RoundInv, EmptyInv

LEMMA TimeoutIsWhole == KillInv => TimeoutKillsTree
BY DEF KillInv, SignalInv, EmptyInv, TimeoutKillsTree, TreeAlive, Ours

-----------------------------------------------------------------------------
(* The composition: a step of one component leaves the others' alone.      *)

WaitsInv ==
    /\ TreeInv
    /\ which = "job" => J!JobInv
    /\ which = "bounded" => B!BoundedInv
    /\ which = "service" => S!ServiceInv
    /\ which = "hosted" => H!HostedInv

\* Every component's own actions keep its invariant, and no step of another
\* component is taken in its behaviours: WaitsSpec keeps all of them.
LEMMA WaitsInvariant == WaitsSpec => []WaitsInv
<1>1. WaitsInit => WaitsInv
  BY TreeStarts, JobInit, BoundedInit, ServiceInit, HostedInit DEF WaitsInit, NoTree, WaitsInv
<1>2. WaitsInv /\ [WaitsNext]_all => WaitsInv'
  <2> SUFFICES ASSUME WaitsInv, [WaitsNext]_all PROVE WaitsInv'
    OBVIOUS
  <2> which' = which
    BY DEF all, WaitsNext, InTree, InJob, InBounded, InService, InHosted
  <2>1. ASSUME which = "job" PROVE J!JobInv'
    <3>1. J!Next \/ UNCHANGED J!vars
      BY <2>1 DEF all, pool, tail15, WaitsNext, InTree, InJob, InBounded, InService,
                  InHosted, J!vars
    <3> QED BY <2>1, <3>1, JobNext DEF WaitsInv
  <2>2. ASSUME which = "bounded" PROVE B!BoundedInv'
    <3>1. B!Next \/ UNCHANGED B!vars
      BY <2>2 DEF all, pool, tail15, WaitsNext, InTree, InJob, InBounded, InService,
                  InHosted, B!vars, B!scene
    <3> QED BY <2>2, <3>1, BoundedNext DEF WaitsInv
  <2>3. ASSUME which = "service" PROVE S!ServiceInv'
    <3>1. S!Next \/ UNCHANGED S!vars
      BY <2>3 DEF all, pool, tail15, WaitsNext, InTree, InJob, InBounded, InService,
                  InHosted, S!vars, S!serviceVars
    <3> QED BY <2>3, <3>1, ServiceNext DEF WaitsInv
  <2>4. ASSUME which = "hosted" PROVE H!HostedInv'
    <3>1. H!Next \/ UNCHANGED H!vars
      BY <2>4 DEF all, pool, tail15, WaitsNext, InTree, InJob, InBounded, InService,
                  InHosted, H!vars, H!shared
    <3> QED BY <2>4, <3>1, HostedNext DEF WaitsInv
  <2>5. TreeInv'
    <3>1. [Next]_vars
      BY DEF all, WaitsNext, InTree, InJob, InBounded, InService, InHosted
    <3> QED BY <3>1, TreeNext DEF WaitsInv
  <2> QED BY <2>1, <2>2, <2>3, <2>4, <2>5 DEF WaitsInv
<1> QED BY <1>1, <1>2, PTL DEF WaitsSpec

\* POSIX, wait_tree=True, for a tree of any size: a result means that the program
\* and all it started have exited, with the program's own exit code, whatever
\* ends the helper and wherever a SIGTERM or a Ctrl-C falls.
THEOREM ResultMeansTreeGoneAlways == WaitsSpec => []ResultMeansTreeGone
<1>1. WaitsInv => ResultMeansTreeGone
  BY ResultIsWhole DEF WaitsInv
<1> QED BY <1>1, WaitsInvariant, PTL

\* Linux, where the kill loop has two rounds for each process the tree ever has, one
\* in which it may change its user and one in which it dies: a call that says it
\* timed out has left nobody of the tree, however much it forked while it was
\* killed, but who has taken another user id and who was started by one that had,
\* unless somebody ended the helper.
THEOREM TimeoutKillsTreeAlways ==
    ASSUME IsFiniteSet(Procs), 2 * Cardinality(Procs) <= MaxRounds
    PROVE  WaitsSpec => []TimeoutKillsTree
<1>0. Cardinality(Fates) <= MaxRounds
  BY FatesAreTwo
<1>1. WaitsInit => KillInv
  BY KillStarts DEF WaitsInit, NoTree
<1>2. WaitsInv /\ KillInv /\ [WaitsNext]_all => KillInv'
  <2> SUFFICES ASSUME WaitsInv, KillInv, [WaitsNext]_all PROVE KillInv'
    OBVIOUS
  <2>1. [Next]_vars
    BY DEF all, WaitsNext, InTree, InJob, InBounded, InService, InHosted
  <2> QED BY <1>0, <2>1, KillNext DEF WaitsInv
<1>3. KillInv => TimeoutKillsTree
  BY TimeoutIsWhole
<1> QED BY <1>1, <1>2, <1>3, WaitsInvariant, PTL DEF WaitsSpec

\* Windows, wait_tree=True, for a tree of any size: a result means the whole tree
\* exited by itself, and no end of the call leaves a process of it.
THEOREM JobHoldsTheTreeAlways == WaitsSpec => []JobHoldsTheTree
<1>1. WaitsInv => JobHoldsTheTree
  BY DEF WaitsInv, JobHoldsTheTree, J!JobInv
<1> QED BY <1>1, WaitsInvariant, PTL

\* run_bounded on both platforms: no message is lost, the exit code named is the
\* child's own, and no end of the call leaves the child.
THEOREM ChildIsAccountedForAlways == WaitsSpec => []ChildIsAccountedFor
<1>1. WaitsInv => ChildIsAccountedFor
  BY DEF WaitsInv, ChildIsAccountedFor, B!BoundedInv
<1> QED BY <1>1, WaitsInvariant, PTL

\* For any number of callers and any number of controls of other programs: what
\* runs after a stop or a restart is newer than what it found.
THEOREM WhatRunsIsNewAlways == WaitsSpec => []WhatRunsIsNew
<1>1. WaitsInv => WhatRunsIsNew
  <2> SUFFICES ASSUME S!ServiceInv PROVE S!RestartRenews /\ S!OldInstanceIsGone
    BY DEF WaitsInv, WhatRunsIsNew
  <2> QED
    BY DEF S!ServiceInv, S!StopThenStart, S!HasStopped, S!RestartRenews, S!OldInstanceIsGone
<1> QED BY <1>1, WaitsInvariant, PTL

\* For any number of callers: a control is refused for a pending state only when
\* the service moved after the caller's last look.
THEOREM RefusedOnlyIfItMovedAlways == WaitsSpec => RefusedOnlyIfItMoved
<1>1. WaitsInv /\ [WaitsNext]_all => [which = "service" => S!RefusedForItMoved]_all
  <2> SUFFICES ASSUME WaitsInv, WaitsNext, which = "service" PROVE S!RefusedForItMoved
    OBVIOUS
  <2>1. S!Next
    BY DEF WaitsNext, InTree, InJob, InBounded, InService, InHosted
  <2> QED BY <2>1, ServiceNext DEF WaitsInv
<1> QED BY <1>1, WaitsInvariant, PTL DEF WaitsSpec, RefusedOnlyIfItMoved

\* For any number of threads racing for the first start: one runspace serves every
\* call, one pipeline at a time, and none outlives its call.
THEOREM OneRunspaceServesAllAlways == WaitsSpec => OneRunspaceServesAll
<1>1. WaitsInv /\ [WaitsNext]_all =>
        [which = "hosted" => H!SameRunspace /\ H!OnePipelineAtATime]_all
  <2> SUFFICES ASSUME WaitsInv, WaitsNext, which = "hosted"
               PROVE  H!SameRunspace /\ H!OnePipelineAtATime
    OBVIOUS
  <2>1. H!Next
    BY DEF WaitsNext, InTree, InJob, InBounded, InService, InHosted
  <2> QED BY <2>1, HostedNext DEF WaitsInv, H!HostedInv
<1> QED BY <1>1, WaitsInvariant, PTL DEF WaitsSpec, OneRunspaceServesAll
=============================================================================
