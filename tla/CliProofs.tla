----------------------------- MODULE CliProofs ------------------------------
(***************************************************************************)
(* Proofs about the command line, for any calls, any number of records and *)
(* any length of a table: what MCCli's run checks of Spec.                 *)
(***************************************************************************)
EXTENDS Cli, TLAPS

-----------------------------------------------------------------------------
(* The bodies of the commands.                                             *)

\* What the commands do, one body each.
Bodies ==
    {Listing, LateListing, Change, <<"check", "call", "echo">>,
     <<"call", "found", "format", "emit">>, <<"call", "json">>, <<"check", "call", "json">>,
     <<"call", "echo", "answer">>, <<"call", "lines">>, <<"call", "text", "answer">>,
     <<"call", "found", "lines">>, <<"format", "call", "text">>, <<"check", "call", "text">>,
     <<"call", "text">>, <<"echo">>, <<"call">>, <<"logdemo", "echo">>,
     <<"config", "echo", "check", "json">>, <<"check", "deploy", "echo">>, <<"deploy", "echo">>}

\* Whatever is registered has one of them.
LEMMA RegisteredBodies == \A e \in Registered : e[2] \in Bodies
<1> USE DEF Do, Bodies
<1>1. \A e \in AclCommand \cup CimCommand \cup ConnectionsCommand \cup DisksCommand
               \cup DnsCommand \cup EnvironmentCommand \cup EventLogCommand
               \cup AccountCommands \cup NetCheckCommand : e[2] \in Bodies
  BY DEF AclCommand, CimCommand, ConnectionsCommand, DisksCommand, DnsCommand,
         EnvironmentCommand, EventLogCommand, AccountCommands, NetCheckCommand
<1>2. \A e \in ProcessesCommand \cup RegistryCommands \cup ScheduledTasksCommand
               \cup ServicesCommand \cup UptimeCommand \cup NetworkingCommands
               \cup CredentialCommands \cup DotNetCommands : e[2] \in Bodies
  BY DEF ProcessesCommand, RegistryCommands, ScheduledTasksCommand, ServicesCommand,
         UptimeCommand, NetworkingCommands, CredentialCommands, DotNetCommands
<1>3. \A e \in ElevationCommand \cup WriteTextCommand \cup FilesystemCommands \cup PackCommands
               \cup ExecCommand \cup ShortcutCommands \cup SystemCommands \cup WebCommands :
        e[2] \in Bodies
  BY DEF ElevationCommand, WriteTextCommand, FilesystemCommands, PackCommands, ExecCommand,
         ShortcutCommands, SystemCommands, WebCommands
<1>4. \A e \in ServiceChanges \cup RegistryChanges \cup EventLogChange \cup AccountChanges
               \cup AclChanges \cup RegisterCommand \cup TaskChanges : e[2] \in Bodies
  BY DEF ServiceChanges, RegistryChanges, EventLogChange, AccountChanges, AclChanges,
         RegisterCommand, TaskChanges
<1>5. \A e \in InfoCommands \cup LogdemoCommand \cup ConfigCommand \cup DeployCommands :
        e[2] \in Bodies
  BY DEF InfoCommands, LogdemoCommand, ConfigCommand, DeployCommands
<1> HIDE DEF Do, Bodies
<1> QED BY <1>1, <1>2, <1>3, <1>4, <1>5 DEF Registered

LEMMA CommandBodies == \A c \in DOMAIN Commands : Commands[c] \in Bodies
<1> SUFFICES ASSUME NEW c \in DOMAIN Commands PROVE Commands[c] \in Bodies
  OBVIOUS
<1>1. PICK e \in Registered : e[1] = c
  BY DEF Commands
<1>2. (CHOOSE x \in Registered : x[1] = c) \in Registered
  BY <1>1
<1>3. Commands[c] = (CHOOSE x \in Registered : x[1] = c)[2]
  BY DEF Commands
<1> QED BY <1>2, <1>3, RegisteredBodies

\* A body changes the machine in one place, and reads a listing in one place.
Doing == {"call", "deploy"}
Listed == {"emit", "lines"}

\* What the proofs use of a body: it calls at most once, lists at most once, and
\* shows the configuration or the logging before it does anything else.
GoodBody(b) ==
    /\ Len(b) \in Nat
    /\ \A i, j \in 1..Len(b) : b[i] \in Doing /\ b[j] \in Doing => i = j
    /\ \A i, j \in 1..Len(b) : b[i] \in Listed /\ b[j] \in Listed => i = j
    /\ \A i \in 1..Len(b) : b[i] \in Listed => \A j \in 1..Len(b) : b[j] # "deploy"
    /\ \A i \in 1..Len(b) : b[i] \in {"config", "logdemo"} => b[1] \in {"config", "logdemo"}

LEMMA GoodBodies == \A b \in Bodies : GoodBody(b)
<1> SUFFICES ASSUME NEW b \in Bodies PROVE GoodBody(b)
  OBVIOUS
<1> USE DEF GoodBody, Doing, Listed
<1>1. CASE b \in {Listing, LateListing, Change, <<"check", "call", "echo">>}
  BY <1>1 DEF Listing, LateListing, Change
<1>2. CASE b \in {<<"call", "found", "format", "emit">>, <<"call", "json">>,
                  <<"check", "call", "json">>, <<"call", "echo", "answer">>}
  BY <1>2
<1>3. CASE b \in {<<"call", "lines">>, <<"call", "text", "answer">>, <<"call", "found", "lines">>,
                  <<"format", "call", "text">>, <<"check", "call", "text">>}
  BY <1>3
<1>4. CASE b \in {<<"call", "text">>, <<"echo">>, <<"call">>, <<"logdemo", "echo">>}
  BY <1>4
<1>5. CASE b \in {<<"config", "echo", "check", "json">>, <<"check", "deploy", "echo">>,
                  <<"deploy", "echo">>}
  BY <1>5
<1> HIDE DEF GoodBody
<1> QED BY <1>1, <1>2, <1>3, <1>4, <1>5 DEF Bodies
\* A command does something.
LEMMA NoEmptyBody == \A b \in Bodies : Len(b) # 0
<1> SUFFICES ASSUME NEW b \in Bodies PROVE Len(b) # 0
  OBVIOUS
<1>1. CASE b \in {Listing, LateListing, Change, <<"check", "call", "echo">>}
  BY <1>1 DEF Listing, LateListing, Change
<1>2. CASE b \in {<<"call", "found", "format", "emit">>, <<"call", "json">>,
                  <<"check", "call", "json">>, <<"call", "echo", "answer">>}
  BY <1>2
<1>3. CASE b \in {<<"call", "lines">>, <<"call", "text", "answer">>, <<"call", "found", "lines">>,
                  <<"format", "call", "text">>, <<"check", "call", "text">>}
  BY <1>3
<1>4. CASE b \in {<<"call", "text">>, <<"echo">>, <<"call">>, <<"logdemo", "echo">>,
                  <<"config", "echo", "check", "json">>, <<"check", "deploy", "echo">>,
                  <<"deploy", "echo">>}
  BY <1>4
<1> QED BY <1>1, <1>2, <1>3, <1>4 DEF Bodies
-----------------------------------------------------------------------------
(* The inductive invariant.                                                *)

\* Between two calls nothing is claimed.
LEMMA CliStarts == Init => CliInv
<1> SUFFICES ASSUME Init PROVE CliInv
  OBVIOUS
<1>1. CallInv
  BY DEF Init, CallInv, Before, NoSource
<1>2. PrefsInv /\ RunsInv /\ CodeInv /\ OutputInv
  BY DEF Init, PrefsInv, RunsInv, CodeInv, OutputInv, NothingRead, Before, Ending
<1> QED BY <1>1, <1>2 DEF CliInv

\* The body of a call runs its command once.
LEMMA GoodCall ==
    ASSUME CallInv, pc # "idle"
    PROVE  /\ Len(Body) \in Nat /\ Len(Body) > 0
           /\ \A i, j \in 1..Len(Body) : RunsAt(i) /\ RunsAt(j) => i = j
           /\ \A i, j \in 1..Len(Body) :
                Body[i] \in {"emit", "lines"} /\ Body[j] \in {"emit", "lines"} => i = j
           /\ \A i \in 1..Len(Body) :
                Body[i] \in {"config", "logdemo"} => Body[1] \in {"config", "logdemo"}
<1>1. GoodBody(Body) /\ Len(Body) # 0
  BY CliAssumption, CommandBodies, GoodBodies, NoEmptyBody DEF CallInv, Body, Steps
<1> QED BY <1>1 DEF GoodBody, Doing, Listed, RunsAt

\* Every step keeps the types, and a listing is begun at its step.
LEMMA CallKeeps == CliInv /\ [Next]_vars => CallInv'
<1> SUFFICES ASSUME CliInv, [Next]_vars PROVE CallInv'
  OBVIOUS
<1>0. CallInv
  BY DEF CliInv
<1> USE DEF CallInv, Before, Ending, Body, Steps, NoSource, Taken, world, loaded, output,
            result, LeaveFor, Leave, Flag
<1>1. CASE UNCHANGED vars
  BY <1>0, <1>1 DEF vars
<1>2. ASSUME NEW c \in Calls, Call(c) PROVE CallInv'
  BY <1>0, <1>2 DEF Call
<1>3. CASE Resolve
  BY <1>0, <1>3 DEF Resolve, Raise
<1>4. CASE LoadConfig
  BY <1>0, <1>4 DEF LoadConfig
<1>5. CASE StartLogging
  BY <1>0, <1>5 DEF StartLogging
<1>6. CASE StoreContext
  BY <1>0, <1>6 DEF StoreContext
<1>7. CASE RefuseDirectory
  BY <1>0, <1>7 DEF RefuseDirectory, Elevated
<1>8. CASE ShellExecute
  BY <1>0, <1>8 DEF ShellExecute, ChildEnds, Elevated, Raise
<1>9. CASE FindSudo
  BY <1>0, <1>9 DEF FindSudo, Elevating, Raise
<1>10. CASE AskSudo
  BY <1>0, <1>10 DEF AskSudo, Elevating, Elevated
<1>11. CASE Relaunch
  BY <1>0, <1>11 DEF Relaunch, ChildEnds, Elevated
<1>12. CASE Options
  BY <1>0, <1>12 DEF Options, Raise
<1>13. CASE Refuse
  BY <1>0, <1>13 DEF Refuse, Raise, Continue, Quiet, At
<1>14. CASE NeedConfig
  BY <1>0, <1>14 DEF NeedConfig, Continue, At
<1>15. CASE CallOperation
  BY <1>0, <1>15 DEF CallOperation, Raise, Continue, At
<1>16. CASE Deploy
  BY <1>0, <1>16 DEF Deploy, Continue, At
<1>17. CASE Logdemo
  BY <1>0, <1>17 DEF Logdemo, Continue, At
<1>18. CASE Found
  BY <1>0, <1>18 DEF Found, Continue, Quiet, At
<1>19. CASE Echo
  BY <1>0, <1>19 DEF Echo, Raise, Continue, Quiet, At
<1>20. CASE Write
  BY <1>0, <1>20 DEF Write, Continue, Quiet, At
<1>21. CASE Answer
  BY <1>0, <1>21 DEF Answer, Quiet, At
<1>22. CASE Return
  BY <1>0, <1>22 DEF Return, Quiet
<1>23. CASE OpenSource
  <2> HIDE DEF Taken
  <2>1. \A n \in 0..MaxRecords, fails \in BOOLEAN : Taken(n, fails) \in [left : Nat, fails : BOOLEAN]
    BY CliAssumption DEF Taken
  <2>2. source' \in [left : Nat, fails : BOOLEAN]
    <3>1. CASE call.cmd \in Lazy
      <4>1. PICK n \in 0..MaxRecords, fails \in BOOLEAN : source' = Taken(n, fails)
        BY <3>1, <1>23 DEF OpenSource
      <4> QED BY <2>1, <4>1
    <3>2. CASE call.cmd \notin Lazy
      <4>1. source' = [left |-> 1, fails |-> FALSE]
        BY <3>2, <1>23 DEF OpenSource
      <4> QED BY <4>1
    <3> QED BY <3>1, <3>2
  <2>3. runs' \in Nat
    BY <1>0, <1>23 DEF OpenSource
  <2>4. /\ pc' = "emit" /\ step <= Len(Body) /\ Body[step] \in {"emit", "lines"}
        /\ UNCHANGED <<call, step, got, sent>> /\ pc = "body"
    BY <1>23 DEF OpenSource, At
  <2> QED BY <1>0, <2>2, <2>3, <2>4
<1>24. CASE Pull
  <2>1. source' \in [left : Nat, fails : BOOLEAN]
    <3>1. source.left > 0 /\ (source' = source \/ source' = [source EXCEPT !.left = @ - 1])
      BY <1>24 DEF Pull, ReaderGone
    <3> QED BY <1>0, <3>1
  <2>2. got' \in Nat /\ sent' \in Nat /\ runs' \in Nat
    BY <1>0, <1>24 DEF Pull, ReaderGone
  <2>3. /\ pc = "emit" /\ call' = call
        /\ \/ pc' = pc /\ step' = step
           \/ pc' = "body" /\ step' = step + 1
    BY <1>24 DEF Pull, Continue, ReaderGone
  <2> QED BY <1>0, <2>1, <2>2, <2>3
<1>25. CASE SourceFails
  BY <1>0, <1>25 DEF SourceFails, Raise
<1>26. CASE SourceEnds
  BY <1>0, <1>26 DEF SourceEnds, Continue, ReaderGone
<1>27. CASE PrintTable
  BY <1>0, <1>27 DEF PrintTable, Raise, Continue
<1>28. CASE Handle
  BY <1>0, <1>28 DEF Handle, ExitCode
<1>29. CASE Finally
  BY <1>0, <1>29 DEF Finally
<1>30. CASE Forget
  BY <1>0, <1>30 DEF Forget
<1>31. CASE CloseReader
  BY <1>0, <1>31 DEF CloseReader
<1>32. CASE EditFiles
  BY <1>0, <1>32 DEF EditFiles
<1> QED BY <1>1, <1>2, <1>3, <1>4, <1>5, <1>6, <1>7, <1>8, <1>9, <1>10, <1>11, <1>12, <1>13,
           <1>14, <1>15, <1>16, <1>17, <1>18, <1>19, <1>20, <1>21, <1>22, <1>23, <1>24,
           <1>25, <1>26, <1>27, <1>28, <1>29, <1>30, <1>31, <1>32 DEF Next, Step

\* The preferences are put back whatever ends the call.
LEMMA PrefsKeep == CliInv /\ [Next]_vars => PrefsInv'
<1> SUFFICES ASSUME CliInv, [Next]_vars PROVE PrefsInv'
  OBVIOUS
<1>0. PrefsInv
  BY DEF CliInv
<1> USE DEF PrefsInv, world, loaded, output, result, LeaveFor, Leave, Flag
<1>1. CASE UNCHANGED vars
  BY <1>0, <1>1 DEF vars
<1>2. ASSUME NEW c \in Calls, Call(c) PROVE PrefsInv'
  BY <1>0, <1>2 DEF Call
<1>3. CASE Resolve
  BY <1>0, <1>3 DEF Resolve, Raise
<1>4. CASE LoadConfig
  BY <1>0, <1>4 DEF LoadConfig
<1>5. CASE StartLogging
  BY <1>0, <1>5 DEF StartLogging
<1>6. CASE StoreContext
  BY <1>0, <1>6 DEF StoreContext
<1>7. CASE RefuseDirectory
  BY <1>0, <1>7 DEF RefuseDirectory, Elevated
<1>8. CASE ShellExecute
  BY <1>0, <1>8 DEF ShellExecute, ChildEnds, Elevated, Raise
<1>9. CASE FindSudo
  BY <1>0, <1>9 DEF FindSudo, Elevating, Raise
<1>10. CASE AskSudo
  BY <1>0, <1>10 DEF AskSudo, Elevating, Elevated
<1>11. CASE Relaunch
  BY <1>0, <1>11 DEF Relaunch, ChildEnds, Elevated
<1>12. CASE Options
  BY <1>0, <1>12 DEF Options, Raise
<1>13. CASE Refuse
  BY <1>0, <1>13 DEF Refuse, Raise, Continue, Quiet, At
<1>14. CASE NeedConfig
  BY <1>0, <1>14 DEF NeedConfig, Continue, At
<1>15. CASE CallOperation
  BY <1>0, <1>15 DEF CallOperation, Raise, Continue, At
<1>16. CASE Deploy
  BY <1>0, <1>16 DEF Deploy, Continue, At
<1>17. CASE Logdemo
  BY <1>0, <1>17 DEF Logdemo, Continue, At
<1>18. CASE Found
  BY <1>0, <1>18 DEF Found, Continue, Quiet, At
<1>19. CASE Echo
  BY <1>0, <1>19 DEF Echo, Raise, Continue, Quiet, At
<1>20. CASE Write
  BY <1>0, <1>20 DEF Write, Continue, Quiet, At
<1>21. CASE Answer
  BY <1>0, <1>21 DEF Answer, Quiet, At
<1>22. CASE Return
  BY <1>0, <1>22 DEF Return, Quiet
<1>23. CASE OpenSource
  BY <1>0, <1>23 DEF OpenSource, At
<1>24. CASE Pull
  BY <1>0, <1>24 DEF Pull, Continue, ReaderGone
<1>25. CASE SourceFails
  BY <1>0, <1>25 DEF SourceFails, Raise
<1>26. CASE SourceEnds
  BY <1>0, <1>26 DEF SourceEnds, Continue, ReaderGone
<1>27. CASE PrintTable
  BY <1>0, <1>27 DEF PrintTable, Raise, Continue
<1>28. CASE Handle
  BY <1>0, <1>28 DEF Handle, ExitCode
<1>29. CASE Finally
  BY <1>0, <1>29 DEF Finally
<1>30. CASE Forget
  BY <1>0, <1>30 DEF Forget
<1>31. CASE CloseReader
  BY <1>0, <1>31 DEF CloseReader
<1>32. CASE EditFiles
  BY <1>0, <1>32 DEF EditFiles
<1> QED BY <1>1, <1>2, <1>3, <1>4, <1>5, <1>6, <1>7, <1>8, <1>9, <1>10, <1>11, <1>12, <1>13,
           <1>14, <1>15, <1>16, <1>17, <1>18, <1>19, <1>20, <1>21, <1>22, <1>23, <1>24,
           <1>25, <1>26, <1>27, <1>28, <1>29, <1>30, <1>31, <1>32 DEF Next, Step

\* How a body goes on: a step that is done or has begun is not still to do.
Going ==
    /\ call' = call => Body' = Body /\ \A i \in 1..Len(Body) : RunsAt(i)' <=> RunsAt(i)
    /\ pc \in {"body", "emit"} /\ call' = call /\ pc' = "body" /\ step' = step + 1 =>
         StepsLeft' \subseteq StepsLeft /\ step \notin StepsLeft'
    /\ pc = "body" /\ call' = call /\ pc' = "emit" /\ step' = step =>
         StepsLeft' \subseteq StepsLeft /\ step \notin StepsLeft'
    /\ UNCHANGED <<pc, call, step>> => StepsLeft' = StepsLeft
    /\ pc = "body" /\ step <= Len(Body) =>
         step \in StepsLeft /\ step \in 1..Len(Body) /\ Body[step] \in {Body[i] : i \in 1..Len(Body)}
    /\ StepsLeft \subseteq 1..Len(Body)

LEMMA BodyGoes == ASSUME CallInv, pc # "idle" PROVE Going
<1>1. Len(Body) \in Nat /\ step \in Nat \ {0}
  BY GoodCall DEF CallInv
<1>2. call' = call => Body' = Body
  BY DEF Body, Steps
<1>3. call' = call => \A i \in 1..Len(Body) : RunsAt(i)' <=> RunsAt(i)
  BY <1>2 DEF RunsAt
<1> QED BY <1>1, <1>2, <1>3 DEF Going, StepsLeft

\* Once the step that runs the command is done, no step left runs it.
LEMMA RunIsOver ==
    ASSUME CallInv, RunsInv, pc = "body", step <= Len(Body), RunsAt(step), call' = call,
           (pc' = "body" /\ step' = step + 1) \/ (pc' = "emit" /\ step' = step)
    PROVE  runs = 0 /\ ~(\E i \in StepsLeft' : RunsAt(i)')
<1>1. Going
  BY BodyGoes
<1>2. \A i, j \in 1..Len(Body) : RunsAt(i) /\ RunsAt(j) => i = j
  BY GoodCall
<1>3. step \in StepsLeft /\ step \in 1..Len(Body)
  BY <1>1 DEF Going
<1>4. runs = 0
  BY <1>3 DEF RunsInv
<1>5. StepsLeft' \subseteq StepsLeft /\ step \notin StepsLeft' /\ StepsLeft \subseteq 1..Len(Body)
  BY <1>1 DEF Going
<1>6. \A i \in 1..Len(Body) : RunsAt(i)' <=> RunsAt(i)
  BY <1>1 DEF Going
<1>7. ASSUME NEW i \in StepsLeft', RunsAt(i)' PROVE FALSE
  <2>1. i \in 1..Len(Body) /\ RunsAt(i) /\ i # step
    BY <1>5, <1>6, <1>7
  <2> QED BY <1>2, <1>3, <2>1
<1> QED BY <1>4, <1>7

\* No step runs a command that has been run.
LEMMA RunsKeep == CliInv /\ [Next]_vars => RunsInv'
<1> SUFFICES ASSUME CliInv, [Next]_vars PROVE RunsInv'
  OBVIOUS
<1>0. /\ RunsInv /\ CallInv
      /\ pc # "idle" => Going
      /\ pc # "idle" => \A i, j \in 1..Len(Body) : RunsAt(i) /\ RunsAt(j) => i = j
  BY GoodCall, BodyGoes DEF CliInv
<1> USE DEF RunsInv, Before, Going, world, loaded, output, result, LeaveFor, Leave, Flag
<1>1. CASE UNCHANGED vars
  BY <1>0, <1>1 DEF vars
<1>2. ASSUME NEW c \in Calls, Call(c) PROVE RunsInv'
  BY <1>0, <1>2 DEF Call
<1>3. CASE Resolve
  BY <1>0, <1>3 DEF Resolve, Raise
<1>4. CASE LoadConfig
  BY <1>0, <1>4 DEF LoadConfig
<1>5. CASE StartLogging
  BY <1>0, <1>5 DEF StartLogging
<1>6. CASE StoreContext
  BY <1>0, <1>6 DEF StoreContext
<1>7. CASE RefuseDirectory
  BY <1>0, <1>7 DEF RefuseDirectory, Elevated
<1>8. CASE ShellExecute
  BY <1>0, <1>8 DEF ShellExecute, ChildEnds, Elevated, Raise
<1>9. CASE FindSudo
  BY <1>0, <1>9 DEF FindSudo, Elevating, Raise
<1>10. CASE AskSudo
  BY <1>0, <1>10 DEF AskSudo, Elevating, Elevated
<1>11. CASE Relaunch
  BY <1>0, <1>11 DEF Relaunch, ChildEnds, Elevated
<1>12. CASE Options
  BY <1>0, <1>12 DEF Options, Raise
<1>13. CASE Refuse
  BY <1>0, <1>13 DEF Refuse, Raise, Continue, Quiet, At
<1>14. CASE NeedConfig
  BY <1>0, <1>14 DEF NeedConfig, Continue, At
<1>15. CASE CallOperation
  <2>1. CASE runs' = runs
    BY <1>0, <2>1, <1>15 DEF CallOperation, Raise, Continue, At
  <2>2. CASE runs' # runs
    <3>1. /\ pc = "body" /\ step <= Len(Body) /\ RunsAt(step)
          /\ call' = call /\ runs' = runs + 1
          /\ pc' = "handle" \/ (pc' = "body" /\ step' = step + 1)
      BY <2>2, <1>15 DEF CallOperation, At, RunsAt, Raise, Continue
    <3>2. CASE pc' = "handle"
      <4>1. runs = 0
        BY <1>0, <3>1
      <4> QED BY <3>1, <3>2, <4>1
    <3>3. CASE pc' = "body" /\ step' = step + 1
      <4>1. runs = 0 /\ ~(\E i \in StepsLeft' : RunsAt(i)')
        BY <1>0, <3>1, <3>3, RunIsOver
      <4> QED BY <3>1, <3>3, <4>1
    <3> QED BY <3>1, <3>2, <3>3
  <2> QED BY <2>1, <2>2
<1>16. CASE Deploy
  <2>1. /\ pc = "body" /\ step <= Len(Body) /\ RunsAt(step)
        /\ call' = call /\ runs' = runs + 1
        /\ pc' = "finally" \/ (pc' = "body" /\ step' = step + 1)
    BY <1>16 DEF Deploy, At, RunsAt, Continue
  <2>2. CASE pc' = "finally"
    <3>1. runs = 0
      BY <1>0, <2>1
    <3> QED BY <2>1, <2>2, <3>1
  <2>3. CASE pc' = "body" /\ step' = step + 1
    <3>1. runs = 0 /\ ~(\E i \in StepsLeft' : RunsAt(i)')
      BY <1>0, <2>1, <2>3, RunIsOver
    <3> QED BY <2>1, <2>3, <3>1
  <2> QED BY <2>1, <2>2, <2>3
<1>17. CASE Logdemo
  BY <1>0, <1>17 DEF Logdemo, Continue, At
<1>18. CASE Found
  BY <1>0, <1>18 DEF Found, Continue, Quiet, At
<1>19. CASE Echo
  BY <1>0, <1>19 DEF Echo, Raise, Continue, Quiet, At
<1>20. CASE Write
  BY <1>0, <1>20 DEF Write, Continue, Quiet, At
<1>21. CASE Answer
  BY <1>0, <1>21 DEF Answer, Quiet, At
<1>22. CASE Return
  BY <1>0, <1>22 DEF Return, Quiet
<1>23. CASE OpenSource
  <2>1. CASE call.cmd \in Lazy
    <3>1. /\ pc = "body" /\ step <= Len(Body) /\ RunsAt(step) /\ call' = call
          /\ step' = step /\ pc' = "emit" /\ runs' = runs + 1
      BY <2>1, <1>23 DEF OpenSource, At, RunsAt
    <3>2. runs = 0 /\ ~(\E i \in StepsLeft' : RunsAt(i)')
      BY <1>0, <3>1, RunIsOver
    <3> QED BY <3>1, <3>2
  <2>2. CASE call.cmd \notin Lazy
    BY <1>0, <2>2, <1>23 DEF OpenSource, At
  <2> QED BY <2>1, <2>2
<1>24. CASE Pull
  BY <1>0, <1>24 DEF Pull, Continue, ReaderGone
<1>25. CASE SourceFails
  BY <1>0, <1>25 DEF SourceFails, Raise
<1>26. CASE SourceEnds
  BY <1>0, <1>26 DEF SourceEnds, Continue, ReaderGone
<1>27. CASE PrintTable
  BY <1>0, <1>27 DEF PrintTable, Raise, Continue
<1>28. CASE Handle
  BY <1>0, <1>28 DEF Handle, ExitCode
<1>29. CASE Finally
  BY <1>0, <1>29 DEF Finally
<1>30. CASE Forget
  BY <1>0, <1>30 DEF Forget
<1>31. CASE CloseReader
  BY <1>0, <1>31 DEF CloseReader
<1>32. CASE EditFiles
  BY <1>0, <1>32 DEF EditFiles
<1> QED BY <1>1, <1>2, <1>3, <1>4, <1>5, <1>6, <1>7, <1>8, <1>9, <1>10, <1>11, <1>12, <1>13,
           <1>14, <1>15, <1>16, <1>17, <1>18, <1>19, <1>20, <1>21, <1>22, <1>23, <1>24,
           <1>25, <1>26, <1>27, <1>28, <1>29, <1>30, <1>31, <1>32 DEF Next, Step

\* A call that ends says why: the cause and the code go together.
LEMMA CodesKeep == CliInv /\ [Next]_vars => CodeInv'
<1> SUFFICES ASSUME CliInv, [Next]_vars PROVE CodeInv'
  OBVIOUS
<1>0. /\ CodeInv /\ RunsInv /\ CallInv
      /\ pc # "idle" => Going /\ Len(Body) \in Nat /\ Len(Body) > 0
      /\ pc # "idle" => \A i \in 1..Len(Body) :
           Body[i] \in {"config", "logdemo"} => Body[1] \in {"config", "logdemo"}
      /\ pc = "emit" => Body[step] \in {"emit", "lines"}
      /\ step \in Nat \ {0}
  BY GoodCall, BodyGoes DEF CliInv, CallInv
<1> USE DEF CodeInv, RunsInv, Before, Ending, Going, Shows, MustElevate, world, loaded, output,
            result, LeaveFor, Leave, Flag
<1>1. CASE UNCHANGED vars
  BY <1>0, <1>1 DEF vars
<1>2. ASSUME NEW c \in Calls, Call(c) PROVE CodeInv'
  BY <1>0, <1>2 DEF Call
<1>3. CASE Resolve
  BY <1>0, <1>3 DEF Resolve, Raise
<1>4. CASE LoadConfig
  BY <1>0, <1>4 DEF LoadConfig
<1>5. CASE StartLogging
  BY <1>0, <1>5 DEF StartLogging
<1>6. CASE StoreContext
  BY <1>0, <1>6 DEF StoreContext
<1>7. CASE RefuseDirectory
  BY <1>0, <1>7 DEF RefuseDirectory, Elevated
<1>8. CASE ShellExecute
  <2>1. CASE Elevated("declined", 77) /\ UNCHANGED runs
    BY <1>0, <1>8, <2>1 DEF ShellExecute, Elevated
  <2>2. CASE pc' = "handle"
    BY <1>0, <1>8, <2>2 DEF ShellExecute
  <2>3. CASE ChildEnds
    <3>1. MustElevate /\ MustElevate' /\ pc' = "finally" /\ cause' = "none"
      BY <1>0, <1>8, <2>3 DEF ShellExecute, ChildEnds, Elevated
    <3> QED BY <3>1
  <2> QED BY <1>8, <2>1, <2>2, <2>3 DEF ShellExecute, Raise
<1>9. CASE FindSudo
  BY <1>0, <1>9 DEF FindSudo, Elevating, Raise
<1>10. CASE AskSudo
  BY <1>0, <1>10 DEF AskSudo, Elevating, Elevated
<1>11. CASE Relaunch
  <2>1. MustElevate /\ MustElevate' /\ pc' = "finally" /\ cause' = "none"
    BY <1>0, <1>11 DEF Relaunch, ChildEnds, Elevated
  <2> QED BY <2>1
<1>12. CASE Options
  BY <1>0, <1>12 DEF Options, Raise
<1>13. CASE Refuse
  BY <1>0, <1>13 DEF Refuse, Raise, Continue, Quiet, At
<1>14. CASE NeedConfig
  BY <1>0, <1>14 DEF NeedConfig, Continue, At
<1>15. CASE CallOperation
  BY <1>0, <1>15 DEF CallOperation, Raise, Continue, At
<1>16. CASE Deploy
  BY <1>0, <1>16 DEF Deploy, Continue, At
<1>17. CASE Logdemo
  BY <1>0, <1>17 DEF Logdemo, Continue, At
<1>18. CASE Found
  BY <1>0, <1>18 DEF Found, Continue, Quiet, At
<1>19. CASE Echo
  BY <1>0, <1>19 DEF Echo, Raise, Continue, Quiet, At
<1>20. CASE Write
  BY <1>0, <1>20 DEF Write, Continue, Quiet, At
<1>21. CASE Answer
  BY <1>0, <1>21 DEF Answer, Quiet, At
<1>22. CASE Return
  BY <1>0, <1>22 DEF Return, Quiet
<1>23. CASE OpenSource
  BY <1>0, <1>23 DEF OpenSource, At
<1>24. CASE Pull
  BY <1>0, <1>24 DEF Pull, Continue, ReaderGone
<1>25. CASE SourceFails
  BY <1>0, <1>25 DEF SourceFails, Raise
<1>26. CASE SourceEnds
  BY <1>0, <1>26 DEF SourceEnds, Continue, ReaderGone
<1>27. CASE PrintTable
  BY <1>0, <1>27 DEF PrintTable, Raise, Continue
<1>28. CASE Handle
  BY <1>0, <1>28 DEF Handle, ExitCode
<1>29. CASE Finally
  BY <1>0, <1>29 DEF Finally
<1>30. CASE Forget
  BY <1>0, <1>30 DEF Forget
<1>31. CASE CloseReader
  BY <1>0, <1>31 DEF CloseReader
<1>32. CASE EditFiles
  BY <1>0, <1>32 DEF EditFiles
<1> QED BY <1>1, <1>2, <1>3, <1>4, <1>5, <1>6, <1>7, <1>8, <1>9, <1>10, <1>11, <1>12, <1>13,
           <1>14, <1>15, <1>16, <1>17, <1>18, <1>19, <1>20, <1>21, <1>22, <1>23, <1>24,
           <1>25, <1>26, <1>27, <1>28, <1>29, <1>30, <1>31, <1>32 DEF Next, Step

\* What is written is what was read, while somebody reads it.
LEMMA OutputKeeps == CliInv /\ [Next]_vars => OutputInv'
<1> SUFFICES ASSUME CliInv, [Next]_vars PROVE OutputInv'
  OBVIOUS
<1>0. /\ OutputInv /\ CallInv
      /\ pc # "idle" => Going
      /\ pc # "idle" => \A i, j \in 1..Len(Body) :
           Body[i] \in {"emit", "lines"} /\ Body[j] \in {"emit", "lines"} => i = j
  BY GoodCall, BodyGoes DEF CliInv
<1> USE DEF OutputInv, AllWritten, NothingRead, Before, Ending, Going, Human, Array, world,
            loaded, output, result, LeaveFor, Leave, Flag
<1>1. CASE UNCHANGED vars
  BY <1>0, <1>1 DEF vars
<1>2. ASSUME NEW c \in Calls, Call(c) PROVE OutputInv'
  BY <1>0, <1>2 DEF Call
<1>3. CASE Resolve
  BY <1>0, <1>3 DEF Resolve, Raise
<1>4. CASE LoadConfig
  BY <1>0, <1>4 DEF LoadConfig
<1>5. CASE StartLogging
  BY <1>0, <1>5 DEF StartLogging
<1>6. CASE StoreContext
  BY <1>0, <1>6 DEF StoreContext
<1>7. CASE RefuseDirectory
  BY <1>0, <1>7 DEF RefuseDirectory, Elevated
<1>8. CASE ShellExecute
  BY <1>0, <1>8 DEF ShellExecute, ChildEnds, Elevated, Raise
<1>9. CASE FindSudo
  BY <1>0, <1>9 DEF FindSudo, Elevating, Raise
<1>10. CASE AskSudo
  BY <1>0, <1>10 DEF AskSudo, Elevating, Elevated
<1>11. CASE Relaunch
  BY <1>0, <1>11 DEF Relaunch, ChildEnds, Elevated
<1>12. CASE Options
  BY <1>0, <1>12 DEF Options, Raise
<1>13. CASE Refuse
  BY <1>0, <1>13 DEF Refuse, Raise, Continue, Quiet, At
<1>14. CASE NeedConfig
  BY <1>0, <1>14 DEF NeedConfig, Continue, At
<1>15. CASE CallOperation
  BY <1>0, <1>15 DEF CallOperation, Raise, Continue, At
<1>16. CASE Deploy
  BY <1>0, <1>16 DEF Deploy, Continue, At
<1>17. CASE Logdemo
  BY <1>0, <1>17 DEF Logdemo, Continue, At
<1>18. CASE Found
  BY <1>0, <1>18 DEF Found, Continue, Quiet, At
<1>19. CASE Echo
  BY <1>0, <1>19 DEF Echo, Raise, Continue, Quiet, At
<1>20. CASE Write
  BY <1>0, <1>20 DEF Write, Continue, Quiet, At
<1>21. CASE Answer
  BY <1>0, <1>21 DEF Answer, Quiet, At
<1>22. CASE Return
  BY <1>0, <1>22 DEF Return, Quiet
<1>23. CASE OpenSource
  <2>1. /\ pc = "body" /\ step \in StepsLeft /\ Body[step] \in {"emit", "lines"}
        /\ call' = call /\ Body' = Body
        /\ pc' = "emit" /\ UNCHANGED <<step, got, sent, array, reader>>
    BY <1>0, <1>23 DEF OpenSource, At
  <2>2. NothingRead
    BY <1>0, <2>1
  <2>3. sent = 0 /\ got = 0 /\ array = "none" /\ got <= MaxRows
    BY <2>2, CliAssumption
  <2> QED BY <2>1, <2>3
<1>24. CASE Pull
  <2>1. /\ pc = "emit" /\ call' = call /\ Body' = Body /\ UNCHANGED reader
        /\ step \in 1..Len(Body) /\ Body[step] \in {"emit", "lines"}
    BY <1>0, <1>24 DEF Pull, CallInv
  <2>2. pc' = "body" /\ step' = step + 1 =>
          ~(\E i \in StepsLeft' : Body'[i] \in {"emit", "lines"})
    BY <1>0, <2>1
  <2>3. CASE ~reader
    BY <1>0, <2>1, <2>2, <2>3, <1>24 DEF Pull, Continue, ReaderGone
  <2>4. CASE reader
    <3>1. /\ UNCHANGED <<pc, step>> /\ got' = got + 1 /\ (Human => got < MaxRows)
          /\ sent' = IF Human THEN sent ELSE sent + 1
          /\ array' = IF Array THEN "open" ELSE array
      BY <2>4, <1>24 DEF Pull
    <3>2. IF Human THEN sent = 0 /\ array = "none" /\ got <= MaxRows
          ELSE sent = got /\ array \in IF Array THEN {"none", "open"} ELSE {"none"}
      BY <1>0, <2>1, <2>4
    <3>3. Human => got' <= MaxRows
      BY <1>0, <3>1, CliAssumption DEF CallInv
    <3> QED BY <2>1, <3>1, <3>2, <3>3
  <2> QED BY <2>3, <2>4
<1>25. CASE SourceFails
  BY <1>0, <1>25 DEF SourceFails, Raise
<1>26. CASE SourceEnds
  <2>1. /\ pc = "emit" /\ call' = call /\ Body' = Body /\ UNCHANGED reader
        /\ step \in 1..Len(Body) /\ Body[step] \in {"emit", "lines"}
    BY <1>0, <1>26 DEF SourceEnds, CallInv
  <2>2. pc' = "body" /\ step' = step + 1 =>
          ~(\E i \in StepsLeft' : Body'[i] \in {"emit", "lines"})
    BY <1>0, <2>1
  <2>3. CASE ~reader
    BY <1>0, <2>1, <2>2, <2>3, <1>26 DEF SourceEnds, Continue, ReaderGone
  <2>4. CASE reader
    <3>1. /\ pc' = "body" /\ step' = step + 1 /\ UNCHANGED <<source, got, sent>> /\ ~Human
          /\ array' = IF Array THEN "whole" ELSE array
          /\ source.left = 0 /\ ~source.fails
      BY <2>4, <1>26 DEF SourceEnds, Continue
    <3>2. sent = got /\ array \in IF Array THEN {"none", "open"} ELSE {"none"}
      BY <1>0, <2>1, <2>4, <3>1
    <3>3. source = NoSource
      BY <1>0, <3>1 DEF CallInv, NoSource
    <3> QED BY <2>1, <2>2, <3>1, <3>2, <3>3
  <2> QED BY <2>3, <2>4
<1>27. CASE PrintTable
  <2>1. /\ pc = "emit" /\ call' = call /\ Body' = Body /\ UNCHANGED reader
        /\ step \in 1..Len(Body) /\ Body[step] \in {"emit", "lines"}
    BY <1>0, <1>27 DEF PrintTable, CallInv
  <2>2. pc' = "body" /\ step' = step + 1 =>
          ~(\E i \in StepsLeft' : Body'[i] \in {"emit", "lines"})
    BY <1>0, <2>1
  <2>3. CASE ~reader
    BY <1>0, <2>1, <2>2, <2>3, <1>27 DEF PrintTable, Raise, Continue
  <2>4. CASE reader
    <3>1. /\ pc' = "handle" \/ (pc' = "body" /\ step' = step + 1 /\ sent' = got)
          /\ UNCHANGED <<source, got, array>> /\ Human /\ (got = MaxRows \/ source = NoSource)
      BY <2>4, <1>27 DEF PrintTable, Raise, Continue
    <3>2. array = "none"
      BY <1>0, <2>1, <2>4, <3>1
    <3> QED BY <2>1, <2>2, <3>1, <3>2
  <2> QED BY <2>3, <2>4
<1>28. CASE Handle
  BY <1>0, <1>28 DEF Handle, ExitCode
<1>29. CASE Finally
  BY <1>0, <1>29 DEF Finally
<1>30. CASE Forget
  BY <1>0, <1>30 DEF Forget
<1>31. CASE CloseReader
  BY <1>0, <1>31 DEF CloseReader
<1>32. CASE EditFiles
  BY <1>0, <1>32 DEF EditFiles
<1> QED BY <1>1, <1>2, <1>3, <1>4, <1>5, <1>6, <1>7, <1>8, <1>9, <1>10, <1>11, <1>12, <1>13,
           <1>14, <1>15, <1>16, <1>17, <1>18, <1>19, <1>20, <1>21, <1>22, <1>23, <1>24,
           <1>25, <1>26, <1>27, <1>28, <1>29, <1>30, <1>31, <1>32 DEF Next, Step

\* The inductive invariant holds of every call ever made in the process.
LEMMA CliInvariant == Spec => []CliInv
<1>1. CliInv /\ [Next]_vars => CliInv'
  BY CallKeeps, PrefsKeep, RunsKeep, CodesKeep, OutputKeeps DEF CliInv
<1> QED BY <1>1, CliStarts, PTL DEF Spec

-----------------------------------------------------------------------------
(* What a call promises, for any set of calls and any number of records.   *)

\* A call, whatever it raises, leaves the traceback preferences and, in the
\* main thread, the logging runtime as it found them: main's finally block.
THEOREM NothingLeftBehindAlways == Spec => []NothingLeftBehind
<1>1. CliInv => NothingLeftBehind
  BY DEF CliInv, PrefsInv, NothingLeftBehind, Over
<1> QED BY <1>1, CliInvariant, PTL

\* The operation behind a command runs once at most, in this process or in
\* the elevated child, and not at all when elevation was refused, whatever
\* code the child or a program ends with (root.py's handlers of a refusal).
THEOREM RunsOnceAlways == Spec => []RunsOnce
<1>1. CliInv => RunsOnce
  BY DEF CliInv, RunsInv, CodeInv, RunsOnce, Over, Ending
<1> QED BY <1>1, CliInvariant, PTL

\* Exit code 0 while somebody read to the end: every record of a source that
\* did not fail was written, or the table is full (cli/output.py's emit).
THEOREM SuccessIsCompleteAlways == Spec => []SuccessIsComplete
<1>1. CliInv => SuccessIsComplete
  BY DEF CliInv, OutputInv, AllWritten, SuccessIsComplete, Over, Ending
<1> QED BY <1>1, CliInvariant, PTL

\* A configuration that cannot be read ends only the commands that show it,
\* for every set of codes a program may exit with, and config does not succeed
\* without one: the error is stored, and raised by require_config.
THEOREM BrokenConfigStopsOnlyItsReadersAlways == Spec => []BrokenConfigStopsOnlyItsReaders
<1>1. CliInv => BrokenConfigStopsOnlyItsReaders
  BY DEF CliInv, CodeInv, BrokenConfigStopsOnlyItsReaders, Over, Ending
<1> QED BY <1>1, CliInvariant, PTL

=============================================================================
