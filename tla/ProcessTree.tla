---------------------------- MODULE ProcessTree -----------------------------
(***************************************************************************)
(* exec(wait_tree=True) on POSIX: the caller (run_process_tree driving a   *)
(* PosixReaperTree), the helper process (_tree_reaper.py) and the program  *)
(* with everything it starts.                                              *)
(*                                                                         *)
(* The helper starts the program, waits for the whole tree and reports one *)
(* status; SIGTERM, which its handler turns into an exception wherever the *)
(* helper happens to be, means: kill the tree.  On Linux it is a child     *)
(* subreaper, so orphans of the tree become its children; elsewhere it     *)
(* watches the program's process group.                                    *)
(***************************************************************************)
EXTENDS Naturals, Sequences, FiniteSets

CONSTANTS
    Procs,          \* the processes the tree can consist of
    Root,           \* the program itself
    Platforms,      \* "linux": subreaper, "other": process group (macOS)
    MaxRounds,      \* rounds of the kill loop within its 10 s deadline
    MaxInterrupts,  \* bound: Ctrl-C in the caller
    HelperMayDie,   \* the helper may stall or be killed from outside
    SetUid          \* bound: who may come to run under another user id

Helper == "helper"
OSInit == "init"

ASSUME TreeOfProcesses ==
    /\ Root \in Procs
    /\ {Helper, OSInit} \cap Procs = {}
    /\ Platforms \subseteq {"linux", "other"}
    /\ HelperMayDie \in BOOLEAN
    /\ MaxRounds \in Nat
    /\ MaxInterrupts \in Nat
    /\ SetUid \subseteq Procs

VARIABLES
    platform,       \* where the call is made
    lost,           \* the helper was ended from outside
    foreign,        \* who has run under another user id (sudo), or descends from one
    proc,           \* state of each process
    parent,         \* its parent process id
    group,          \* the members of the program's process group
    caller,         \* where run_process_tree is
    interrupts,     \* Ctrl-C so far
    sent,           \* the request pipe: "no", "yes" or "broken"
    helper,         \* where the helper is
    terms,          \* 1: a SIGTERM is pending for the helper (they do not queue)
    code,           \* the helper's `code`: the program's own, or its initial 0
    status,         \* what was written to the status pipe
    report,         \* the status the helper is about to write
    snapshot,       \* the ppid read for each process in this kill round
    todo,           \* processes still to read, then to signal, in this round
    round           \* of the kill loop

procState   == <<proc, parent, group>>
callerState == <<caller, interrupts, sent>>
killState   == <<snapshot, todo, round>>
helperState == <<helper, terms, code, status, report, killState>>
scene       == <<platform, lost, foreign>>
vars == <<scene, procState, callerState, helperState>>

Linux == platform = "linux"

CallerEnds  == {"result", "error", "timeout", "aborted"}
CallerAt    == {"send", "wait", "killwait", "closewait", "read"} \cup CallerEnds
HelperAt    == {"boot", "ready", "start", "forked", "waiting", "scan", "signal",
                "reap", "report", "exit", "gone"}
Unread      == "unread"

\* Types; the exit code that is kept is the one of the program, reaped.
TypeOK ==
    /\ platform \in Platforms /\ lost \in BOOLEAN /\ foreign \subseteq Procs
    /\ proc \in [Procs -> {"none", "alive", "zombie", "gone"}]
    /\ parent \in [Procs -> Procs \cup {Helper, OSInit}]
    /\ group \subseteq Procs
    /\ caller \in CallerAt
    /\ interrupts \in 0..MaxInterrupts
    /\ sent \in {"no", "yes", "broken"}
    /\ helper \in HelperAt
    /\ terms \in {0, 1}
    /\ code \in {"zero", "own"}
    /\ status \in Seq({"exited", "failed", "killed"}) /\ Len(status) <= 3
    /\ report \in {"exited", "failed", "killed"}
    /\ snapshot \in [Procs -> Procs \cup {Helper, OSInit, Unread}]
    /\ todo \subseteq Procs
    /\ round \in 0..MaxRounds
    /\ code = "own" => proc[Root] = "gone"

Init ==
    /\ platform \in Platforms /\ lost = FALSE /\ foreign = {}
    /\ proc = [p \in Procs |-> "none"]
    /\ parent = [p \in Procs |-> OSInit]
    /\ group = {}
    /\ caller = "send" /\ interrupts = 0 /\ sent = "no"
    /\ helper = "boot" /\ terms = 0 /\ code = "zero"
    /\ status = <<>> /\ report = "failed"
    /\ snapshot = [p \in Procs |-> Unread] /\ todo = {} /\ round = 0

Alive == {p \in Procs : proc[p] = "alive"}
ChildrenOf(x) == {p \in Procs : parent[p] = x /\ proc[p] \in {"alive", "zombie"}}

-----------------------------------------------------------------------------
(* The processes of the tree (external: the kernel and the program).       *)

\* Who adopts an orphan: the helper while it lives and is a subreaper.
Adopter(h) == IF Linux /\ h # "gone" THEN Helper ELSE OSInit

\* The processes of `dying` become zombies, their children are adopted, and
\* init reaps at once what it is the parent of.
AfterDeath(dying, adopter) ==
    LET parents == [p \in Procs |-> IF parent[p] \in dying THEN adopter ELSE parent[p]]
        died    == [p \in Procs |-> IF p \in dying THEN "zombie" ELSE proc[p]]
    IN  /\ parent' = parents
        /\ proc' = [p \in Procs |-> IF died[p] = "zombie" /\ parents[p] = OSInit
                                      THEN "gone" ELSE died[p]]
        /\ UNCHANGED group

Fork(p, q) ==
    /\ p \in Alive /\ proc[q] = "none" /\ q # Root
    /\ proc' = [proc EXCEPT ![q] = "alive"]
    /\ parent' = [parent EXCEPT ![q] = p]
    /\ group' = IF p \in group THEN group \cup {q} ELSE group
    /\ foreign' = IF p \in foreign THEN foreign \cup {q} ELSE foreign
    /\ UNCHANGED <<platform, lost, callerState, helperState>>

Exit(p) ==
    /\ p \in Alive
    /\ AfterDeath({p}, Adopter(helper))
    /\ UNCHANGED <<scene, callerState, helperState>>

\* A set-user-id program: from now on a signal to the process may be refused,
\* for as long as it does not give the other user id up again.
ChangeUser(p) ==
    /\ p \in (Alive \cap SetUid) \ foreign
    /\ foreign' = foreign \cup {p}
    /\ UNCHANGED <<platform, lost, procState, callerState, helperState>>

\* setsid(): the process leaves the program's group (the leader cannot).
LeaveGroup(p) ==
    /\ p \in Alive \cap group /\ p # Root
    /\ group' = group \ {p}
    /\ UNCHANGED <<scene, proc, parent, callerState, helperState>>

\* A process that waits for its own child.
ReapOwnChild(p) ==
    /\ proc[p] = "zombie" /\ parent[p] \in Alive
    /\ proc' = [proc EXCEPT ![p] = "gone"]
    /\ UNCHANGED <<scene, parent, group, callerState, helperState>>

-----------------------------------------------------------------------------
(* The helper: main, _run                                                  *)

\* The helper's process ends: what it was the parent of goes to init.
HelperGone ==
    /\ helper' = "gone"
    /\ parent' = [p \in Procs |-> IF parent[p] = Helper THEN OSInit ELSE parent[p]]
    /\ proc' = [p \in Procs |-> IF parent[p] = Helper /\ proc[p] = "zombie"
                                  THEN "gone" ELSE proc[p]]
    /\ UNCHANGED group

InstallHandlers ==
    /\ helper = "boot"
    /\ helper' = "ready"
    /\ UNCHANGED <<scene, procState, callerState, terms, code, status, report, killState>>

\* decode_request, then _become_subreaper.  An empty pipe does not decode.
ReadRequest ==
    /\ helper = "ready" /\ sent # "no"
    /\ IF sent = "yes"
         THEN helper' = "start" /\ UNCHANGED report
         ELSE helper' = "report" /\ report' = "failed"
    /\ UNCHANGED <<scene, procState, callerState, terms, code, status, killState>>

\* subprocess.Popen has forked; `child` is assigned when it returns.
StartProgram ==
    /\ helper = "start"
    /\ helper' = "forked"
    /\ proc' = [proc EXCEPT ![Root] = "alive"]
    /\ parent' = [parent EXCEPT ![Root] = Helper]
    /\ group' = {Root}
    /\ UNCHANGED <<scene, callerState, terms, code, status, report, killState>>

StartFails ==
    /\ helper = "start"
    /\ helper' = "report" /\ report' = "failed"
    /\ UNCHANGED <<scene, procState, callerState, terms, code, status, killState>>

ChildAssigned ==
    /\ helper = "forked"
    /\ helper' = "waiting"
    /\ UNCHANGED <<scene, procState, callerState, terms, code, status, report, killState>>

\* waitpid returns the zombie p; the program's status is kept.
WaitReaps(p) ==
    /\ helper = "waiting"
    /\ proc[p] = "zombie" /\ parent[p] = Helper
    /\ Linux \/ p = Root
    /\ proc' = [proc EXCEPT ![p] = "gone"]
    /\ code' = IF p = Root THEN "own" ELSE code
    /\ UNCHANGED <<scene, parent, group, callerState, helper, terms, status, report, killState>>

\* Waiting for the program alone, not for what it started.
TreeIsGoneProgramOnly == proc[Root] = "gone"

\* Linux: ECHILD.  macOS: child.wait() has returned and the group is empty.
TreeIsGone ==
    IF Linux THEN ChildrenOf(Helper) = {}
             ELSE proc[Root] = "gone" /\ \A p \in group : proc[p] = "gone"

WaitEnds ==
    /\ helper = "waiting"
    /\ TreeIsGone
    /\ helper' = "report" /\ report' = "exited"
    /\ UNCHANGED <<scene, procState, callerState, terms, code, status, killState>>

WriteReport ==
    /\ helper = "report"
    /\ helper' = "exit"
    /\ status' = Append(status, report)
    /\ UNCHANGED <<scene, procState, callerState, terms, code, report, killState>>

HelperExits ==
    /\ helper = "exit"
    /\ HelperGone
    /\ UNCHANGED <<scene, callerState, terms, code, status, report, killState>>

-----------------------------------------------------------------------------
(* SIGTERM: _on_term raises where the helper is.                           *)

StartRound ==
    /\ helper' = "scan"
    /\ todo' = {p \in Procs : proc[p] \in {"alive", "zombie"}}
    /\ snapshot' = [p \in Procs |-> Unread]

\* The kill loop is left, and what it knew is gone.
LeaveKillLoop == todo' = {} /\ snapshot' = [p \in Procs |-> Unread] /\ round' = 0

Terminate ==
    /\ terms > 0
    /\ terms' = 0
    /\ \/ \* no handler yet: the default action
          /\ helper = "boot"
          /\ HelperGone
          /\ UNCHANGED <<status, report, killState>>
       \/ \* caught in main: before the program started, in the report, or a
          \* second time, out of the kill loop
          /\ helper \in {"ready", "scan", "signal", "reap", "report", "exit"}
          /\ helper' = "report" /\ report' = "killed"
          /\ LeaveKillLoop
          /\ UNCHANGED <<procState, status>>
       \/ \* in main's own handler, while it reports the first one: uncaught
          /\ helper \in {"report", "exit"} /\ report = "killed"
          /\ HelperGone
          /\ UNCHANGED <<status, report, killState>>
       \/ \* caught in _run: _kill_tree_linux
          /\ helper \in {"start", "forked", "waiting"} /\ Linux
          /\ round' = 0
          /\ StartRound
          /\ UNCHANGED <<procState, status, report>>
       \/ \* caught in _run: _kill_group, which has no `child` to kill yet
          /\ helper \in {"start", "forked"} /\ ~Linux
          /\ helper' = "report" /\ report' = "killed"
          /\ UNCHANGED <<procState, status, killState>>
       \/ \* killpg, child.kill, child.wait; a program that may not be
          \* signalled makes child.kill fail, which main reports
          /\ helper = "waiting" /\ ~Linux
          /\ \E spared \in SUBSET (Alive \cap foreign) :
               /\ AfterDeath((Alive \cap (group \cup {Root})) \ spared, OSInit)
               /\ report' = IF Root \in spared THEN "failed" ELSE "killed"
          /\ helper' = "report"
          /\ UNCHANGED <<status, killState>>
    /\ UNCHANGED <<scene, callerState, code>>

-----------------------------------------------------------------------------
(* _kill_tree_linux: snapshot of /proc, SIGKILL, reap, again.              *)

\* _proc_parents reads one process at a time; one that is gone is skipped.
ScanOne(p) ==
    /\ helper = "scan" /\ p \in todo
    /\ todo' = todo \ {p}
    /\ snapshot' = [snapshot EXCEPT ![p] =
                       IF proc[p] = "gone" THEN Unread ELSE parent[p]]
    /\ UNCHANGED <<scene, procState, callerState, helper, terms, code, status, report, round>>

\* descendants(root, parents): everything below the root, at any depth.
Descendants(root, parents) ==
    LET below(set) == {p \in DOMAIN parents : parents[p] \in set \cup {root}}
    IN  {p \in DOMAIN parents : \A set \in SUBSET DOMAIN parents : below(set) \subseteq set => p \in set}

ScanDone ==
    /\ helper = "scan" /\ todo = {}
    /\ helper' = "signal"
    /\ todo' = Descendants(Helper, snapshot)
    /\ snapshot' = [p \in Procs |-> Unread]
    /\ UNCHANGED <<scene, procState, callerState, terms, code, status, report, round>>

\* _signal_quietly: p is gone already, or may not be signalled.
SignalOne(p) ==
    /\ helper = "signal" /\ p \in todo
    /\ todo' = todo \ {p}
    /\ \/ p \in Alive /\ AfterDeath({p}, Helper)
       \/ p \notin Alive \ foreign /\ UNCHANGED procState
    /\ UNCHANGED <<scene, callerState, helper, terms, code, status, report, snapshot, round>>

\* _reap_ready: every zombie child is reaped; then no child is left, or one
\* is and the next round begins, unless the deadline has passed.
ReapReady ==
    /\ helper = "signal" /\ todo = {}
    /\ proc' = [p \in Procs |-> IF p \in ChildrenOf(Helper) /\ proc[p] = "zombie"
                                  THEN "gone" ELSE proc[p]]
    /\ helper' = "reap"
    /\ UNCHANGED <<scene, parent, group, callerState, terms, code, status, report, killState>>

\* One pass only.
KillLoopEndsAtOnce ==
    /\ helper = "reap"
    /\ helper' = "report" /\ report' = "killed"
    /\ LeaveKillLoop
    /\ UNCHANGED <<scene, procState, callerState, terms, code, status>>

KillLoopEnds ==
    /\ helper = "reap"
    /\ ChildrenOf(Helper) = {} \/ round >= MaxRounds
    /\ helper' = "report" /\ report' = "killed"
    /\ LeaveKillLoop
    /\ UNCHANGED <<scene, procState, callerState, terms, code, status>>

NextRound ==
    /\ helper = "reap"
    /\ ChildrenOf(Helper) # {} /\ round < MaxRounds
    /\ round' = round + 1
    /\ StartRound
    /\ UNCHANGED <<scene, procState, callerState, terms, code, status, report>>

-----------------------------------------------------------------------------
(* The caller: run_process_tree with PosixReaperTree                       *)

\* The helper cannot be started, ...
HelperNotStarted ==
    /\ caller = "send" /\ helper = "boot" /\ terms = 0
    /\ caller' = "error"
    /\ helper' = "gone"
    /\ UNCHANGED <<scene, procState, interrupts, sent, terms, code, status, report, killState>>

\* ... or is gone before it has read its request.
SendFails ==
    /\ caller = "send" /\ helper = "gone"
    /\ caller' = "error"
    /\ UNCHANGED <<scene, procState, interrupts, sent, helperState>>

SendRequest ==
    /\ caller = "send" /\ helper # "gone"
    /\ caller' = "wait"
    /\ sent' = "yes"
    /\ UNCHANGED <<scene, procState, interrupts, helperState>>

WaitReturns ==
    /\ caller = "wait" /\ helper = "gone"
    /\ caller' = "read"
    /\ UNCHANGED <<scene, procState, interrupts, sent, helperState>>

\* _HelperStatus.from_wire: two objects in a row do not parse.
ReadStatus ==
    /\ caller = "read"
    /\ caller' = IF status = <<"exited">> THEN "result" ELSE "error"
    /\ UNCHANGED <<scene, procState, interrupts, sent, helperState>>

\* kill() that waits for a helper it has not told.
DeadlineWithoutSignal ==
    /\ caller = "wait" /\ helper # "gone"
    /\ caller' = "killwait"
    /\ UNCHANGED <<scene, procState, interrupts, sent, helperState>>

\* The deadline passes: kill() sends SIGTERM and waits.
Deadline ==
    /\ caller = "wait" /\ helper # "gone"
    /\ caller' = "killwait"
    /\ terms' = 1
    /\ UNCHANGED <<scene, procState, interrupts, sent, helper, code, status, report, killState>>

KillReturns ==
    /\ helper = "gone"
    /\ \/ caller = "killwait" /\ caller' = "timeout"
       \/ caller = "closewait" /\ caller' = "aborted"
    /\ UNCHANGED <<scene, procState, interrupts, sent, helperState>>

\* 15 s later the helper is still there: SIGKILL.
GraceExpires ==
    /\ HelperMayDie
    /\ caller \in {"killwait", "closewait"} /\ helper # "gone"
    /\ HelperGone
    /\ lost' = TRUE
    /\ UNCHANGED <<platform, foreign, callerState, terms, code, status, report, killState>>

\* Ctrl-C: the exception leaves the call through close(), which kills a
\* helper that still runs (again, if kill() was interrupted).
Interrupt ==
    /\ interrupts < MaxInterrupts
    /\ interrupts' = interrupts + 1
    /\ sent' = IF caller = "send" THEN "broken" ELSE sent
    /\ \/ /\ caller \in {"send", "wait", "killwait"}
          /\ IF helper = "gone"
               THEN caller' = "aborted" /\ UNCHANGED terms
               ELSE caller' = "closewait" /\ terms' = 1
       \/ /\ caller = "closewait"
          /\ caller' = "aborted"
          /\ UNCHANGED terms
    /\ UNCHANGED <<scene, procState, helper, code, status, report, killState>>

\* Something outside ends the helper (the OOM killer, an administrator).
HelperDies ==
    /\ HelperMayDie /\ helper # "gone"
    /\ HelperGone
    /\ lost' = TRUE
    /\ UNCHANGED <<platform, foreign, callerState, terms, code, status, report, killState>>

-----------------------------------------------------------------------------
ProcStep ==
    \/ \E p, q \in Procs : Fork(p, q)
    \/ \E p \in Procs : Exit(p) \/ ChangeUser(p) \/ LeaveGroup(p) \/ ReapOwnChild(p)

HelperStep ==
    \/ InstallHandlers \/ ReadRequest \/ StartProgram \/ StartFails \/ ChildAssigned
    \/ WaitEnds \/ WriteReport \/ HelperExits
    \/ ScanDone \/ ReapReady \/ KillLoopEnds \/ NextRound
    \/ \E p \in Procs : WaitReaps(p) \/ ScanOne(p) \/ SignalOne(p)

CallerStep == SendRequest \/ SendFails \/ WaitReturns \/ ReadStatus \/ KillReturns

Next ==
    \/ ProcStep \/ HelperStep \/ Terminate \/ CallerStep
    \/ HelperNotStarted \/ Deadline \/ GraceExpires \/ Interrupt \/ HelperDies

Spec == Init /\ [][Next]_vars

\* The helper and the caller are scheduled, a signal is delivered, and the
\* deadline (timeout=) passes if the tree does not end before it.
FairSpec ==
    /\ Spec
    /\ WF_vars(HelperStep) /\ WF_vars(Terminate)
    /\ WF_vars(CallerStep) /\ WF_vars(Deadline)

-----------------------------------------------------------------------------
\* What wait_tree counts as the tree: every descendant on Linux, those still
\* in the program's process group elsewhere.
TreeAlive == IF Linux THEN Alive ELSE Alive \cap group

\* A result is returned only when the program and everything it started have
\* exited, and its exit code is the program's own, whichever process of the
\* tree ended last and whatever happened to the helper.
ResultMeansTreeGone == caller = "result" => TreeAlive = {} /\ code = "own"

\* OperationTimeoutError says that the process tree was killed: on Linux, when
\* a helper was there to do it, nobody of it is left, although it went on
\* forking while it was killed, but those that have taken another user id
\* (sudo) and what they started, whose refusals the kill loop passes over.
TimeoutKillsTree == caller = "timeout" /\ Linux /\ ~lost => TreeAlive \subseteq foreign

\* A call left by Ctrl-C leaves nothing running behind a helper that is gone
\* ("a wait aborted by an exception must not leave the tree running").
AbortKillsTree == caller = "aborted" /\ helper = "gone" => TreeAlive = {}

\* With a timeout the call always comes back, however long the tree lives.
CallReturns == <>(caller \in CallerEnds)
-----------------------------------------------------------------------------
(* The inductive invariant behind ResultMeansTreeGone.                     *)

TypesInv ==
    /\ proc \in [Procs -> {"none", "alive", "zombie", "gone"}]
    /\ parent \in [Procs -> Procs \cup {Helper, OSInit}]
    /\ group \subseteq Procs
    /\ helper \in HelperAt
    /\ status \in Seq({"exited", "failed", "killed"})
    /\ report \in {"exited", "failed", "killed"}

\* The program is the helper's child until the helper has reaped it and kept
\* its exit code.
RootInv ==
    /\ helper \in {"boot", "ready", "start"} => \A p \in Procs : proc[p] = "none"
    /\ helper \in {"forked", "waiting"} =>
         \/ proc[Root] \in {"alive", "zombie"} /\ parent[Root] = Helper
         \/ proc[Root] = "gone" /\ code = "own"

\* Under a subreaper an orphan never leaves the tree: whoever is alive is the
\* child of a process that is, or of the helper, and no set of processes
\* holds all the parents of its members.
SubreaperInv ==
    Linux /\ helper # "gone" =>
        /\ \A p \in Alive : parent[p] \in Alive \cup {Helper}
        /\ \A set \in SUBSET Alive : set # {} => \E p \in set : parent[p] \notin set

\* The helper has said that the tree has exited, or is about to.
SaidExited == status # << >> /\ status[1] = "exited"
SaysExited == SaidExited \/ (helper = "report" /\ report = "exited")

ReportInv ==
    SaysExited =>
        /\ helper \in {"report", "exit", "gone"}
        /\ code = "own"
        /\ IF Linux THEN Alive = {} ELSE \A p \in group : proc[p] = "gone"

TreeInv ==
    /\ TypesInv /\ RootInv /\ SubreaperInv /\ ReportInv
    /\ caller = "result" => SaidExited

\* A SIGTERM comes once, unless Ctrl-C ends the call.
SignalInv ==
    /\ terms \in {0, 1}
    /\ caller = "timeout" => helper = "gone"
    /\ caller \notin {"closewait", "aborted"} =>
         /\ terms = 1 => caller \in {"killwait", "timeout"} /\ helper \notin {"scan", "signal", "reap"}
         /\ helper \in {"scan", "signal", "reap"} => caller = "killwait"

\* Who can be signalled by the helper in any case.
Ours == Alive \ foreign

\* The helper will have killed p when this round of the kill loop ends: p and
\* its ancestors are read as they are, or p has been found.
Doomed(p) ==
    /\ helper = "scan" =>
         \E line \in SUBSET Alive :
            /\ p \in line
            /\ \A q \in line : /\ parent[q] \in line \cup {Helper}
                               /\ q \in todo \/ snapshot[q] = parent[q]
    /\ helper = "signal" => p \in todo

\* What can still happen to the processes: to die, and to be foreign.
Fates == Procs \X {"dies", "changes"}

Fresh == {p \in Procs : proc[p] \in {"none", "alive"}}

Left == (Fresh \X {"dies"}) \cup ((Fresh \ foreign) \X {"changes"})

\* In every round that begins with a process it may signal, the helper kills
\* one, or one has died or changed its user while the helper was reading.
RoundInv ==
    /\ round \in Nat /\ DOMAIN snapshot = Procs
    /\ Linux /\ helper \in {"scan", "signal"} /\ Ours # {} =>
         \/ Cardinality(Left) + round < Cardinality(Fates)
         \/ /\ Cardinality(Left) + round <= Cardinality(Fates)
            /\ \E p \in Ours : Doomed(p)
    /\ Linux /\ helper = "reap" /\ Ours # {} =>
         Cardinality(Left) + round < Cardinality(Fates)

\* The helper ends only behind a tree with nobody it could have killed.
EmptyInv ==
    Linux /\ ~lost /\ caller \notin {"closewait", "aborted"} /\ helper \in {"report", "exit", "gone"} =>
        Ours = {}

KillInv == SignalInv /\ RoundInv /\ EmptyInv
=============================================================================
