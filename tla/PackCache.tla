----------------------------- MODULE PackCache ------------------------------
(***************************************************************************)
(* How concurrent runs of one packed POSIX runner (pack_runner.sh) share   *)
(* the unpacked payload.                                                   *)
(*                                                                         *)
(* A run hashes the tree without a lock (the warm path).  When that fails  *)
(* it loops: create the lock file with O_EXCL, set the EXIT trap that      *)
(* removes it, hash again, extract, hash again, release; or, while another *)
(* process has the lock, hash the tree lock-free and sleep.  Every shell   *)
(* command is a step of its own, so the processes interleave between any   *)
(* two of them, and a signal can end a process at any of them.             *)
(***************************************************************************)
EXTENDS PackTree

CONSTANTS
    Cleaners,           \* the runners started with --pwshpy-clean
    MaxAttempts,        \* rounds of the waiting loop (600 in the code)
    MaxDeaths,          \* bound: processes that a signal ends
    Signals,            \* which kinds: "term" (TERM, HUP, INT) and "kill"
    TrapOnSignal,       \* the shell runs the EXIT trap when a signal ends it
                        \* (bash does, dash does not)
    IOFailures          \* rm, mkdir and tar may fail (disk full, ...)

None == "none"

ASSUME CacheAssumption ==
    /\ Cleaners \subseteq Runners
    /\ MaxAttempts \in Nat
    /\ MaxDeaths \in Nat
    /\ Signals \subseteq {"term", "kill"}
    /\ TrapOnSignal \in BOOLEAN
    /\ IOFailures \in BOOLEAN
    /\ None \notin Runners

VARIABLES
    lock,               \* the process whose lock file exists, or None
    pc,                 \* the command each process is at
    at,                 \* position in the hash list or the archive
    attempt,            \* _attempt
    trap,               \* the processes whose EXIT trap is set
    orphaned,           \* processes whose tar -C directory was removed
    deaths              \* processes ended by a signal so far

procVars == <<at, attempt, trap, orphaned, deaths>>
vars == <<payload, dir, files, lock, pc, at, attempt, trap, orphaned, deaths>>

Extracting == {"rmtree", "mkdir", "archive", "shacheck", "tar", "tarwrite",
               "rmarchive", "confirm"}
Holding    == {"settrap", "recheck", "release", "releasebad"} \cup Extracting
Ended      == {"done", "failed", "dead"}
Locations  == {"clean", "warm", "enter", "trylock", "peek", "sleep",
               "untrap", "untrapbad", "run"} \cup Holding \cup Ended

Init ==
    /\ TreeInit
    /\ lock = None
    /\ pc = [r \in Runners |-> IF r \in Cleaners THEN "clean" ELSE "warm"]
    /\ at = [r \in Runners |-> 1]
    /\ attempt = [r \in Runners |-> 0]
    /\ trap = {}
    /\ orphaned = {}
    /\ deaths = 0

Goto(r, from, to) == pc[r] = from /\ pc' = [pc EXCEPT ![r] = to]

\* The process ends by its own exit (pwshpy_die, set -e): the EXIT trap, if
\* it is set, removes the lock file, whoever created it.
Exit(r, how) ==
    /\ pc' = [pc EXCEPT ![r] = how]
    /\ lock' = IF r \in trap THEN None ELSE lock
    /\ trap' = trap \ {r}

-----------------------------------------------------------------------------
(* pwshpy_verify_tree: one file after the other, in hash-list order; the   *)
(* first that is missing or hashes to something else ends it.              *)

\* A verification that looks at the last file only.
VerifyLastOnly(r, from, good, bad) ==
    /\ pc[r] = from
    /\ pc' = [pc EXCEPT ![r] =
                 IF dir /\ files[HashedAt(NFiles)] = "right" THEN good ELSE bad]
    /\ UNCHANGED <<treeVars, lock, procVars>>

VerifyStep(r, from, good, bad) ==
    LET right == dir /\ files[HashedAt(at[r])] = "right"
        last  == at[r] = NFiles
    IN  /\ pc[r] = from
        /\ pc' = [pc EXCEPT ![r] = IF ~right THEN bad
                                   ELSE IF last THEN good ELSE from]
        /\ at' = [at EXCEPT ![r] = IF right /\ ~last THEN at[r] + 1 ELSE 1]
        /\ UNCHANGED <<treeVars, lock, attempt, trap, orphaned, deaths>>

\* rm -rf "$PWSHPY_CACHE": at `from`, going on to `to` once all is gone.  A
\* tar that was started in the directory goes on in the removed one.
RemoveTreeStep(r, from, to) ==
    \/ /\ pc[r] = from
       /\ \E f \in AllFiles : RemoveFile(f)
       /\ UNCHANGED <<lock, pc, procVars>>
    \/ /\ Goto(r, from, to)
       /\ RemoveDirectory
       /\ orphaned' = orphaned \cup
                        {s \in Runners : pc[s] \in {"tar", "tarwrite"}}
       /\ UNCHANGED <<lock, at, attempt, trap, deaths>>

(* --pwshpy-clean removes the tree without taking the lock.                *)
Clean(r) == RemoveTreeStep(r, "clean", "warm")

\* The warm path: a tree that verifies is run without touching the lock.
WarmVerify(r) == VerifyStep(r, "warm", "run", "enter")

-----------------------------------------------------------------------------
(* pwshpy_unpack_locked                                                    *)
EnterUnpack(r) ==
    /\ Goto(r, "enter", "trylock")
    /\ attempt' = [attempt EXCEPT ![r] = 0]
    /\ UNCHANGED <<treeVars, lock, at, trap, orphaned, deaths>>

\* The `mkdir "$_lock"` the comment warns of: it succeeds for two racing
\* callers.
TakeLockNotExclusive(r) ==
    /\ attempt[r] < MaxAttempts
    /\ Goto(r, "trylock", "settrap")
    /\ lock' = r
    /\ UNCHANGED <<treeVars, procVars>>

TakeLock(r) ==
    /\ attempt[r] < MaxAttempts
    /\ lock = None
    /\ Goto(r, "trylock", "settrap")
    /\ lock' = r
    /\ UNCHANGED <<treeVars, procVars>>

LockIsTaken(r) ==
    /\ attempt[r] < MaxAttempts
    /\ lock # None
    /\ Goto(r, "trylock", "peek")
    /\ UNCHANGED <<treeVars, lock, procVars>>

TimeOut(r) ==
    /\ pc[r] = "trylock"
    /\ attempt[r] >= MaxAttempts
    /\ Exit(r, "failed")
    /\ UNCHANGED <<treeVars, at, attempt, orphaned, deaths>>

SetTrap(r) ==
    /\ Goto(r, "settrap", "recheck")
    /\ trap' = trap \cup {r}
    /\ UNCHANGED <<treeVars, lock, at, attempt, orphaned, deaths>>

\* The second check left out.
RecheckSkipped(r) ==
    /\ Goto(r, "recheck", "rmtree")
    /\ UNCHANGED <<treeVars, lock, procVars>>

\* Double-checked under the lock: another process may have extracted.
Recheck(r) == VerifyStep(r, "recheck", "release", "rmtree")

\* The lock-free look while another process holds the lock.
Peek(r) == VerifyStep(r, "peek", "run", "sleep")

\* The attempt is not counted: the loop has no bound.
SleepNotCounted(r) ==
    /\ Goto(r, "sleep", "trylock")
    /\ UNCHANGED <<treeVars, lock, procVars>>

Sleep(r) ==
    /\ Goto(r, "sleep", "trylock")
    /\ attempt' = [attempt EXCEPT ![r] = attempt[r] + 1]
    /\ UNCHANGED <<treeVars, lock, at, trap, orphaned, deaths>>

-----------------------------------------------------------------------------
(* pwshpy_extract                                                          *)
RemoveOldTree(r) == RemoveTreeStep(r, "rmtree", "mkdir")

MakeTree(r) ==
    /\ Goto(r, "mkdir", "archive")
    /\ MakeDirectory
    /\ UNCHANGED <<lock, procVars>>

WriteArchive(r) ==
    /\ Goto(r, "archive", "shacheck")
    /\ WriteFile(Archive, IF payload = "damaged" THEN "wrong" ELSE "right")
    /\ UNCHANGED <<lock, procVars>>

\* The whole payload is hashed before tar sees it.
CheckArchive(r) ==
    /\ files[Archive] = "right"
    /\ Goto(r, "shacheck", "tar")
    /\ at' = [at EXCEPT ![r] = 1]
    /\ orphaned' = orphaned \ {r}
    /\ UNCHANGED <<treeVars, lock, attempt, trap, deaths>>

RefuseArchive(r) ==
    /\ pc[r] = "shacheck"
    /\ files[Archive] # "right"
    /\ Exit(r, "failed")
    /\ files' = [files EXCEPT ![Archive] = "missing"]
    /\ UNCHANGED <<payload, dir, at, attempt, orphaned, deaths>>

\* tar xf: a member is created, then its content is there.
TarCreate(r) ==
    /\ r \notin orphaned
    /\ Goto(r, "tar", "tarwrite")
    /\ WriteFile(MemberAt(at[r]), "wrong")
    /\ UNCHANGED <<lock, procVars>>

TarWrite(r) ==
    LET f == MemberAt(at[r])
    IN  /\ pc[r] = "tarwrite"
        /\ IF r \in orphaned \/ files[f] = "missing"
             THEN UNCHANGED treeVars   \* written to an unlinked file
             ELSE WriteFile(f, Extracted(f))
        /\ IF at[r] = NFiles
             THEN /\ pc' = [pc EXCEPT ![r] = "rmarchive"]
                  /\ at' = [at EXCEPT ![r] = 1]
             ELSE /\ pc' = [pc EXCEPT ![r] = "tar"]
                  /\ at' = [at EXCEPT ![r] = at[r] + 1]
        /\ UNCHANGED <<lock, attempt, trap, orphaned, deaths>>

\* rm -f: no error when the archive is gone already.
RemoveArchive(r) ==
    /\ Goto(r, "rmarchive", "confirm")
    /\ files' = [files EXCEPT ![Archive] = "missing"]
    /\ UNCHANGED <<payload, dir, lock, procVars>>

Confirm(r) == VerifyStep(r, "confirm", "release", "releasebad")

\* A command of the extraction fails, which set -e makes an exit: an I/O
\* error at any of them, and always where the directory is gone.
ExtractionFails(r) ==
    /\ \/ /\ IOFailures
          /\ pc[r] \in {"clean", "rmtree", "mkdir", "archive", "tar",
                        "tarwrite", "rmarchive"}
       \/ pc[r] = "archive" /\ ~dir
       \/ pc[r] = "tar" /\ (r \in orphaned \/ ~dir)
    /\ Exit(r, "failed")
    /\ UNCHANGED <<treeVars, at, attempt, orphaned, deaths>>

-----------------------------------------------------------------------------
(* pwshpy_release_lock: remove the file, then drop the trap.               *)

\* The lock file is never removed.
ReleaseNever(r) ==
    /\ \/ Goto(r, "release", "untrap")
       \/ Goto(r, "releasebad", "untrapbad")
    /\ UNCHANGED <<treeVars, lock, procVars>>

Release(r) ==
    /\ \/ Goto(r, "release", "untrap")
       \/ Goto(r, "releasebad", "untrapbad")
    /\ lock' = None
    /\ UNCHANGED <<treeVars, procVars>>

DropTrap(r) ==
    /\ Goto(r, "untrap", "run")
    /\ trap' = trap \ {r}
    /\ UNCHANGED <<treeVars, lock, at, attempt, orphaned, deaths>>

\* The tree that was just extracted does not match: pwshpy_die.
DieAfterRelease(r) ==
    /\ Goto(r, "untrapbad", "failed")
    /\ trap' = trap \ {r}
    /\ UNCHANGED <<treeVars, lock, at, attempt, orphaned, deaths>>

\* The script ends; the tree stays.
Finish(r) ==
    /\ Goto(r, "run", "done")
    /\ UNCHANGED <<treeVars, lock, procVars>>

-----------------------------------------------------------------------------
(* A signal ends the process between any two commands.  Under a shell that *)
(* runs the EXIT trap then, a trap that is set removes the lock file;      *)
(* SIGKILL never runs it.                                                  *)
Signal(r, kind) ==
    /\ deaths < MaxDeaths
    /\ pc[r] \notin Ended
    /\ deaths' = deaths + 1
    /\ IF TrapOnSignal /\ kind = "term"
         THEN Exit(r, "dead")
         ELSE /\ pc' = [pc EXCEPT ![r] = "dead"]
              /\ trap' = trap \ {r}
              /\ UNCHANGED lock
    /\ UNCHANGED <<treeVars, at, attempt, orphaned>>

Step(r) ==
    \/ Clean(r) \/ WarmVerify(r)
    \/ EnterUnpack(r) \/ TakeLock(r) \/ LockIsTaken(r) \/ TimeOut(r)
    \/ SetTrap(r) \/ Recheck(r) \/ Peek(r) \/ Sleep(r)
    \/ RemoveOldTree(r) \/ MakeTree(r) \/ WriteArchive(r)
    \/ CheckArchive(r) \/ RefuseArchive(r)
    \/ TarCreate(r) \/ TarWrite(r) \/ RemoveArchive(r) \/ Confirm(r)
    \/ ExtractionFails(r) \/ Release(r) \/ DropTrap(r) \/ DieAfterRelease(r)

Next ==
    \E r \in Runners :
        Step(r) \/ Finish(r) \/ \E kind \in Signals : Signal(r, kind)

Spec == Init /\ [][Next]_vars

\* A process that is not ended goes on to its next command.
FairSpec == Spec /\ \A r \in Runners : WF_vars(Step(r))

-----------------------------------------------------------------------------
\* Types; the attempt counter stays within the loop's bound.
TypeOK ==
    /\ TreeTypeOK
    /\ lock \in Runners \cup {None}
    /\ pc \in [Runners -> Locations]
    /\ at \in [Runners -> PackedFiles]
    /\ attempt \in [Runners -> 0..MaxAttempts]
    /\ trap \subseteq Runners
    /\ orphaned \subseteq Runners
    /\ deaths \in 0..MaxDeaths

\* Without --pwshpy-clean, the script of every process that got past the
\* unpacking runs on a complete tree, for as long as it runs: neither the
\* lock-free hashing of a tree another process is rebuilding (warm path and
\* waiting loop) nor a later extraction gives it anything else.
RunsOnVerifiedTree == \A r \in Runners : pc[r] = "run" => Complete

\* The lock is exclusive for what it protects: two processes are never both
\* between a failed check under the lock and the end of the extraction.  Not
\* so for a payload that contradicts its own hash list, which never runs: a
\* process that dies between the two commands of pwshpy_release_lock on that
\* path removes the lock file its successor has created since.
OneExtractor ==
    payload # "mismatched" =>
        \A r, s \in Runners :
            pc[r] \in Extracting /\ pc[s] \in Extracting => r = s

\* A process that ended by itself (a corrupt payload, a failing tar, a tree
\* that does not match, a timeout) or that went on to run the script has not
\* left its lock file behind for every later start to wait out.
NoLockLeftBehind ==
    \A r \in Runners : lock = r => pc[r] \in Holding \/ pc[r] = "dead"

\* Without --pwshpy-clean, no step of any process takes a complete tree away.
VerifiedTreeStays == [][Complete => Complete']_vars

\* Every start gets to run its script or ends: a stale lock costs it the
\* bounded wait and an error, never a hang.
EveryStartEnds ==
    \A r \in Runners : <>(pc[r] \in {"run"} \cup Ended)

-----------------------------------------------------------------------------
\* The abstract service behind the processes, lock and files.
PhaseOf(l) == IF l = "run" THEN "running"
              ELSE IF l \in Ended THEN "ended" ELSE "starting"

Service == INSTANCE PackService
               WITH ready <- Complete, phase <- [r \in Runners |-> PhaseOf(pc[r])]

\* Without --pwshpy-clean, the runners implement PackService: the payload is
\* ready once and for all, and a script is launched only while it is.
ImplementsService == Service!Spec

-----------------------------------------------------------------------------
(* The same with --pwshpy-clean.                                           *)
Right(f) == files[f] = "right"

StageOf(l) ==
    CASE l = "clean" -> "discarding"
      [] l \in {"warm", "peek", "recheck", "confirm", "release", "untrap"} ->
             "looking"
      [] l = "run" -> "running"
      [] l \in Ended -> "ended"
      [] OTHER -> "waiting"

\* The tar of s is past file f, and f is gone: this extraction ends without it.
Lost(s, f) ==
    /\ payload # "mismatched"
    /\ \/ pc[s] \in {"tar", "tarwrite"} /\ f < at[s]
       \/ pc[s] = "tarwrite" /\ f = at[s] /\ files[f] = "missing"

\* What r has read as right is not right, and all it has still to read is, or
\* may be before the rest is.
Misled(r) ==
    \/ /\ pc[r] \in {"warm", "peek", "recheck", "confirm"}
       /\ \E f \in PackedFiles :
             /\ f < at[r] /\ ~Right(f)
             /\ \/ \A g \in PackedFiles : g >= at[r] => Right(g)
                \/ \E s \in Runners : Lost(s, f)
    \/ pc[r] \in {"release", "untrap"} /\ ~Complete

BesideClean == INSTANCE CleanService
                   WITH ready  <- Complete,
                        phase  <- [r \in Runners |-> StageOf(pc[r])],
                        misled <- {r \in Runners : Misled(r)}

\* Only --pwshpy-clean takes a complete tree away, and only a start that was
\* hashing the tree then can launch its script on anything but a complete one.
ImplementsCleanService == BesideClean!Spec

\* Nobody discards the tree any more, and no hashing goes on that somebody
\* discarded it under.
Settled == \A r \in Runners : pc[r] # "clean" /\ ~Misled(r)

\* Then all is as it is without --pwshpy-clean, and stays so: a complete tree
\* is not taken away, and only a complete tree is run.
CleanIsOver ==
    [][Settled => /\ Settled'
                  /\ Complete => Complete'
                  /\ \A r \in Runners : pc[r] # "run" /\ pc'[r] = "run" => Complete]_vars

-----------------------------------------------------------------------------
(* The inductive invariant behind RunsOnVerifiedTree, OneExtractor and the *)
(* refinement, for starts without --pwshpy-clean.                          *)
\* Where the EXIT trap is set, and where the process has it to thank for.
Trapped == (Holding \ {"settrap"}) \cup {"untrap", "untrapbad"}

TrapInv == \A r \in Runners : (r \in trap) <=> (pc[r] \in Trapped)

\* Extraction is exclusive, and while the tree is incomplete so is holding.
LockInv ==
    payload # "mismatched" =>
        /\ orphaned = {}
        /\ \A r \in Runners :
             /\ pc[r] \notin {"releasebad", "untrapbad"}
             /\ ~Complete /\ pc[r] \in Holding => lock = r
             /\ pc[r] \in Extracting =>
                  /\ lock = r
                  /\ \A s \in Runners \ {r} :
                       pc[s] \notin Holding \cup {"untrap", "untrapbad"}

\* How far the extraction of r has got.
ExtractInv ==
    \A r \in Runners :
        /\ pc[r] \in Extracting \ {"rmarchive", "confirm"} => ~Complete
        /\ payload = "mismatched" /\ pc[r] \in Extracting => ~Complete
        /\ payload # "mismatched" =>
             /\ pc[r] \in {"mkdir", "archive", "shacheck"} =>
                  \A f \in PackedFiles : ~Right(f)
             /\ pc[r] \in {"archive", "shacheck", "tar", "tarwrite"} => dir
             /\ pc[r] \in {"tar", "tarwrite"} =>
                  \A f \in PackedFiles : Right(f) <=> f < at[r]
             /\ pc[r] = "tarwrite" => files[at[r]] = "wrong"
             /\ pc[r] \in {"rmarchive", "confirm"} => Complete

\* What lock-free hashing relies on: the files read so far are all right, or
\* one that is still to be read is not.
VerifyInv ==
    \A r \in Runners :
        /\ pc[r] \in {"warm", "peek", "recheck", "confirm"} =>
             \/ \A f \in PackedFiles : f < at[r] => Right(f)
             \/ \E f \in PackedFiles : f >= at[r] /\ ~Right(f)
        /\ pc[r] \in {"release", "untrap", "run"} => Complete
        /\ pc[r] \in {"enter", "trylock", "settrap", "sleep", "rmtree",
                    "rmarchive"} =>
             at[r] = 1

\* A round of the waiting loop is entered below the bound.
AttemptInv ==
    \A r \in Runners : pc[r] \in {"peek", "sleep"} => attempt[r] < MaxAttempts

\* Lock file, trap and program counter agree: also with --pwshpy-clean.
SafeInv == TypeOK /\ AttemptInv /\ TrapInv /\ NoLockLeftBehind

NoneCleans == \A r \in Runners : pc[r] # "clean"

IInv == SafeInv /\ NoneCleans /\ LockInv /\ ExtractInv /\ VerifyInv
=============================================================================
