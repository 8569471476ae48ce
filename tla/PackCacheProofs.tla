-------------------------- MODULE PackCacheProofs ---------------------------
(***************************************************************************)
(* Proofs about PackCache, for any number of processes and packed files.   *)
(***************************************************************************)
EXTENDS PackCache, TLAPS

USE TreeAssumption, CacheAssumption

\* The initial states satisfy the part of the invariant that does not depend
\* on --pwshpy-clean.
LEMMA SafeInit == Init => SafeInv
BY DEF Init, SafeInv, TypeOK, TreeInit, TreeTypeOK, TrapInv, NoLockLeftBehind,
       AttemptInv, Locations, Holding, Extracting, Ended, Trapped, PackedFiles

\* A hashing step keeps the program counters' part of the invariant.
LEMMA VerifySafe ==
    ASSUME SafeInv, NEW r \in Runners, NEW from, NEW good, NEW bad,
           VerifyStep(r, from, good, bad),
           \/ from = "warm" /\ good = "run" /\ bad = "enter"
           \/ from = "peek" /\ good = "run" /\ bad = "sleep"
           \/ from = "recheck" /\ good = "release" /\ bad = "rmtree"
           \/ from = "confirm" /\ good = "release" /\ bad = "releasebad"
    PROVE  SafeInv'
<1>1. TypeOK' /\ AttemptInv'
  BY DEF SafeInv, AttemptInv, TypeOK, TreeTypeOK, VerifyStep, treeVars, PackedFiles,
         Locations, Holding, Extracting, Ended, AllFiles
<1>2. TrapInv'
  BY DEF SafeInv, TypeOK, TrapInv, VerifyStep, Trapped, Holding, Extracting
<1>3. NoLockLeftBehind'
  BY DEF SafeInv, TypeOK, NoLockLeftBehind, VerifyStep, Holding, Extracting
<1> QED BY <1>1, <1>2, <1>3 DEF SafeInv

\* rm -rf of the tree, likewise.
LEMMA RemoveSafe ==
    ASSUME SafeInv, NEW r \in Runners, NEW from, NEW to,
           RemoveTreeStep(r, from, to),
           \/ from = "clean" /\ to = "warm"
           \/ from = "rmtree" /\ to = "mkdir"
    PROVE  SafeInv'
<1>1. TypeOK' /\ AttemptInv'
  BY DEF SafeInv, AttemptInv, TypeOK, TreeTypeOK, RemoveTreeStep, RemoveFile, Goto, Empty,
         RemoveDirectory, procVars, Locations, Holding, Extracting, Ended,
         Contents
<1>2. TrapInv'
  BY DEF SafeInv, TypeOK, TrapInv, RemoveTreeStep, Goto, procVars, Trapped,
         Holding, Extracting
<1>3. NoLockLeftBehind'
  BY DEF SafeInv, TypeOK, NoLockLeftBehind, RemoveTreeStep, Goto, Holding,
         Extracting
<1> QED BY <1>1, <1>2, <1>3 DEF SafeInv

\* An exit by the program itself runs the trap, so no lock file is left.
LEMMA ExitSafe ==
    ASSUME SafeInv, NEW r \in Runners, Exit(r, "failed"),
           lock = r => r \in trap,
           TreeTypeOK', UNCHANGED <<at, attempt, orphaned, deaths>>
    PROVE  SafeInv'
<1>1. TypeOK' /\ AttemptInv'
  BY DEF SafeInv, AttemptInv, TypeOK, Exit, Locations, Ended
<1>2. TrapInv'
  BY DEF SafeInv, TypeOK, TrapInv, Exit, Trapped, Holding, Extracting
<1>3. NoLockLeftBehind'
  BY DEF SafeInv, TypeOK, NoLockLeftBehind, Exit, Holding, Extracting
<1> QED BY <1>1, <1>2, <1>3 DEF SafeInv

\* Every step of every process keeps it.
LEMMA SafeNext == SafeInv /\ [Next]_vars => SafeInv'
<1> SUFFICES ASSUME SafeInv, [Next]_vars PROVE SafeInv'
  OBVIOUS
<1> USE DEF treeVars, procVars
<1>1. ASSUME UNCHANGED vars PROVE SafeInv'
  BY <1>1 DEF vars, SafeInv, TypeOK, AttemptInv, TreeTypeOK, TrapInv, NoLockLeftBehind
<1>2. ASSUME NEW r \in Runners, Step(r) PROVE SafeInv'
  <2> USE <1>2
  <2>1. CASE Clean(r)
    BY <2>1, RemoveSafe DEF Clean
  <2>2. CASE WarmVerify(r)
    BY <2>2, VerifySafe DEF WarmVerify
  <2>3. CASE Recheck(r)
    BY <2>3, VerifySafe DEF Recheck
  <2>4. CASE Peek(r)
    BY <2>4, VerifySafe DEF Peek
  <2>5. CASE Confirm(r)
    BY <2>5, VerifySafe DEF Confirm
  <2>6. CASE RemoveOldTree(r)
    BY <2>6, RemoveSafe DEF RemoveOldTree
  <2>7. CASE EnterUnpack(r) \/ TakeLock(r) \/ LockIsTaken(r) \/ Sleep(r)
    <3>1. TypeOK' /\ AttemptInv'
      BY <2>7 DEF SafeInv, AttemptInv, TypeOK, TreeTypeOK, EnterUnpack, TakeLock,
           LockIsTaken, Sleep, Goto, Locations, Holding
    <3>2. TrapInv' /\ NoLockLeftBehind'
      BY <2>7 DEF SafeInv, TypeOK, TrapInv, NoLockLeftBehind, EnterUnpack,
           TakeLock, LockIsTaken, Sleep, Goto, Trapped, Holding, Extracting
    <3> QED BY <3>1, <3>2 DEF SafeInv
  <2>8. CASE TimeOut(r)
    <3>1. lock # r
      BY <2>8 DEF TimeOut, SafeInv, NoLockLeftBehind, Holding, Extracting
    <3> QED BY <2>8, <3>1, ExitSafe DEF TimeOut, SafeInv, TypeOK, TreeTypeOK
  <2>9. CASE SetTrap(r)
    <3>1. TypeOK' /\ AttemptInv'
      BY <2>9 DEF SafeInv, AttemptInv, TypeOK, TreeTypeOK, SetTrap, Goto, Locations, Holding
    <3>2. TrapInv' /\ NoLockLeftBehind'
      BY <2>9 DEF SafeInv, TypeOK, TrapInv, NoLockLeftBehind, SetTrap, Goto,
           Trapped, Holding, Extracting
    <3> QED BY <3>1, <3>2 DEF SafeInv
  <2>10. CASE MakeTree(r) \/ WriteArchive(r) \/ CheckArchive(r)
    <3>1. TypeOK' /\ AttemptInv'
      <4>1. CASE MakeTree(r)
        BY <4>1 DEF SafeInv, AttemptInv, TypeOK, TreeTypeOK, MakeTree,
             MakeDirectory, Goto, Locations, Holding, Extracting
      <4>2. CASE WriteArchive(r)
        BY <4>2 DEF SafeInv, AttemptInv, TypeOK, TreeTypeOK, WriteArchive,
             WriteFile, Goto, Locations, Holding, Extracting, AllFiles, Contents
      <4>3. CASE CheckArchive(r)
        BY <4>3 DEF SafeInv, AttemptInv, TypeOK, TreeTypeOK, CheckArchive,
             Goto, Locations, Holding, Extracting, PackedFiles
      <4> QED BY <2>10, <4>1, <4>2, <4>3
    <3>2. TrapInv' /\ NoLockLeftBehind'
      BY <2>10 DEF SafeInv, TypeOK, TrapInv, NoLockLeftBehind, MakeTree,
           WriteArchive, CheckArchive, Goto, Trapped, Holding, Extracting
    <3> QED BY <3>1, <3>2 DEF SafeInv
  <2>11. CASE RefuseArchive(r)
    <3>1. r \in trap
      BY <2>11 DEF RefuseArchive, SafeInv, TrapInv, Trapped, Holding, Extracting
    <3>2. TreeTypeOK'
      BY <2>11 DEF RefuseArchive, SafeInv, TypeOK, TreeTypeOK, AllFiles, Contents
    <3> QED BY <2>11, <3>1, <3>2, ExitSafe DEF RefuseArchive
  <2>12. CASE TarCreate(r) \/ TarWrite(r) \/ RemoveArchive(r)
    <3>1. MemberAt(at[r]) \in AllFiles /\ at[r] \in PackedFiles
      BY DEF MemberAt, AllFiles, SafeInv, TypeOK
    <3>2. TypeOK' /\ AttemptInv'
      BY <2>12, <3>1 DEF SafeInv, AttemptInv, TypeOK, TreeTypeOK, TarCreate, TarWrite,
           RemoveArchive, WriteFile, Extracted, Goto, Locations, Holding,
           Extracting, Contents, PackedFiles, AllFiles
    <3>3. TrapInv' /\ NoLockLeftBehind'
      BY <2>12 DEF SafeInv, TypeOK, TrapInv, NoLockLeftBehind, TarCreate,
           TarWrite, RemoveArchive, Goto, Trapped, Holding, Extracting
    <3> QED BY <3>2, <3>3 DEF SafeInv
  <2>13. CASE ExtractionFails(r)
    <3>1. lock = r => r \in trap
      BY <2>13 DEF ExtractionFails, SafeInv, TrapInv, NoLockLeftBehind, Trapped,
           Holding, Extracting
    <3>2. TreeTypeOK'
      BY <2>13 DEF ExtractionFails, SafeInv, TypeOK, TreeTypeOK
    <3> QED BY <2>13, <3>1, <3>2, ExitSafe DEF ExtractionFails
  <2>14. CASE Release(r) \/ DropTrap(r) \/ DieAfterRelease(r)
    <3>1. TypeOK' /\ AttemptInv'
      BY <2>14 DEF SafeInv, AttemptInv, TypeOK, TreeTypeOK, Release, DropTrap,
           DieAfterRelease, Goto, Locations, Holding, Ended
    <3>2. TrapInv' /\ NoLockLeftBehind'
      BY <2>14 DEF SafeInv, TypeOK, TrapInv, NoLockLeftBehind, Release,
           DropTrap, DieAfterRelease, Goto, Trapped, Holding, Extracting
    <3> QED BY <3>1, <3>2 DEF SafeInv
  <2> QED BY <2>1, <2>2, <2>3, <2>4, <2>5, <2>6, <2>7, <2>8, <2>9, <2>10,
             <2>11, <2>12, <2>13, <2>14 DEF Step
<1>3. ASSUME NEW r \in Runners, Finish(r) PROVE SafeInv'
  BY <1>3 DEF SafeInv, TypeOK, AttemptInv, TreeTypeOK, TrapInv, NoLockLeftBehind, Finish,
       Goto, Locations, Ended, Trapped, Holding, Extracting
<1>4. ASSUME NEW r \in Runners, NEW kind \in Signals, Signal(r, kind)
      PROVE  SafeInv'
  <2>1. TypeOK' /\ AttemptInv'
    BY <1>4 DEF SafeInv, AttemptInv, TypeOK, TreeTypeOK, Signal, Exit, Locations, Ended
  <2>2. TrapInv'
    BY <1>4 DEF SafeInv, TypeOK, TrapInv, Signal, Exit, Trapped, Holding, Extracting
  <2>3. NoLockLeftBehind'
    BY <1>4 DEF SafeInv, TypeOK, NoLockLeftBehind, Signal, Exit
  <2> QED BY <2>1, <2>2, <2>3 DEF SafeInv
<1> QED BY <1>1, <1>2, <1>3, <1>4 DEF Next

\* The types are kept, and no process that went on or ended by itself has left
\* its lock file behind (pwshpy_release_lock and the EXIT trap), whatever
\* switches the processes were started with and however extraction fails.
THEOREM LockSafety == Spec => [](TypeOK /\ NoLockLeftBehind)
<1>1. SafeInv => TypeOK /\ NoLockLeftBehind
  BY DEF SafeInv
<1> QED BY <1>1, SafeInit, SafeNext, PTL DEF Spec

-----------------------------------------------------------------------------
(* Exclusion beside --pwshpy-clean.                                        *)

\* Where no signal runs the trap, only the process behind the lock ends in a
\* way that removes the lock file: whoever is behind it owns it.
HolderOwnsLock == \A r \in Runners : pc[r] \in Holding => lock = r

LEMMA HolderOwnsLockNext ==
    ASSUME ~TrapOnSignal \/ "term" \notin Signals
    PROVE  SafeInv /\ HolderOwnsLock /\ [Next]_vars => HolderOwnsLock'
<1> SUFFICES ASSUME SafeInv, HolderOwnsLock, [Next]_vars PROVE HolderOwnsLock'
  OBVIOUS
<1>1. \A r \in Runners : (r \in trap) <=> (pc[r] \in Trapped)
  BY DEF SafeInv, TrapInv
<1>2. pc \in [Runners -> Locations]
  BY DEF SafeInv, TypeOK
<1> USE DEF HolderOwnsLock, Goto, Holding, Extracting, Trapped
<1>3. ASSUME UNCHANGED vars PROVE HolderOwnsLock'
  BY <1>3 DEF vars
<1>4. ASSUME NEW r \in Runners, Step(r) PROVE HolderOwnsLock'
  <2>1. CASE Clean(r) \/ RemoveOldTree(r)
    BY <1>2, <2>1 DEF Clean, RemoveOldTree, RemoveTreeStep
  <2>2. CASE WarmVerify(r) \/ Recheck(r) \/ Peek(r) \/ Confirm(r)
    BY <1>2, <2>2 DEF WarmVerify, Recheck, Peek, Confirm, VerifyStep
  <2>3. CASE EnterUnpack(r) \/ LockIsTaken(r) \/ SetTrap(r) \/ Sleep(r) \/ DropTrap(r)
               \/ DieAfterRelease(r)
    BY <1>2, <2>3 DEF EnterUnpack, LockIsTaken, SetTrap, Sleep, DropTrap, DieAfterRelease
  <2>4. CASE TakeLock(r)
    BY <1>2, <2>4 DEF TakeLock
  <2>5. CASE TimeOut(r) \/ RefuseArchive(r) \/ ExtractionFails(r)
    BY <1>1, <1>2, <2>5 DEF TimeOut, RefuseArchive, ExtractionFails, Exit
  <2>6. CASE MakeTree(r) \/ WriteArchive(r) \/ CheckArchive(r) \/ TarCreate(r)
               \/ TarWrite(r) \/ RemoveArchive(r)
    BY <1>2, <2>6 DEF MakeTree, WriteArchive, CheckArchive, TarCreate, TarWrite,
       RemoveArchive, procVars
  <2>7. CASE Release(r)
    BY <1>2, <2>7 DEF Release
  <2> QED BY <1>4, <2>1, <2>2, <2>3, <2>4, <2>5, <2>6, <2>7 DEF Step
<1>5. ASSUME NEW r \in Runners, Finish(r) PROVE HolderOwnsLock'
  BY <1>2, <1>5 DEF Finish
<1>6. ASSUME NEW r \in Runners, NEW kind \in Signals, Signal(r, kind) PROVE HolderOwnsLock'
  BY <1>2, <1>6 DEF Signal
<1> QED BY <1>3, <1>4, <1>5, <1>6 DEF Next

\* Under a shell that does not run the EXIT trap when a signal ends it, one
\* process at a time extracts, also beside runs with --pwshpy-clean, which
\* remove the tree without the lock: pwshpy_unpack_locked creates the lock file
\* exclusively, and it is removed by its owner only.
THEOREM OneExtractorBesideClean ==
    ASSUME ~TrapOnSignal \/ "term" \notin Signals
    PROVE  Spec => []OneExtractor
<1>1. Init => HolderOwnsLock
  BY DEF Init, HolderOwnsLock, Holding, Extracting
<1>2. HolderOwnsLock => OneExtractor
  BY DEF HolderOwnsLock, OneExtractor, Holding
<1> QED BY <1>1, <1>2, SafeInit, SafeNext, HolderOwnsLockNext, PTL DEF Spec

-----------------------------------------------------------------------------
(* Starts without --pwshpy-clean.                                          *)

\* A packed file that is right lies in a directory that exists.
LEMMA CompleteIsAllRight ==
    ASSUME TypeOK PROVE Complete <=> \A f \in PackedFiles : Right(f)
<1>1. PackedFiles # {} /\ \A f \in PackedFiles : f \in AllFiles
  BY DEF PackedFiles, AllFiles
<1> QED BY <1>1 DEF TypeOK, TreeTypeOK, Complete, Right

\* The same of the next state.
LEMMA CompleteIsAllRightNext ==
    ASSUME TypeOK' PROVE Complete' <=> \A f \in PackedFiles : Right(f)'
<1>1. PackedFiles # {} /\ \A f \in PackedFiles : f \in AllFiles
  BY DEF PackedFiles, AllFiles
<1> QED BY <1>1 DEF TypeOK, TreeTypeOK, Complete, Right

\* The initial states of starts without --pwshpy-clean.
LEMMA CleanFreeInit == Cleaners = {} /\ Init => IInv
<1> SUFFICES ASSUME Cleaners = {}, Init PROVE IInv
  OBVIOUS
<1>1. SafeInv
  BY SafeInit
<1>2. \A r \in Runners : pc[r] = "warm" /\ at[r] = 1
  BY DEF Init
<1> QED BY <1>1, <1>2 DEF Init, IInv, NoneCleans, LockInv, ExtractInv, VerifyInv,
     Holding, Extracting, PackedFiles

\* A step that leaves the tree alone and moves one process.
LEMMA VerifyKeeps ==
    ASSUME IInv, SafeInv', NEW r \in Runners, NEW from, NEW good, NEW bad,
           VerifyStep(r, from, good, bad),
           \/ from = "warm" /\ good = "run" /\ bad = "enter"
           \/ from = "peek" /\ good = "run" /\ bad = "sleep"
           \/ from = "recheck" /\ good = "release" /\ bad = "rmtree"
           \/ from = "confirm" /\ good = "release" /\ bad = "releasebad"
    PROVE  IInv'
<1> USE DEF treeVars
<1>1. \A f \in PackedFiles : Right(f)' <=> Right(f)
  BY DEF VerifyStep, Right
<1>2. Complete' <=> Complete
  BY DEF VerifyStep, Complete
<1>3. at[r] \in PackedFiles /\ NFiles \in Nat /\ PackedFiles = 1..NFiles
  BY DEF IInv, SafeInv, TypeOK, PackedFiles
<1>a. pc[r] = from /\ pc'[r] \in {from, good, bad}
  BY DEF VerifyStep, IInv, SafeInv, TypeOK
<1>b. pc'[r] = from => Right(at[r]) /\ at[r] < NFiles /\ at'[r] = at[r] + 1
  BY <1>3 DEF VerifyStep, IInv, SafeInv, TypeOK, HashedAt, Right
<1>c. pc'[r] = good => Right(at[r]) /\ at[r] = NFiles /\ at'[r] = 1
  BY <1>3 DEF VerifyStep, IInv, SafeInv, TypeOK, HashedAt, Right
<1>d. pc'[r] = bad => at'[r] = 1
  BY <1>3 DEF VerifyStep, IInv, SafeInv, TypeOK, HashedAt, Right
<1>e. \/ \A f \in PackedFiles : f < at[r] => Right(f)
      \/ \E f \in PackedFiles : f >= at[r] /\ ~Right(f)
  BY <1>a DEF IInv, VerifyInv
<1>4. pc'[r] = good => Complete
  BY <1>3, <1>c, <1>e, CompleteIsAllRight DEF IInv, SafeInv
<1>5. pc'[r] = bad => ~Complete
  BY <1>3 DEF VerifyStep, HashedAt, Complete
<1>6. VerifyInv'
  <2> SUFFICES ASSUME NEW s \in Runners
               PROVE  VerifyInv!(s)'
    BY DEF VerifyInv
  <2>1. CASE s # r
    BY <2>1, <1>1, <1>2 DEF IInv, SafeInv, TypeOK, VerifyInv, VerifyStep
  <2>2. CASE s = r /\ pc'[r] = from
    BY <2>2, <1>1, <1>3, <1>b, <1>e
  <2>3. CASE s = r /\ pc'[r] = good
    BY <2>3, <1>2, <1>4, <1>c
  <2>4. CASE s = r /\ pc'[r] = bad
    BY <2>4, <1>d
  <2> QED BY <1>a, <2>1, <2>2, <2>3, <2>4
<1>7. ExtractInv'
  BY <1>1, <1>2, <1>5 DEF IInv, SafeInv, TypeOK, ExtractInv, VerifyStep, Extracting
<1>8. LockInv'
  <2>1. SUFFICES ASSUME payload # "mismatched" PROVE LockInv'
    BY DEF LockInv, VerifyStep
  <2>2. pc'[r] \in Extracting \ {"confirm"} => pc'[r] = "rmtree" /\ ~Complete
    BY <1>5 DEF VerifyStep, Extracting, IInv, SafeInv, TypeOK
  <2>3. pc'[r] # "releasebad"
    BY <2>1, <1>5 DEF VerifyStep, IInv, SafeInv, TypeOK, ExtractInv
  <2> QED BY <1>2, <2>1, <2>2, <2>3 DEF IInv, SafeInv, TypeOK, LockInv, VerifyInv,
       VerifyStep, Holding, Extracting
<1>9. NoneCleans'
  BY DEF IInv, SafeInv, TypeOK, NoneCleans, VerifyStep
<1> QED BY <1>6, <1>7, <1>8, <1>9 DEF IInv

\* Steps that touch neither the tree nor the position in it.
LEMMA QuietKeeps ==
    ASSUME IInv, SafeInv', NEW r \in Runners, UNCHANGED <<treeVars, at, orphaned>>,
           \/ EnterUnpack(r) \/ TakeLock(r) \/ LockIsTaken(r) \/ SetTrap(r)
           \/ Sleep(r) \/ Release(r) \/ DropTrap(r) \/ DieAfterRelease(r)
           \/ Finish(r)
    PROVE  IInv'
<1> USE DEF treeVars, procVars
<1>1. (\A f \in PackedFiles : Right(f)' <=> Right(f)) /\ (Complete' <=> Complete)
  BY DEF Right, Complete
<1>2. NoneCleans'
  BY DEF IInv, SafeInv, TypeOK, NoneCleans, EnterUnpack, TakeLock, LockIsTaken,
     SetTrap, Sleep, Release, DropTrap, DieAfterRelease, Finish, Goto
<1>3. ExtractInv'
  BY <1>1 DEF IInv, SafeInv, TypeOK, ExtractInv, Extracting, EnterUnpack, TakeLock,
     LockIsTaken, SetTrap, Sleep, Release, DropTrap, DieAfterRelease, Finish, Goto
<1>4. VerifyInv'
  <2>1. \A s \in Runners : pc'[s] # pc[s] => s = r
    BY DEF IInv, SafeInv, TypeOK, EnterUnpack, TakeLock, LockIsTaken, SetTrap,
       Sleep, Release, DropTrap, DieAfterRelease, Finish, Goto
  <2>2. pc'[r] \in {"peek", "recheck"} => at[r] = 1
    BY DEF IInv, SafeInv, TypeOK, VerifyInv, EnterUnpack, TakeLock, LockIsTaken,
       SetTrap, Sleep, Release, DropTrap, DieAfterRelease, Finish, Goto
  <2>3. pc'[r] \notin {"warm", "confirm", "rmarchive", "rmtree", "release"}
    BY DEF IInv, SafeInv, TypeOK, EnterUnpack, TakeLock, LockIsTaken, SetTrap,
       Sleep, Release, DropTrap, DieAfterRelease, Finish, Goto
  <2>4. pc'[r] \in {"untrap", "run"} => Complete
    BY DEF IInv, SafeInv, TypeOK, VerifyInv, EnterUnpack, TakeLock, LockIsTaken,
       SetTrap, Sleep, Release, DropTrap, DieAfterRelease, Finish, Goto
  <2>5. pc'[r] \in {"enter", "trylock", "settrap", "sleep"} => at[r] = 1
    BY DEF IInv, SafeInv, TypeOK, VerifyInv, EnterUnpack, TakeLock, LockIsTaken,
       SetTrap, Sleep, Release, DropTrap, DieAfterRelease, Finish, Goto
  <2> SUFFICES ASSUME NEW s \in Runners PROVE VerifyInv!(s)'
    BY DEF VerifyInv
  <2>6. CASE s # r
    BY <2>1, <2>6, <1>1 DEF IInv, VerifyInv
  <2>7. CASE s = r
    BY <2>2, <2>3, <2>4, <2>5, <2>7, <1>1 DEF PackedFiles
  <2> QED BY <2>6, <2>7
<1>5. LockInv'
  BY <1>1 DEF IInv, SafeInv, TypeOK, LockInv, VerifyInv, Holding, Extracting,
     EnterUnpack, TakeLock, LockIsTaken, SetTrap, Sleep, Release, DropTrap,
     DieAfterRelease, Finish, Goto
<1> QED BY <1>2, <1>3, <1>4, <1>5 DEF IInv

\* A process ends, by itself or by a signal; its trap may remove the lock.
LEMMA EndKeeps ==
    ASSUME IInv, SafeInv', NEW r \in Runners, NEW how \in Ended,
           pc' = [pc EXCEPT ![r] = how],
           lock' = lock \/ (r \in trap /\ lock' = None),
           UNCHANGED <<payload, dir, at, orphaned>>,
           \A f \in PackedFiles : files'[f] = files[f]
    PROVE  IInv'
<1>1. (\A f \in PackedFiles : Right(f)' <=> Right(f)) /\ (Complete' <=> Complete)
  BY DEF Right, Complete
<1>2. NoneCleans'
  BY DEF IInv, SafeInv, TypeOK, NoneCleans, Ended
<1>3. ExtractInv'
  BY <1>1 DEF IInv, SafeInv, TypeOK, ExtractInv, Extracting, Ended
<1>4. VerifyInv'
  BY <1>1 DEF IInv, SafeInv, TypeOK, VerifyInv, Ended
<1>5. LockInv'
  <2> SUFFICES ASSUME payload # "mismatched" PROVE LockInv'
    BY DEF LockInv
  <2>1. r \in trap => pc[r] \in Trapped
    BY DEF IInv, SafeInv, TrapInv
  <2>2. r \in trap /\ pc[r] \notin Extracting => Complete \/ lock = r
    BY <2>1 DEF Trapped, IInv, LockInv, VerifyInv
  <2> QED BY <1>1, <2>1, <2>2 DEF IInv, SafeInv, TypeOK, LockInv, Trapped, Holding,
       Extracting, Ended
<1> QED BY <1>2, <1>3, <1>4, <1>5 DEF IInv

\* The steps of the extraction that change no packed file: mkdir, writing the
\* archive, starting tar, removing the archive.
LEMMA ArchiveKeeps ==
    ASSUME IInv, SafeInv', NEW r \in Runners,
           \/ MakeTree(r) \/ WriteArchive(r) \/ CheckArchive(r) \/ RemoveArchive(r)
    PROVE  IInv'
<1> USE DEF treeVars, procVars
<1>1. \A f \in PackedFiles : files'[f] = files[f]
  BY DEF IInv, SafeInv, TypeOK, TreeTypeOK, MakeTree, WriteArchive, CheckArchive,
     RemoveArchive, MakeDirectory, WriteFile, PackedFiles, AllFiles, Archive
<1>2. (\A f \in PackedFiles : Right(f)' <=> Right(f)) /\ (Complete' <=> Complete)
  BY <1>1, CompleteIsAllRight, CompleteIsAllRightNext DEF Right, IInv, SafeInv
<1>3. NoneCleans'
  BY DEF IInv, SafeInv, TypeOK, NoneCleans, MakeTree, WriteArchive, CheckArchive,
     RemoveArchive, Goto
<1>4. \A s \in Runners \ {r} : pc'[s] = pc[s] /\ at'[s] = at[s]
  BY DEF IInv, SafeInv, TypeOK, MakeTree, WriteArchive, CheckArchive,
     RemoveArchive, Goto
<1>5. payload' = payload /\ lock' = lock /\ (dir => dir')
  BY DEF MakeTree, WriteArchive, CheckArchive, RemoveArchive, MakeDirectory,
     WriteFile
<1>6. ExtractInv'
  <2> SUFFICES ASSUME NEW s \in Runners PROVE ExtractInv!(s)'
    BY DEF ExtractInv
  <2>1. CASE s # r
    <3>1. s \in Runners \ {r} /\ (at[s] \in PackedFiles)
      BY <2>1 DEF IInv, SafeInv, TypeOK
    <3> QED BY <3>1, <1>1, <1>2, <1>4, <1>5 DEF IInv, ExtractInv
  <2>2. CASE s = r
    BY <2>2, <1>1, <1>2, <1>5 DEF IInv, SafeInv, TypeOK, ExtractInv, Extracting,
       MakeTree, WriteArchive, CheckArchive, RemoveArchive, MakeDirectory,
       WriteFile, Goto, PackedFiles
  <2> QED BY <2>1, <2>2
<1>7. VerifyInv'
  <2> SUFFICES ASSUME NEW s \in Runners PROVE VerifyInv!(s)'
    BY DEF VerifyInv
  <2>1. CASE s # r
    BY <2>1, <1>2, <1>4 DEF IInv, VerifyInv
  <2>2. CASE s = r
    BY <2>2, <1>2 DEF IInv, SafeInv, TypeOK, VerifyInv, MakeTree, WriteArchive,
       CheckArchive, RemoveArchive, Goto, PackedFiles
  <2> QED BY <2>1, <2>2
<1>8. LockInv'
  BY <1>2, <1>4, <1>5 DEF IInv, SafeInv, TypeOK, LockInv, Holding, Extracting,
     MakeTree, WriteArchive, CheckArchive, RemoveArchive, Goto
<1> QED BY <1>3, <1>6, <1>7, <1>8 DEF IInv

\* A packed file that is taken out, or opened for writing, while the tree is
\* incomplete leaves every lock-free hashing a file to stumble over.
LEMMA BreakKeepsVerify ==
    ASSUME IInv, SafeInv', NEW s \in Runners, ~Complete, ~Complete',
           pc'[s] = pc[s], at'[s] = at[s],
           \A f \in PackedFiles : Right(f)' => Right(f)
    PROVE  VerifyInv!(s)'
<1>1. \E f \in PackedFiles : ~Right(f)
  BY CompleteIsAllRight DEF IInv, SafeInv
<1>2. at[s] \in PackedFiles /\ PackedFiles = 1..NFiles
  BY DEF IInv, SafeInv, TypeOK, PackedFiles
<1>3. pc[s] \notin {"release", "untrap", "run"}
  BY DEF IInv, VerifyInv
<1>4. ASSUME pc[s] \in {"warm", "peek", "recheck", "confirm"}
      PROVE  \E f \in PackedFiles : f >= at[s] /\ ~Right(f)
  BY <1>1, <1>2, <1>4 DEF IInv, VerifyInv
<1> QED BY <1>3, <1>4 DEF IInv, VerifyInv

\* rm -rf under the lock.
LEMMA RemoveKeeps ==
    ASSUME IInv, SafeInv', NEW r \in Runners, RemoveOldTree(r)
    PROVE  IInv'
<1> USE DEF procVars
<1>1. pc[r] = "rmtree" /\ ~Complete
  BY DEF RemoveOldTree, RemoveTreeStep, Goto, IInv, ExtractInv, Extracting
<1>2. payload' = payload /\ lock' = lock /\ at' = at
  BY DEF RemoveOldTree, RemoveTreeStep, RemoveFile, RemoveDirectory
<1>3. \A f \in PackedFiles : Right(f)' => Right(f)
  BY DEF RemoveOldTree, RemoveTreeStep, RemoveFile, RemoveDirectory, Right, IInv,
     SafeInv, TypeOK, TreeTypeOK, PackedFiles, AllFiles
<1>4. ~Complete'
  BY <1>1, <1>3, CompleteIsAllRight, CompleteIsAllRightNext DEF IInv, SafeInv
<1>5. CASE pc'[r] = "rmtree"
  <2>1. pc' = pc /\ dir' = dir /\ orphaned' = orphaned
    BY <1>5 DEF RemoveOldTree, RemoveTreeStep, RemoveFile, Goto, IInv, SafeInv, TypeOK
  <2>2. VerifyInv'
    BY <2>1, <1>1, <1>2, <1>3, <1>4, BreakKeepsVerify DEF VerifyInv
  <2>3. ExtractInv'
    <3>1. payload # "mismatched" => \A s \in Runners \ {r} : pc[s] \notin Extracting
      BY <1>1 DEF IInv, LockInv, Extracting, Holding
    <3> QED BY <1>1, <1>2, <1>4, <2>1, <3>1 DEF IInv, ExtractInv, Extracting
  <2>4. LockInv' /\ NoneCleans'
    BY <1>1, <1>2, <1>4, <2>1 DEF IInv, LockInv, NoneCleans
  <2> QED BY <2>2, <2>3, <2>4 DEF IInv
<1>6. CASE pc'[r] # "rmtree"
  <2>1. pc' = [pc EXCEPT ![r] = "mkdir"]
    BY <1>1, <1>6 DEF RemoveOldTree, RemoveTreeStep, Goto
  <2>2. /\ \A f \in PackedFiles : ~Right(f) /\ ~Right(f)'
        /\ orphaned' = orphaned \cup {s \in Runners : pc[s] \in {"tar", "tarwrite"}}
    BY <1>1, <1>6 DEF RemoveOldTree, RemoveTreeStep, Goto, RemoveDirectory, Empty,
       PackedFiles, AllFiles, Right
  <2>3. payload # "mismatched" => \A s \in Runners \ {r} : pc[s] \notin Extracting
    BY <1>1 DEF IInv, LockInv, Extracting, Holding
  <2>4. VerifyInv'
    <3> SUFFICES ASSUME NEW s \in Runners PROVE VerifyInv!(s)'
      BY DEF VerifyInv
    <3>1. at'[s] \in PackedFiles /\ PackedFiles = 1..NFiles
      BY DEF SafeInv, TypeOK, PackedFiles
    <3>2. \E f \in PackedFiles : f >= at'[s] /\ ~Right(f)'
      BY <2>2, <3>1
    <3>3. pc'[s] \notin {"release", "untrap", "run"}
      BY <1>1, <2>1 DEF IInv, SafeInv, TypeOK, VerifyInv
    <3>4. pc'[s] \in {"enter", "trylock", "settrap", "sleep", "rmtree", "rmarchive"}
            => at'[s] = 1
      BY <1>2, <2>1 DEF IInv, SafeInv, TypeOK, VerifyInv
    <3> QED BY <3>2, <3>3, <3>4
  <2>5. ExtractInv'
    BY <1>1, <1>2, <1>4, <2>1, <2>2, <2>3 DEF IInv, SafeInv, TypeOK, ExtractInv,
       Extracting
  <2>6. LockInv' /\ NoneCleans'
    BY <1>1, <1>2, <1>4, <2>1, <2>2, <2>3 DEF IInv, SafeInv, TypeOK, LockInv,
       NoneCleans, Holding, Extracting
  <2> QED BY <2>4, <2>5, <2>6 DEF IInv
<1> QED BY <1>5, <1>6

\* tar xf, member by member, in the order in which the hashing reads them.
LEMMA TarKeeps ==
    ASSUME IInv, SafeInv', NEW r \in Runners, TarCreate(r) \/ TarWrite(r)
    PROVE  IInv'
<1> USE DEF procVars, treeVars
<1>0. PICK k \in PackedFiles : k = at[r]
  BY DEF IInv, SafeInv, TypeOK
<1>1. pc[r] \in {"tar", "tarwrite"} /\ ~Complete
  BY DEF TarCreate, TarWrite, Goto, IInv, ExtractInv, Extracting
<1>2. k \in AllFiles /\ PackedFiles = 1..NFiles /\ NFiles \in Nat
  BY DEF PackedFiles, AllFiles
<1>3. payload' = payload /\ lock' = lock /\ dir' = dir /\ orphaned' = orphaned
  BY DEF TarCreate, TarWrite, WriteFile
<1>4. \A s \in Runners \ {r} : pc'[s] = pc[s] /\ at'[s] = at[s]
  BY DEF TarCreate, TarWrite, Goto, IInv, SafeInv, TypeOK
<1>5. \A f \in PackedFiles \ {k} : Right(f)' <=> Right(f)
  <2>1. \/ files' = files
        \/ files' = [files EXCEPT ![k] = "wrong"]
        \/ files' = [files EXCEPT ![k] = "right"]
    BY <1>0 DEF TarCreate, TarWrite, WriteFile, MemberAt, Extracted
  <2> QED BY <2>1 DEF Right, IInv, SafeInv, TypeOK, TreeTypeOK, AllFiles
<1>6. payload # "mismatched" => \A s \in Runners \ {r} :
          pc[s] \notin Holding \cup {"untrap", "untrapbad"}
  BY <1>1 DEF IInv, LockInv, Extracting
<1>7. NoneCleans'
  BY DEF TarCreate, TarWrite, Goto, IInv, SafeInv, TypeOK, NoneCleans
<1>8. /\ pc'[r] \in {"tar", "tarwrite", "rmarchive"}
      /\ pc'[r] = "rmarchive" => at'[r] = 1
  BY DEF TarCreate, TarWrite, Goto, IInv, SafeInv, TypeOK
<1>9. LockInv'
  <2> SUFFICES ASSUME payload # "mismatched", NEW s \in Runners
               PROVE  LockInv!2!2!(s)'
    BY <1>3 DEF IInv, LockInv
  <2>1. lock = r
    BY <1>1 DEF IInv, LockInv, Extracting
  <2>2. CASE s # r
    BY <1>4, <1>6, <2>2 DEF Holding
  <2>3. CASE s = r
    BY <1>3, <1>4, <1>6, <1>8, <2>1, <2>3
  <2> QED BY <2>2, <2>3
<1>10. CASE payload = "mismatched" \/ TarCreate(r)
  <2>1. \A f \in PackedFiles : Right(f)' => Right(f)
    <3>1. Right(k)' => Right(k)
      BY <1>0, <1>2, <1>10 DEF Right, TarCreate, TarWrite, WriteFile, MemberAt, Extracted,
         IInv, SafeInv, TypeOK, TreeTypeOK
    <3> QED BY <1>5, <3>1
  <2>2. ~Complete'
    BY <1>1, <2>1, CompleteIsAllRight, CompleteIsAllRightNext DEF IInv, SafeInv
  <2>3. VerifyInv'
    <3> SUFFICES ASSUME NEW s \in Runners PROVE VerifyInv!(s)'
      BY DEF VerifyInv
    <3>1. CASE s # r
      BY <1>1, <1>4, <2>1, <2>2, <3>1, BreakKeepsVerify
    <3>2. CASE s = r
      BY <1>8, <3>2
    <3> QED BY <3>1, <3>2
  <2>4. ExtractInv'
    <3>1. CASE payload = "mismatched"
      BY <1>3, <2>2, <3>1 DEF ExtractInv
    <3>2. CASE payload # "mismatched"
      <4>1. /\ pc[r] = "tar" /\ pc'[r] = "tarwrite" /\ at' = at
            /\ files'[k] = "wrong"
        BY <1>0, <1>2, <1>10, <3>2 DEF TarCreate, Goto, WriteFile, MemberAt, IInv,
           SafeInv, TypeOK, TreeTypeOK
      <4>2. dir /\ \A f \in PackedFiles : Right(f) <=> f < at[r]
        BY <3>2, <4>1 DEF IInv, ExtractInv
      <4>3. \A f \in PackedFiles : Right(f)' <=> f < at[r]
        BY <1>0, <1>2, <1>5, <4>1, <4>2 DEF Right
      <4> SUFFICES ASSUME NEW s \in Runners PROVE ExtractInv!(s)'
        BY DEF ExtractInv
      <4>4. CASE s # r
        BY <1>4, <1>6, <3>2, <4>4 DEF Holding, Extracting
      <4>5. CASE s = r
        BY <1>0, <1>3, <2>2, <3>2, <4>1, <4>2, <4>3, <4>5
      <4> QED BY <4>4, <4>5
    <3> QED BY <3>1, <3>2
  <2> QED BY <1>7, <1>9, <2>3, <2>4 DEF IInv
<1>11. CASE payload # "mismatched" /\ TarWrite(r)
  <2>1. /\ pc[r] = "tarwrite" /\ dir /\ files[k] = "wrong" /\ orphaned = {}
        /\ \A f \in PackedFiles : Right(f) <=> f < k
    BY <1>0, <1>11 DEF TarWrite, IInv, ExtractInv, LockInv
  <2>2. files'[k] = "right"
    BY <1>0, <1>2, <1>11, <2>1 DEF TarWrite, WriteFile, MemberAt, Extracted, IInv,
       SafeInv, TypeOK, TreeTypeOK
  <2>3. \A f \in PackedFiles : Right(f)' <=> f < k + 1
    BY <1>2, <1>5, <2>1, <2>2 DEF Right
  <2>4. IF k = NFiles THEN pc'[r] = "rmarchive" ELSE pc'[r] = "tar" /\ at'[r] = k + 1
    BY <1>0, <1>11 DEF TarWrite, IInv, SafeInv, TypeOK
  <2>5. Complete' <=> k = NFiles
    BY <1>2, <2>3, CompleteIsAllRightNext DEF SafeInv
  <2>6. VerifyInv'
    <3> SUFFICES ASSUME NEW s \in Runners PROVE VerifyInv!(s)'
      BY DEF VerifyInv
    <3>1. CASE s # r
      <4>1. at[s] \in 1..NFiles /\ at'[s] = at[s] /\ pc'[s] = pc[s]
        BY <1>2, <1>4, <3>1 DEF IInv, SafeInv, TypeOK
      <4>2. \/ \A f \in PackedFiles : f < at'[s] => Right(f)'
            \/ \E f \in PackedFiles : f >= at'[s] /\ ~Right(f)'
        <5>1. CASE k = NFiles
          BY <1>2, <2>3, <5>1
        <5>2. CASE k # NFiles
          <6>1. NFiles \in PackedFiles /\ ~Right(NFiles)' /\ NFiles >= at'[s]
            BY <1>2, <2>3, <4>1, <5>2
          <6> QED BY <6>1
        <5> QED BY <5>1, <5>2
      <4>3. pc[s] \notin {"release", "untrap", "run"}
        BY <1>1 DEF IInv, VerifyInv
      <4> QED BY <4>1, <4>2, <4>3 DEF IInv, VerifyInv
    <3>2. CASE s = r
      BY <1>8, <3>2
    <3> QED BY <3>1, <3>2
  <2>7. ExtractInv'
    <3> SUFFICES ASSUME NEW s \in Runners PROVE ExtractInv!(s)'
      BY DEF ExtractInv
    <3>1. CASE s # r
      BY <1>4, <1>6, <1>11, <3>1 DEF Holding, Extracting
    <3>2. CASE s = r
      BY <1>3, <1>11, <2>1, <2>3, <2>4, <2>5, <3>2
    <3> QED BY <3>1, <3>2
  <2> QED BY <1>7, <1>9, <2>6, <2>7 DEF IInv
<1> QED BY <1>10, <1>11

\* Every step of every process keeps the invariant.
LEMMA CleanFreeNext == IInv /\ [Next]_vars => IInv'
<1> SUFFICES ASSUME IInv, [Next]_vars PROVE IInv'
  OBVIOUS
<1>0. SafeInv'
  BY SafeNext DEF IInv
<1>1. ASSUME UNCHANGED vars PROVE IInv'
  BY <1>0, <1>1 DEF vars, IInv, NoneCleans, LockInv, ExtractInv, VerifyInv, Complete,
     Right
<1>2. ASSUME NEW r \in Runners, Step(r) PROVE IInv'
  <2>1. ~Clean(r)
    BY DEF Clean, RemoveTreeStep, Goto, IInv, NoneCleans
  <2>2. CASE WarmVerify(r) \/ Recheck(r) \/ Peek(r) \/ Confirm(r)
    BY <1>0, <2>2, VerifyKeeps DEF WarmVerify, Recheck, Peek, Confirm
  <2>3. CASE \/ EnterUnpack(r) \/ TakeLock(r) \/ LockIsTaken(r) \/ SetTrap(r)
             \/ Sleep(r) \/ Release(r) \/ DropTrap(r) \/ DieAfterRelease(r)
    <3>1. UNCHANGED <<treeVars, at, orphaned>>
      BY <2>3 DEF EnterUnpack, TakeLock, LockIsTaken, SetTrap, Sleep, Release,
         DropTrap, DieAfterRelease, procVars
    <3> QED BY <1>0, <2>3, <3>1, QuietKeeps
  <2>4. CASE TimeOut(r) \/ ExtractionFails(r)
    <3>1. UNCHANGED <<payload, dir, files, at, orphaned>> /\ Exit(r, "failed")
      BY <2>4 DEF TimeOut, ExtractionFails, treeVars
    <3> QED BY <1>0, <3>1, EndKeeps DEF Exit, Ended
  <2>5. CASE RefuseArchive(r)
    <3>1. UNCHANGED <<payload, dir, at, orphaned>> /\ Exit(r, "failed")
      BY <2>5 DEF RefuseArchive
    <3>2. \A f \in PackedFiles : files'[f] = files[f]
      BY <2>5 DEF RefuseArchive, IInv, SafeInv, TypeOK, TreeTypeOK, AllFiles,
         PackedFiles, Archive
    <3> QED BY <1>0, <3>1, <3>2, EndKeeps DEF Exit, Ended
  <2>6. CASE RemoveOldTree(r)
    BY <1>0, <2>6, RemoveKeeps
  <2>7. CASE MakeTree(r) \/ WriteArchive(r) \/ CheckArchive(r) \/ RemoveArchive(r)
    BY <1>0, <2>7, ArchiveKeeps
  <2>8. CASE TarCreate(r) \/ TarWrite(r)
    BY <1>0, <2>8, TarKeeps
  <2> QED BY <1>2, <2>1, <2>2, <2>3, <2>4, <2>5, <2>6, <2>7, <2>8 DEF Step
<1>3. ASSUME NEW r \in Runners, Finish(r) PROVE IInv'
  <2>1. UNCHANGED <<treeVars, at, orphaned>>
    BY <1>3 DEF Finish, procVars
  <2> QED BY <1>0, <1>3, <2>1, QuietKeeps
<1>4. ASSUME NEW r \in Runners, NEW kind \in Signals, Signal(r, kind)
      PROVE  IInv'
  <2>1. /\ UNCHANGED <<payload, dir, files, at, orphaned>>
        /\ pc' = [pc EXCEPT ![r] = "dead"]
        /\ lock' = lock \/ (r \in trap /\ lock' = None)
    BY <1>4 DEF Signal, Exit, treeVars
  <2> QED BY <1>0, <2>1, EndKeeps DEF Ended
<1> QED BY <1>1, <1>2, <1>3, <1>4 DEF Next

\* Two processes that are both extracting are the same.
LEMMA ExtractorIsUnique == IInv => OneExtractor
BY DEF IInv, LockInv, OneExtractor, Holding, Extracting

\* Without --pwshpy-clean, whatever processes fail or are killed, and under a
\* shell that runs the EXIT trap on a signal as well as under one that does
\* not: a script that was started runs on a complete tree, and one process at
\* a time extracts (pwshpy_unpack_locked, pwshpy_verify_tree).
THEOREM ColdStartSafety ==
    ASSUME Cleaners = {}
    PROVE  Spec => [](RunsOnVerifiedTree /\ OneExtractor)
<1>1. Init => IInv
  BY CleanFreeInit
<1>2. IInv => RunsOnVerifiedTree /\ OneExtractor
  BY ExtractorIsUnique DEF IInv, VerifyInv, RunsOnVerifiedTree
<1> QED BY <1>1, <1>2, CleanFreeNext, PTL DEF Spec

\* A step of the runners never undoes a complete tree.
LEMMA CompleteStays == IInv /\ [Next]_vars => (Complete => Complete')
<1> SUFFICES ASSUME IInv, [Next]_vars, Complete PROVE Complete'
  OBVIOUS
<1> USE DEF treeVars
<1>1. \A r \in Runners : pc[r] \notin {"clean", "rmtree", "mkdir", "archive",
                                     "shacheck", "tar", "tarwrite"}
  BY DEF IInv, NoneCleans, ExtractInv, Extracting
<1>2. UNCHANGED <<dir, files>> \/ \E r \in Runners : RemoveArchive(r)
  BY <1>1 DEF Next, Step, Finish, Signal, vars, Clean, RemoveOldTree, RemoveTreeStep,
     Goto, WarmVerify, Recheck, Peek, Confirm, VerifyStep, EnterUnpack, TakeLock,
     LockIsTaken, TimeOut, SetTrap, Sleep, MakeTree, WriteArchive, CheckArchive,
     RefuseArchive, TarCreate, TarWrite, ExtractionFails, Release, DropTrap,
     DieAfterRelease
<1>3. \A f \in PackedFiles : f # Archive
  BY DEF PackedFiles, Archive
<1> QED BY <1>2, <1>3 DEF Complete, RemoveArchive, IInv, SafeInv, TypeOK, TreeTypeOK,
     AllFiles

\* Without --pwshpy-clean no process ever takes a complete tree away from the
\* scripts that run on it.
THEOREM VerifiedTreeIsKept ==
    ASSUME Cleaners = {} PROVE Spec => VerifiedTreeStays
<1>1. Init => IInv
  BY CleanFreeInit
<1> QED BY <1>1, CleanFreeNext, CompleteStays, PTL DEF Spec, VerifiedTreeStays

-----------------------------------------------------------------------------
(* The runners implement PackService.                                      *)

\* A step that leaves every phase alone publishes the payload or stutters.
LEMMA QuietStepImplements ==
    ASSUME Complete => Complete',
           \A s \in Runners : PhaseOf(pc'[s]) = PhaseOf(pc[s])
    PROVE  [Service!Next]_(Service!svars)
<1>1. [r \in Runners |-> PhaseOf(pc'[r])] = [r \in Runners |-> PhaseOf(pc[r])]
  OBVIOUS
<1>2. (Complete' <=> Complete) \/ (~Complete /\ Complete')
  OBVIOUS
<1>3. Complete \in BOOLEAN /\ Complete' \in BOOLEAN
  BY DEF Complete
<1> QED BY <1>1, <1>2, <1>3 DEF Service!Next, Service!svars, Service!Publish

\* A step that changes the phase of one process launches or ends it.
LEMMA PhaseStepImplements ==
    ASSUME TypeOK, Complete' <=> Complete, NEW r \in Runners, NEW to,
           pc' = [pc EXCEPT ![r] = to],
           \/ to = "run" /\ pc[r] \notin {"run"} \cup Ended /\ Complete
           \/ to \in Ended /\ pc[r] \notin Ended
    PROVE  [Service!Next]_(Service!svars)
<1> DEFINE phase == [s \in Runners |-> PhaseOf(pc[s])]
<1>1. phase' = [phase EXCEPT ![r] = PhaseOf(to)]
  BY DEF TypeOK
<1>2. phase[r] = PhaseOf(pc[r])
  OBVIOUS
<1>3. Complete' = Complete
  BY DEF Complete
<1>4. CASE to = "run" /\ pc[r] \notin {"run"} \cup Ended /\ Complete
  <2>1. PhaseOf(to) = "running" /\ PhaseOf(pc[r]) = "starting"
    BY <1>4 DEF PhaseOf
  <2> QED BY <1>1, <1>2, <1>3, <1>4, <2>1 DEF Service!Next, Service!Launch
<1>5. CASE to \in Ended /\ pc[r] \notin Ended
  <2>1. PhaseOf(to) = "ended" /\ PhaseOf(pc[r]) # "ended"
    BY <1>5 DEF PhaseOf, Ended
  <2> QED BY <1>1, <1>2, <1>3, <2>1 DEF Service!Next, Service!End
<1> QED BY <1>4, <1>5

\* A hashing step launches the script, or leaves the phases alone.
LEMMA VerifyImplements ==
    ASSUME IInv, IInv', NEW r \in Runners, NEW from, NEW good, NEW bad,
           VerifyStep(r, from, good, bad),
           \/ from = "warm" /\ good = "run" /\ bad = "enter"
           \/ from = "peek" /\ good = "run" /\ bad = "sleep"
           \/ from = "recheck" /\ good = "release" /\ bad = "rmtree"
           \/ from = "confirm" /\ good = "release" /\ bad = "releasebad"
    PROVE  [Service!Next]_(Service!svars)
<1>1. Complete' <=> Complete
  BY DEF VerifyStep, treeVars, Complete
<1>2. PICK to \in {from, good, bad} : pc' = [pc EXCEPT ![r] = to]
  BY DEF VerifyStep
<1>3. CASE to = "run"
  <2>1. Complete
    BY <1>1, <1>2, <1>3 DEF IInv, SafeInv, TypeOK, VerifyInv
  <2> QED BY <1>1, <1>2, <1>3, <2>1, PhaseStepImplements DEF IInv, SafeInv,
       VerifyStep, Ended
<1>4. CASE to # "run"
  <2>1. \A s \in Runners : PhaseOf(pc'[s]) = PhaseOf(pc[s])
    BY <1>2, <1>4 DEF IInv, SafeInv, TypeOK, VerifyStep, PhaseOf, Ended
  <2> QED BY <1>1, <2>1, QuietStepImplements
<1> QED BY <1>3, <1>4

\* Every step of the runners is a step of the service, or none.
LEMMA StepImplements ==
    ASSUME IInv, IInv', [Next]_vars
    PROVE  [Service!Next]_(Service!svars)
<1>0. Complete => Complete'
  BY CompleteStays
<1>1. ASSUME UNCHANGED vars PROVE [Service!Next]_(Service!svars)
  BY <1>0, <1>1, QuietStepImplements DEF vars
<1>2. ASSUME NEW r \in Runners, Step(r) PROVE [Service!Next]_(Service!svars)
  <2>1. CASE WarmVerify(r) \/ Recheck(r) \/ Peek(r) \/ Confirm(r)
    BY <2>1, VerifyImplements DEF WarmVerify, Recheck, Peek, Confirm
  <2>2. CASE \/ Clean(r) \/ RemoveOldTree(r)
    <3>1. \A s \in Runners : PhaseOf(pc'[s]) = PhaseOf(pc[s])
      BY <2>2 DEF Clean, RemoveOldTree, RemoveTreeStep, Goto, IInv, SafeInv, TypeOK,
         PhaseOf, Ended
    <3> QED BY <1>0, <3>1, QuietStepImplements
  <2>3. CASE \/ EnterUnpack(r) \/ TakeLock(r) \/ LockIsTaken(r) \/ SetTrap(r)
             \/ Sleep(r) \/ Release(r)
    <3>1. \A s \in Runners : PhaseOf(pc'[s]) = PhaseOf(pc[s])
      BY <2>3 DEF EnterUnpack, TakeLock, LockIsTaken, SetTrap, Sleep, Release, Goto,
         IInv, SafeInv, TypeOK, PhaseOf, Ended
    <3> QED BY <1>0, <3>1, QuietStepImplements
  <2>4. CASE \/ MakeTree(r) \/ WriteArchive(r) \/ CheckArchive(r) \/ TarCreate(r)
             \/ TarWrite(r) \/ RemoveArchive(r)
    <3>1. \A s \in Runners : PhaseOf(pc'[s]) = PhaseOf(pc[s])
      BY <2>4 DEF MakeTree, WriteArchive, CheckArchive, TarCreate, TarWrite,
         RemoveArchive, Goto, IInv, SafeInv, TypeOK, PhaseOf, Ended
    <3> QED BY <1>0, <3>1, QuietStepImplements
  <2>5. CASE DropTrap(r)
    <3>1. pc' = [pc EXCEPT ![r] = "run"] /\ pc[r] = "untrap" /\ Complete
      BY <2>5 DEF DropTrap, Goto, IInv, VerifyInv
    <3>2. Complete'
      BY <1>0, <3>1
    <3> QED BY <3>1, <3>2, PhaseStepImplements DEF IInv, SafeInv, Ended
  <2>6. CASE DieAfterRelease(r) \/ TimeOut(r) \/ ExtractionFails(r)
    <3>1. pc' = [pc EXCEPT ![r] = "failed"] /\ pc[r] \notin Ended
      BY <2>6 DEF DieAfterRelease, TimeOut, ExtractionFails, Exit, Goto, Ended
    <3>2. Complete' <=> Complete
      BY <2>6 DEF DieAfterRelease, TimeOut, ExtractionFails, treeVars, Complete
    <3> QED BY <3>1, <3>2, PhaseStepImplements DEF IInv, SafeInv, Ended
  <2>7. CASE RefuseArchive(r)
    <3>1. pc' = [pc EXCEPT ![r] = "failed"] /\ pc[r] \notin Ended
      BY <2>7 DEF RefuseArchive, Exit, Ended
    <3>2. Complete' <=> Complete
      BY <2>7 DEF RefuseArchive, Complete, IInv, SafeInv, TypeOK, TreeTypeOK,
         AllFiles, PackedFiles, Archive
    <3> QED BY <3>1, <3>2, PhaseStepImplements DEF IInv, SafeInv, Ended
  <2> QED BY <1>2, <2>1, <2>2, <2>3, <2>4, <2>5, <2>6, <2>7 DEF Step
<1>3. ASSUME NEW r \in Runners, Finish(r) PROVE [Service!Next]_(Service!svars)
  <2>1. pc' = [pc EXCEPT ![r] = "done"] /\ pc[r] \notin Ended
    BY <1>3 DEF Finish, Goto, Ended
  <2>2. Complete' <=> Complete
    BY <1>3 DEF Finish, treeVars, Complete
  <2> QED BY <2>1, <2>2, PhaseStepImplements DEF IInv, SafeInv, Ended
<1>4. ASSUME NEW r \in Runners, NEW kind \in Signals, Signal(r, kind)
      PROVE  [Service!Next]_(Service!svars)
  <2>1. pc' = [pc EXCEPT ![r] = "dead"] /\ pc[r] \notin Ended
    BY <1>4 DEF Signal, Exit
  <2>2. Complete' <=> Complete
    BY <1>4 DEF Signal, treeVars, Complete
  <2> QED BY <2>1, <2>2, PhaseStepImplements DEF IInv, SafeInv, Ended
<1> QED BY <1>1, <1>2, <1>3, <1>4 DEF Next

\* Without --pwshpy-clean the runners implement the abstract service: the
\* payload becomes ready once, stays ready, and is launched only when ready.
THEOREM ColdStartImplementsService ==
    ASSUME Cleaners = {} PROVE Spec => ImplementsService
<1>1. Init => IInv
  BY CleanFreeInit
<1>2. Init => Service!Init
  <2> SUFFICES ASSUME Init PROVE Service!Init
    OBVIOUS
  <2>1. \A r \in Runners : PhaseOf(pc[r]) = "starting"
    BY DEF Init, PhaseOf, Ended
  <2> QED BY <2>1 DEF Service!Init, Complete
<1>3. IInv /\ IInv' /\ [Next]_vars => [Service!Next]_(Service!svars)
  BY StepImplements
<1> QED BY <1>1, <1>2, <1>3, CleanFreeNext, PTL DEF Spec, ImplementsService, Service!Spec

-----------------------------------------------------------------------------
(* What is left of the service beside --pwshpy-clean.  As above, no signal *)
(* runs the EXIT trap: whoever extracts owns the lock.                     *)

\* What a process knows of the tree while others discard it: under the lock
\* nothing becomes right that its extraction has not written, and a hashing
\* that begins begins with the first file.
Remade(r) ==
    /\ pc[r] = "rmtree" => \E f \in PackedFiles : ~Right(f)
    /\ pc[r] \in {"mkdir", "archive", "shacheck"} =>
         \A f \in PackedFiles : ~Right(f)
    /\ pc[r] \in {"tar", "tarwrite"} =>
         /\ \A f \in PackedFiles : f >= at[r] => ~Right(f)
         /\ r \in orphaned => \A f \in PackedFiles : files[f] = "missing"
    /\ pc[r] \in {"clean", "enter", "trylock", "settrap", "sleep", "rmtree",
                "rmarchive"} =>
         at[r] = 1

RemadeInv == \A r \in Runners : Remade(r)

CleanInv == SafeInv /\ HolderOwnsLock /\ RemadeInv

\* The packed files are numbered from 1, none of them is the archive.
LEMMA PackedAreFiles ==
    /\ NFiles \in Nat /\ PackedFiles = 1..NFiles
    /\ \A f \in PackedFiles : f \in AllFiles /\ f # Archive /\ f \in Nat
BY TreeAssumption DEF PackedFiles, AllFiles, Archive

\* Files that disappear do not disturb a process that does not move.
LEMMA RemadeStands ==
    ASSUME TypeOK, NEW s \in Runners, Remade(s),
           pc'[s] = pc[s], at'[s] = at[s],
           \A f \in PackedFiles : files'[f] = files[f] \/ files'[f] = "missing",
           s \in orphaned' =>
             s \in orphaned \/ \A f \in PackedFiles : files'[f] = "missing"
    PROVE  Remade(s)'
<1>1. \A f \in PackedFiles : Right(f)' => Right(f)
  BY DEF Right
<1>2. (pc[s] = "rmtree" => \E f \in PackedFiles : ~Right(f))'
  BY <1>1 DEF Remade
<1>3. (pc[s] \in {"mkdir", "archive", "shacheck"} =>
         \A f \in PackedFiles : ~Right(f))'
  BY <1>1 DEF Remade
<1>4. (pc[s] \in {"tar", "tarwrite"} =>
         /\ \A f \in PackedFiles : f >= at[s] => ~Right(f)
         /\ s \in orphaned => \A f \in PackedFiles : files[f] = "missing")'
  BY <1>1 DEF Remade
<1> QED BY <1>2, <1>3, <1>4 DEF Remade

\* A process behind nothing but its own commands is not disturbed by what the
\* holder of the lock writes.
LEMMA RemadeOutside ==
    ASSUME NEW s \in Runners, Remade(s), pc[s] \notin Holding,
           pc'[s] = pc[s], at'[s] = at[s]
    PROVE  Remade(s)'
BY DEF Remade, Holding, Extracting

\* --pwshpy-clean and the removal under the lock.
LEMMA RemoveRemade ==
    ASSUME CleanInv, NEW r \in Runners, Clean(r) \/ RemoveOldTree(r)
    PROVE  RemadeInv'
<1> USE DEF procVars, treeVars
<1>1. \A s \in Runners : Remade(s) /\ TypeOK
  BY DEF CleanInv, RemadeInv, SafeInv
<1>2. CASE \E f \in AllFiles : RemoveFile(f) /\ UNCHANGED <<lock, pc, procVars>>
  <2>1. \A f \in PackedFiles : files'[f] = files[f] \/ files'[f] = "missing"
    BY <1>1, <1>2, PackedAreFiles DEF RemoveFile, TypeOK, TreeTypeOK
  <2> QED BY <1>1, <1>2, <2>1, RemadeStands DEF RemadeInv
<1>3. CASE /\ Goto(r, "clean", "warm") \/ Goto(r, "rmtree", "mkdir")
           /\ RemoveDirectory /\ UNCHANGED at
  <2>1. \A f \in PackedFiles : files'[f] = "missing" /\ files[f] = "missing"
    BY <1>3, PackedAreFiles DEF RemoveDirectory, Empty
  <2>2. ASSUME NEW s \in Runners, s # r PROVE Remade(s)'
    <3>1. pc'[s] = pc[s] /\ at'[s] = at[s]
      BY <1>1, <1>3, <2>2 DEF Goto, TypeOK
    <3> QED BY <1>1, <2>1, <3>1, RemadeStands
  <2>3. pc'[r] \in {"warm", "mkdir"}
    BY <1>1, <1>3 DEF Goto, TypeOK
  <2>4. Remade(r)'
    BY <2>1, <2>3 DEF Remade, Right
  <2> QED BY <2>2, <2>4 DEF RemadeInv
<1> QED BY <1>2, <1>3 DEF Clean, RemoveOldTree, RemoveTreeStep

\* A hashing under the lock that fails has found a file that is not right.
LEMMA VerifyRemade ==
    ASSUME CleanInv, NEW r \in Runners, NEW from, NEW good, NEW bad,
           VerifyStep(r, from, good, bad),
           \/ from = "warm" /\ good = "run" /\ bad = "enter"
           \/ from = "peek" /\ good = "run" /\ bad = "sleep"
           \/ from = "recheck" /\ good = "release" /\ bad = "rmtree"
           \/ from = "confirm" /\ good = "release" /\ bad = "releasebad"
    PROVE  RemadeInv'
<1> USE DEF treeVars
<1>1. \A s \in Runners : Remade(s) /\ TypeOK
  BY DEF CleanInv, RemadeInv, SafeInv
<1>2. ASSUME NEW s \in Runners, s # r PROVE Remade(s)'
  <2>1. pc'[s] = pc[s] /\ at'[s] = at[s] /\ files' = files /\ orphaned' = orphaned
    BY <1>1, <1>2 DEF VerifyStep, TypeOK
  <2> QED BY <1>1, <2>1, RemadeStands
<1>3. pc'[r] = bad => files'[at[r]] # "right" /\ at'[r] = 1
  <2>1. at[r] \in PackedFiles
    BY <1>1 DEF TypeOK
  <2>2. ~dir => ~Right(at[r])
    BY <1>1, <2>1, PackedAreFiles DEF TypeOK, TreeTypeOK, Right
  <2>3. HashedAt(at[r]) = at[r]
    BY DEF HashedAt
  <2> QED BY <1>1, <2>2, <2>3 DEF VerifyStep, TypeOK, Right
<1>4. pc'[r] \in {from, good, bad} /\ at[r] \in PackedFiles
  BY <1>1 DEF VerifyStep, TypeOK
<1>5. Remade(r)'
  <2>1. CASE pc'[r] = bad
    <3>1. at'[r] = 1 /\ pc'[r] \in {"enter", "sleep", "rmtree", "releasebad"}
      BY <1>3, <2>1
    <3>2. \E f \in PackedFiles : ~Right(f)'
      BY <1>3, <1>4, <2>1 DEF Right
    <3> QED BY <3>1, <3>2 DEF Remade
  <2>2. CASE pc'[r] # bad
    <3>1. pc'[r] \in {"warm", "peek", "recheck", "confirm", "run", "release"}
      BY <1>4, <2>2
    <3> QED BY <3>1 DEF Remade
  <2> QED BY <2>1, <2>2
<1> QED BY <1>2, <1>5 DEF RemadeInv

\* A step that leaves the packed files alone and moves one process.
LEMMA QuietRemade ==
    ASSUME CleanInv, NEW r \in Runners, NEW to,
           pc' = [pc EXCEPT ![r] = to],
           \A s \in Runners \ {r} : at'[s] = at[s],
           \A f \in PackedFiles : files'[f] = files[f],
           orphaned' \subseteq orphaned,
           to \in {"enter", "trylock", "settrap", "sleep", "rmarchive"} => at'[r] = 1,
           to \notin {"clean", "rmtree", "mkdir", "archive", "shacheck", "tar", "tarwrite"}
    PROVE  RemadeInv'
<1>1. \A s \in Runners : Remade(s) /\ TypeOK
  BY DEF CleanInv, RemadeInv, SafeInv
<1>2. ASSUME NEW s \in Runners, s # r PROVE Remade(s)'
  <2>1. pc'[s] = pc[s] /\ at'[s] = at[s]
    BY <1>1, <1>2 DEF TypeOK
  <2> QED BY <1>1, <2>1, RemadeStands
<1>3. pc'[r] = to
  BY <1>1 DEF TypeOK
<1>4. Remade(r)'
  BY <1>3 DEF Remade
<1> QED BY <1>2, <1>4 DEF RemadeInv

\* The commands of the extraction that write.
LEMMA WriteRemade ==
    ASSUME CleanInv, NEW r \in Runners,
           \/ MakeTree(r) \/ WriteArchive(r) \/ CheckArchive(r)
           \/ TarCreate(r) \/ TarWrite(r)
    PROVE  RemadeInv'
<1> USE DEF procVars, treeVars
<1>1. \A s \in Runners : Remade(s) /\ TypeOK
  BY DEF CleanInv, RemadeInv, SafeInv
<1>2. ASSUME NEW s \in Runners, s # r PROVE Remade(s)'
  <2>1. pc'[s] = pc[s] /\ at'[s] = at[s]
    BY <1>1, <1>2 DEF MakeTree, WriteArchive, CheckArchive, TarCreate, TarWrite, Goto, TypeOK
  <2>2. pc[r] \in Holding
    BY DEF MakeTree, WriteArchive, CheckArchive, TarCreate, TarWrite, Goto, Holding,
       Extracting
  <2>3. pc[s] \notin Holding
    BY <1>2, <2>2 DEF CleanInv, HolderOwnsLock
  <2> QED BY <1>1, <2>1, <2>3, RemadeOutside
<1>3. Remade(r)'
  <2>1. CASE MakeTree(r) \/ WriteArchive(r)
    <3>1. \A f \in PackedFiles : Right(f)' <=> Right(f)
      BY <1>1, <2>1, PackedAreFiles DEF MakeTree, MakeDirectory, WriteArchive, WriteFile,
         Right, TypeOK, TreeTypeOK
    <3>2. pc'[r] \in {"archive", "shacheck"} /\ pc[r] \in {"mkdir", "archive"}
      BY <1>1, <2>1 DEF MakeTree, WriteArchive, Goto, TypeOK
    <3> QED BY <1>1, <3>1, <3>2 DEF Remade
  <2>2. CASE CheckArchive(r)
    <3>1. pc'[r] = "tar" /\ pc[r] = "shacheck" /\ r \notin orphaned'
      BY <1>1, <2>2 DEF CheckArchive, Goto, TypeOK
    <3>2. \A f \in PackedFiles : ~Right(f)'
      BY <1>1, <2>2, <3>1 DEF CheckArchive, Right, Remade
    <3> QED BY <3>1, <3>2 DEF Remade
  <2>3. CASE TarCreate(r)
    <3>1. pc'[r] = "tarwrite" /\ pc[r] = "tar" /\ r \notin orphaned' /\ at' = at
      BY <1>1, <2>3 DEF TarCreate, Goto, TypeOK
    <3>2. \A f \in PackedFiles : Right(f)' => Right(f)
      BY <1>1, <2>3, PackedAreFiles DEF TarCreate, WriteFile, MemberAt, Right, TypeOK,
         TreeTypeOK
    <3>3. \A f \in PackedFiles : f >= at[r] => ~Right(f)
      BY <1>1, <3>1 DEF Remade
    <3> QED BY <3>1, <3>2, <3>3 DEF Remade
  <2>4. CASE TarWrite(r)
    <3>1. PICK k \in PackedFiles : k = at[r] /\ MemberAt(at[r]) = k
      BY <1>1 DEF TypeOK, MemberAt
    <3>2. \/ pc'[r] = "rmarchive" /\ at'[r] = 1
          \/ pc'[r] = "tar" /\ at'[r] = k + 1
      BY <1>1, <2>4, <3>1 DEF TarWrite, TypeOK
    <3>3. \A f \in PackedFiles \ {k} : files'[f] = files[f]
      BY <1>1, <2>4, <3>1, PackedAreFiles DEF TarWrite, WriteFile, TypeOK, TreeTypeOK
    <3>4. \A f \in PackedFiles : f >= k + 1 => ~Right(f)'
      <4>1. \A f \in PackedFiles : f >= k => ~Right(f)
        BY <1>1, <2>4, <3>1 DEF TarWrite, Remade
      <4> QED BY <3>3, <4>1, PackedAreFiles DEF Right
    <3>5. r \in orphaned' => \A f \in PackedFiles : files'[f] = "missing"
      BY <1>1, <2>4, <3>1 DEF TarWrite, Remade
    <3> QED BY <3>2, <3>4, <3>5 DEF Remade
  <2> QED BY <2>1, <2>2, <2>3, <2>4
<1> QED BY <1>2, <1>3 DEF RemadeInv

\* Every step keeps it.
LEMMA CleanInvNext ==
    ASSUME ~TrapOnSignal \/ "term" \notin Signals
    PROVE  CleanInv /\ [Next]_vars => CleanInv'
<1> SUFFICES ASSUME CleanInv, [Next]_vars PROVE CleanInv'
  OBVIOUS
<1>1. SafeInv' /\ HolderOwnsLock'
  BY SafeNext, HolderOwnsLockNext DEF CleanInv
<1>2. TypeOK /\ \A s \in Runners : Remade(s)
  BY DEF CleanInv, SafeInv, RemadeInv
<1> USE DEF procVars, treeVars
<1>3. CASE UNCHANGED vars
  BY <1>2, <1>3, RemadeStands, <1>1 DEF vars, CleanInv, RemadeInv
<1>4. ASSUME NEW r \in Runners, Step(r) PROVE RemadeInv'
  <2>1. CASE Clean(r) \/ RemoveOldTree(r)
    BY <2>1, RemoveRemade
  <2>2. CASE WarmVerify(r) \/ Recheck(r) \/ Peek(r) \/ Confirm(r)
    BY <2>2, VerifyRemade DEF WarmVerify, Recheck, Peek, Confirm
  <2>3. CASE MakeTree(r) \/ WriteArchive(r) \/ CheckArchive(r) \/ TarCreate(r)
             \/ TarWrite(r)
    BY <2>3, WriteRemade
  <2>4. CASE EnterUnpack(r) \/ TakeLock(r) \/ LockIsTaken(r) \/ SetTrap(r) \/ Sleep(r)
    <3>1. PICK to \in {"trylock", "settrap", "peek", "recheck"} :
             pc' = [pc EXCEPT ![r] = to]
      BY <2>4 DEF EnterUnpack, TakeLock, LockIsTaken, SetTrap, Sleep, Goto
    <3>2. at' = at /\ files' = files /\ orphaned' = orphaned
      BY <2>4 DEF EnterUnpack, TakeLock, LockIsTaken, SetTrap, Sleep
    <3>3. at[r] = 1
      BY <1>2, <2>4 DEF EnterUnpack, TakeLock, LockIsTaken, SetTrap, Sleep, Goto, Remade
    <3> QED BY <3>1, <3>2, <3>3, QuietRemade
  <2>5. CASE Release(r) \/ DropTrap(r) \/ DieAfterRelease(r)
    <3>1. PICK to \in {"untrap", "untrapbad", "run", "failed"} :
             pc' = [pc EXCEPT ![r] = to]
      BY <2>5 DEF Release, DropTrap, DieAfterRelease, Goto
    <3>2. at' = at /\ files' = files /\ orphaned' = orphaned
      BY <2>5 DEF Release, DropTrap, DieAfterRelease
    <3> QED BY <3>1, <3>2, QuietRemade
  <2>6. CASE TimeOut(r) \/ ExtractionFails(r) \/ RefuseArchive(r)
    <3>1. pc' = [pc EXCEPT ![r] = "failed"] /\ at' = at /\ orphaned' = orphaned
      BY <2>6 DEF TimeOut, ExtractionFails, RefuseArchive, Exit
    <3>2. \A f \in PackedFiles : files'[f] = files[f]
      BY <1>2, <2>6, PackedAreFiles DEF TimeOut, ExtractionFails, RefuseArchive, TypeOK,
         TreeTypeOK
    <3> QED BY <3>1, <3>2, QuietRemade
  <2>7. CASE RemoveArchive(r)
    <3>1. pc' = [pc EXCEPT ![r] = "confirm"] /\ at' = at /\ orphaned' = orphaned
      BY <2>7 DEF RemoveArchive, Goto
    <3>2. \A f \in PackedFiles : files'[f] = files[f]
      BY <1>2, <2>7, PackedAreFiles DEF RemoveArchive, TypeOK, TreeTypeOK
    <3> QED BY <3>1, <3>2, QuietRemade
  <2> QED BY <1>4, <2>1, <2>2, <2>3, <2>4, <2>5, <2>6, <2>7 DEF Step
<1>5. ASSUME NEW r \in Runners, Finish(r) PROVE RemadeInv'
  <2>1. pc' = [pc EXCEPT ![r] = "done"] /\ UNCHANGED <<at, files, orphaned>>
    BY <1>5 DEF Finish, Goto
  <2> QED BY <2>1, QuietRemade
<1>6. ASSUME NEW r \in Runners, NEW kind \in Signals, Signal(r, kind) PROVE RemadeInv'
  <2>1. pc' = [pc EXCEPT ![r] = "dead"] /\ UNCHANGED <<at, files, orphaned>>
    BY <1>6 DEF Signal, Exit
  <2> QED BY <2>1, QuietRemade
<1> QED BY <1>1, <1>3, <1>4, <1>5, <1>6 DEF Next, CleanInv

\* What r has read and what is still to be read are the same in both states,
\* and no extraction has passed a file that disappeared: r is not misled now
\* if it was not.
LEMMA MisledStays ==
    ASSUME NEW q \in Runners, pc'[q] = pc[q], at'[q] = at[q],
           \A f \in PackedFiles : Right(f)' <=> Right(f),
           Complete' <=> Complete,
           \A s \in Runners, f \in PackedFiles : Lost(s, f)' => Lost(s, f) \/ Right(f),
           Misled(q)'
    PROVE  Misled(q)
<1>1. CASE pc[q] \in {"release", "untrap"} /\ ~Complete
  BY <1>1 DEF Misled
<1>2. CASE ~(pc[q] \in {"release", "untrap"} /\ ~Complete)
  <2>1. pc[q] \in {"warm", "peek", "recheck", "confirm"}
    BY <1>2 DEF Misled
  <2>2. PICK f \in PackedFiles :
           /\ f < at[q] /\ ~Right(f)
           /\ \/ \A g \in PackedFiles : g >= at[q] => Right(g)
              \/ \E s \in Runners : Lost(s, f)
    BY <1>2 DEF Misled
  <2> QED BY <2>1, <2>2 DEF Misled
<1> QED BY <1>1, <1>2

\* A step of one process that leaves the packed files alone, whichever command
\* it goes to: nobody else is misled by it.
LEMMA OthersNotMisled ==
    ASSUME CleanInv, TypeOK', NEW r \in Runners, NEW to,
           pc' = [pc EXCEPT ![r] = to],
           to = "tar" => at'[r] = 1,
           to # "tarwrite",
           \A s \in Runners \ {r} : at'[s] = at[s],
           \A f \in PackedFiles : files'[f] = files[f],
           payload' = payload
    PROVE  /\ Complete' <=> Complete
           /\ \A q \in Runners \ {r} : Misled(q)' => Misled(q)
<1>1. \A f \in PackedFiles : Right(f)' <=> Right(f)
  BY DEF Right
<1>2. Complete' <=> Complete
  BY <1>1, CompleteIsAllRight, CompleteIsAllRightNext DEF CleanInv, SafeInv
<1>3. pc'[r] = to /\ \A s \in Runners \ {r} : pc'[s] = pc[s]
  BY DEF CleanInv, SafeInv, TypeOK
<1>4. ASSUME NEW s \in Runners, NEW f \in PackedFiles, Lost(s, f)' PROVE Lost(s, f)
  <2>1. CASE s = r
    BY <1>3, <1>4, <2>1, PackedAreFiles DEF Lost
  <2>2. CASE s # r
    BY <1>3, <1>4, <2>2 DEF Lost
  <2> QED BY <2>1, <2>2
<1>5. ASSUME NEW q \in Runners \ {r}, Misled(q)' PROVE Misled(q)
  BY <1>1, <1>2, <1>3, <1>4, <1>5, MisledStays
<1> QED BY <1>2, <1>5

\* Outside its look no process is misled, nor where the look begins.
LEMMA NotMisledNext ==
    ASSUME NEW r \in Runners,
           \/ pc'[r] \notin {"warm", "peek", "recheck", "confirm", "release", "untrap"}
           \/ pc'[r] \in {"warm", "peek", "recheck", "confirm"} /\ at'[r] = 1
    PROVE  ~Misled(r)'
BY PackedAreFiles DEF Misled

\* A step that leaves all stages alone unpacks, or changes nothing.
LEMMA QuietStepServes ==
    ASSUME Complete => Complete',
           \A s \in Runners : StageOf(pc'[s]) = StageOf(pc[s]),
           \A s \in Runners : Misled(s)' => Misled(s)
    PROVE  [BesideClean!Next]_(BesideClean!cvars)
<1>1. [s \in Runners |-> StageOf(pc'[s])] = [s \in Runners |-> StageOf(pc[s])]
  OBVIOUS
<1>2. Complete \in BOOLEAN /\ Complete' \in BOOLEAN
  BY DEF Complete
<1>3. {s \in Runners : Misled(s)'} \subseteq {s \in Runners : Misled(s)}
  OBVIOUS
<1>4. Complete' \in {Complete, TRUE}
  BY <1>2
<1>5. BesideClean!Unpack
  BY <1>1, <1>3, <1>4 DEF BesideClean!Unpack
<1> QED BY <1>5 DEF BesideClean!Next

\* A step that takes one process to another stage.
LEMMA MoveStepServes ==
    ASSUME TypeOK, Complete' <=> Complete, NEW r \in Runners, NEW to,
           pc' = [pc EXCEPT ![r] = to],
           \A s \in Runners \ {r} : Misled(s)' => Misled(s),
           ~Misled(r)',
           \/ StageOf(pc[r]) = "waiting" /\ StageOf(to) = "looking"
           \/ StageOf(pc[r]) = "looking" /\ StageOf(to) = "waiting"
           \/ /\ StageOf(pc[r]) = "looking" /\ StageOf(to) = "running"
              /\ Complete \/ Misled(r)
           \/ /\ StageOf(pc[r]) \in {"discarding", "waiting", "looking", "running"}
              /\ StageOf(to) = "ended"
    PROVE  [BesideClean!Next]_(BesideClean!cvars)
<1> DEFINE phase == [s \in Runners |-> StageOf(pc[s])]
           misled == {s \in Runners : Misled(s)}
<1>1. phase' = [phase EXCEPT ![r] = StageOf(to)]
  BY DEF TypeOK
<1>2. phase[r] = StageOf(pc[r])
  OBVIOUS
<1>3. Complete' = Complete
  BY DEF Complete
<1>4. misled' \subseteq misled \ {r} /\ (r \in misled <=> Misled(r))
  OBVIOUS
<1> HIDE DEF phase, misled
<1>5. BesideClean!Move(r, StageOf(pc[r]), StageOf(to))
  BY <1>1, <1>2, <1>4 DEF BesideClean!Move, phase, misled
<1>6. CASE StageOf(pc[r]) = "waiting" /\ StageOf(to) = "looking"
  BY <1>3, <1>5, <1>6 DEF BesideClean!Look, BesideClean!Next
<1>7. CASE StageOf(pc[r]) = "looking" /\ StageOf(to) = "waiting"
  BY <1>3, <1>5, <1>7 DEF BesideClean!Reject, BesideClean!Next
<1>8. CASE /\ StageOf(pc[r]) = "looking" /\ StageOf(to) = "running"
           /\ Complete \/ Misled(r)
  BY <1>3, <1>5, <1>8 DEF BesideClean!Launch, BesideClean!Next
<1>9. CASE /\ StageOf(pc[r]) \in {"discarding", "waiting", "looking", "running"}
           /\ StageOf(to) = "ended"
  BY <1>3, <1>5, <1>9 DEF BesideClean!End, BesideClean!Phases, BesideClean!Next
<1> QED BY <1>6, <1>7, <1>8, <1>9

\* --pwshpy-clean discards.
LEMMA CleanServes ==
    ASSUME CleanInv, CleanInv', NEW r \in Runners, Clean(r)
    PROVE  [BesideClean!Next]_(BesideClean!cvars)
<1> DEFINE phase == [s \in Runners |-> StageOf(pc[s])]
           misled == {s \in Runners : Misled(s)}
<1> USE DEF procVars, treeVars
<1>1. TypeOK /\ TypeOK' /\ pc[r] = "clean"
  BY DEF CleanInv, SafeInv, Clean, RemoveTreeStep, Goto
<1>2. phase[r] = "discarding"
  BY <1>1 DEF StageOf, Ended
<1>3. \A f \in PackedFiles : Right(f)' => Right(f)
  BY <1>1, PackedAreFiles DEF Clean, RemoveTreeStep, RemoveFile, RemoveDirectory, Right,
     TypeOK, TreeTypeOK
<1>4. Complete' \in {Complete, FALSE}
  <2>1. Complete' => Complete
    BY <1>1, <1>3, CompleteIsAllRight, CompleteIsAllRightNext
  <2> QED BY <2>1 DEF Complete
<1>5. pc' = pc \/ (pc' = [pc EXCEPT ![r] = "warm"] /\ ~dir')
  BY DEF Clean, RemoveTreeStep, Goto, RemoveDirectory
<1>6. misled' \subseteq misled \cup {s \in Runners : phase[s] = "looking"}
  <2> SUFFICES ASSUME NEW s \in Runners, Misled(s)' PROVE phase[s] = "looking"
    OBVIOUS
  <2>1. pc'[s] \in {"warm", "peek", "recheck", "confirm", "release", "untrap"}
    BY DEF Misled
  <2>2. s # r
    <3>1. at[r] = 1 /\ at'[r] = at[r]
      BY <1>1 DEF CleanInv, RemadeInv, Remade, Clean, RemoveTreeStep
    <3>2. pc'[r] \in {"clean", "warm"}
      BY <1>1, <1>5 DEF TypeOK
    <3>3. ~Misled(r)'
      BY <3>1, <3>2, NotMisledNext
    <3> QED BY <3>3
  <2>3. pc'[s] = pc[s]
    BY <1>1, <1>5, <2>2 DEF TypeOK
  <2> QED BY <2>1, <2>3 DEF StageOf, Ended
<1>7. CASE pc' = pc
  <2>1. phase' = phase
    BY <1>7
  <2>2. BesideClean!Discard(r)
    BY <1>2, <1>4, <1>6, <2>1 DEF BesideClean!Discard, BesideClean!Looking
  <2> QED BY <2>2 DEF BesideClean!Next
<1>8. CASE pc' = [pc EXCEPT ![r] = "warm"] /\ ~dir'
  <2>1. phase' = [phase EXCEPT ![r] = "looking"]
    BY <1>1, <1>8 DEF TypeOK, StageOf, Ended
  <2>2. Complete' = FALSE
    BY <1>8 DEF Complete
  <2>3. BesideClean!Discarded(r)
    BY <1>2, <1>6, <2>1, <2>2 DEF BesideClean!Discarded, BesideClean!Looking
  <2> QED BY <2>3 DEF BesideClean!Next
<1> QED BY <1>5, <1>7, <1>8

\* The removal under the lock misleads nobody: the tree it removes has a file
\* that is not right, which whoever hashes the tree has seen or is going to see.
LEMMA RemoveServes ==
    ASSUME CleanInv, CleanInv', NEW r \in Runners, RemoveOldTree(r)
    PROVE  [BesideClean!Next]_(BesideClean!cvars)
<1> USE DEF procVars, treeVars
<1>1. TypeOK /\ TypeOK' /\ pc[r] = "rmtree"
  BY DEF CleanInv, SafeInv, RemoveOldTree, RemoveTreeStep, Goto
<1>2. PICK h \in PackedFiles : ~Right(h)
  BY <1>1 DEF CleanInv, RemadeInv, Remade
<1>3. \A f \in PackedFiles : Right(f)' => Right(f)
  BY <1>1, PackedAreFiles DEF RemoveOldTree, RemoveTreeStep, RemoveFile, RemoveDirectory,
     Right, TypeOK, TreeTypeOK
<1>4. ~Complete /\ ~Complete'
  BY <1>1, <1>2, <1>3, CompleteIsAllRight, CompleteIsAllRightNext
<1>5. at' = at /\ (pc' = pc \/ pc' = [pc EXCEPT ![r] = "mkdir"])
  BY DEF RemoveOldTree, RemoveTreeStep, Goto
<1>6. \A s \in Runners : StageOf(pc'[s]) = StageOf(pc[s])
  BY <1>1, <1>5 DEF StageOf, TypeOK, Ended
<1>7. ASSUME NEW q \in Runners, Misled(q)' PROVE Misled(q)
  <2>1. q # r /\ pc'[q] = pc[q]
    BY <1>1, <1>5, <1>7 DEF Misled, TypeOK
  <2>2. \A s \in Runners : pc'[s] \notin {"tar", "tarwrite"}
    <3>1. \A s \in Runners \ {r} : pc[s] \notin Holding
      BY <1>1 DEF CleanInv, HolderOwnsLock, Holding, Extracting
    <3> QED BY <1>1, <1>5, <3>1 DEF Holding, Extracting, TypeOK
  <2>3. CASE pc[q] \in {"release", "untrap"}
    BY <1>4, <2>3 DEF Misled
  <2>4. CASE pc[q] \notin {"release", "untrap"}
    <3>1. /\ pc[q] \in {"warm", "peek", "recheck", "confirm"}
          /\ \A g \in PackedFiles : g >= at[q] => Right(g)'
      BY <1>5, <1>7, <2>1, <2>2, <2>4 DEF Misled, Lost
    <3>2. at[q] \in Nat /\ h \in Nat
      BY <1>1, PackedAreFiles DEF TypeOK
    <3>3. h < at[q]
      BY <1>2, <1>3, <3>1, <3>2
    <3> QED BY <1>2, <1>3, <3>1, <3>3 DEF Misled
  <2> QED BY <2>3, <2>4
<1> QED BY <1>4, <1>6, <1>7, QuietStepServes

\* A hashing goes on, ends in a launch or a release, or in a rejection.
LEMMA VerifyServes ==
    ASSUME CleanInv, CleanInv', NEW r \in Runners, NEW from, NEW good, NEW bad,
           VerifyStep(r, from, good, bad),
           \/ from = "warm" /\ good = "run" /\ bad = "enter"
           \/ from = "peek" /\ good = "run" /\ bad = "sleep"
           \/ from = "recheck" /\ good = "release" /\ bad = "rmtree"
           \/ from = "confirm" /\ good = "release" /\ bad = "releasebad"
    PROVE  [BesideClean!Next]_(BesideClean!cvars)
<1> USE DEF treeVars
<1>1. TypeOK /\ TypeOK' /\ pc[r] = from
  BY DEF CleanInv, SafeInv, VerifyStep
<1>2. PICK to \in {from, good, bad} : pc' = [pc EXCEPT ![r] = to]
  BY DEF VerifyStep
<1>3. pc'[r] = to
  BY <1>1, <1>2 DEF TypeOK
<1>4. \A s \in Runners \ {r} : at'[s] = at[s]
  BY <1>1 DEF VerifyStep, TypeOK
<1>5. files' = files /\ dir' = dir /\ payload' = payload
  BY DEF VerifyStep
<1>6. (Complete' <=> Complete) /\ \A q \in Runners \ {r} : Misled(q)' => Misled(q)
  BY <1>1, <1>2, <1>4, <1>5, OthersNotMisled
<1>7. from \in {"warm", "peek", "recheck", "confirm"}
  OBVIOUS
<1>8. PICK k \in PackedFiles : k = at[r]
  BY <1>1 DEF TypeOK
<1>9. to = bad \/ (Right(k) /\ (k = NFiles \/ (to = from /\ at'[r] = k + 1)))
  BY <1>1, <1>3, <1>8 DEF VerifyStep, TypeOK, Right, HashedAt
<1>10. CASE to = bad
  <2>1. ~Misled(r)'
    BY <1>3, <1>10, NotMisledNext
  <2>2. StageOf(pc[r]) = "looking" /\ StageOf(to) = "waiting"
    BY <1>1, <1>10 DEF StageOf, Ended
  <2> QED BY <1>1, <1>2, <1>6, <2>1, <2>2, MoveStepServes
<1>11. CASE to # bad /\ k # NFiles
  <2>1. to = from /\ at'[r] = k + 1 /\ Right(k)
    BY <1>9, <1>11
  <2>2. ASSUME Misled(r)' PROVE Misled(r)
    <3>1. PICK f \in PackedFiles :
             /\ f < k + 1 /\ files[f] # "right"
             /\ \/ \A g \in PackedFiles : g >= k + 1 => files[g] = "right"
                \/ \E s \in Runners : Lost(s, f)'
      BY <1>3, <1>5, <1>7, <2>1, <2>2 DEF Misled, Right
    <3>2. f < k /\ ~Right(f)
      BY <2>1, <3>1, PackedAreFiles DEF Right
    <3>3. ASSUME \A g \in PackedFiles : g >= k + 1 => files[g] = "right",
                 NEW g \in PackedFiles, g >= k
          PROVE  Right(g)
      BY <2>1, <3>3, PackedAreFiles DEF Right
    <3>4. ASSUME NEW s \in Runners, Lost(s, f)' PROVE Lost(s, f)
      <4>1. s # r
        BY <1>3, <1>7, <2>1, <3>4 DEF Lost
      <4>2. pc'[s] = pc[s] /\ at'[s] = at[s]
        BY <1>1, <1>2, <1>4, <4>1 DEF TypeOK
      <4> QED BY <1>5, <3>4, <4>2 DEF Lost
    <3> QED BY <1>1, <1>7, <1>8, <3>1, <3>2, <3>3, <3>4 DEF Misled
  <2>3. \A s \in Runners : StageOf(pc'[s]) = StageOf(pc[s])
    BY <1>1, <1>2, <2>1 DEF TypeOK
  <2> QED BY <1>6, <2>2, <2>3, QuietStepServes
<1>12. CASE to # bad /\ k = NFiles
  <2>1. Complete \/ Misled(r)
    <3>1. SUFFICES ASSUME ~Complete PROVE Misled(r)
      OBVIOUS
    <3>2. PICK f \in PackedFiles : ~Right(f)
      BY <1>1, <3>1, CompleteIsAllRight
    <3>3. Right(k)
      BY <1>9, <1>12
    <3>4. f < k /\ \A g \in PackedFiles : g >= k => Right(g)
      BY <1>12, <3>2, <3>3, PackedAreFiles
    <3> QED BY <1>1, <1>7, <1>8, <3>2, <3>4 DEF Misled
  <2>2. to = good
    BY <1>1, <1>3, <1>8, <1>9, <1>12 DEF VerifyStep, TypeOK, Right, HashedAt
  <2>3. CASE to = "run"
    <3>1. ~Misled(r)'
      BY <1>3, <2>3, NotMisledNext
    <3>2. StageOf(pc[r]) = "looking" /\ StageOf(to) = "running"
      BY <1>1, <1>7, <2>3 DEF StageOf, Ended
    <3> QED BY <1>1, <1>2, <1>6, <2>1, <3>1, <3>2, MoveStepServes
  <2>4. CASE to # "run"
    <3>1. to = "release"
      BY <2>2, <2>4
    <3>2. Misled(r)' => Misled(r)
      BY <1>3, <1>6, <2>1, <3>1 DEF Misled
    <3>3. \A s \in Runners : StageOf(pc'[s]) = StageOf(pc[s])
      BY <1>1, <1>2, <1>7, <3>1 DEF TypeOK, StageOf, Ended
    <3> QED BY <1>6, <3>2, <3>3, QuietStepServes
  <2> QED BY <2>3, <2>4
<1> QED BY <1>10, <1>11, <1>12

\* The commands that write the archive or the directory: nobody is misled.
LEMMA ArchiveServes ==
    ASSUME CleanInv, CleanInv', NEW r \in Runners,
           MakeTree(r) \/ WriteArchive(r) \/ CheckArchive(r)
    PROVE  [BesideClean!Next]_(BesideClean!cvars)
<1> USE DEF procVars, treeVars
<1>1. TypeOK /\ TypeOK'
  BY DEF CleanInv, SafeInv
<1>2. PICK to \in {"archive", "shacheck", "tar"} : pc' = [pc EXCEPT ![r] = to]
  BY DEF MakeTree, WriteArchive, CheckArchive, Goto
<1>3. pc'[r] = to /\ pc[r] \in {"mkdir", "archive", "shacheck"}
  BY <1>1, <1>2 DEF TypeOK, MakeTree, WriteArchive, CheckArchive, Goto
<1>4. /\ \A s \in Runners \ {r} : at'[s] = at[s]
      /\ to = "tar" => at'[r] = 1
  BY <1>1, <1>3 DEF MakeTree, WriteArchive, CheckArchive, Goto, TypeOK
<1>5. /\ \A f \in PackedFiles : files'[f] = files[f]
      /\ payload' = payload
  BY <1>1, PackedAreFiles DEF MakeTree, MakeDirectory, WriteArchive, WriteFile,
     CheckArchive, TypeOK, TreeTypeOK
<1>6. (Complete' <=> Complete) /\ \A q \in Runners \ {r} : Misled(q)' => Misled(q)
  BY <1>1, <1>2, <1>4, <1>5, OthersNotMisled
<1>7. ~Misled(r)'
  BY <1>3, NotMisledNext
<1>8. \A s \in Runners : StageOf(pc'[s]) = StageOf(pc[s])
  BY <1>1, <1>2, <1>3 DEF TypeOK, StageOf, Ended
<1> QED BY <1>6, <1>7, <1>8, QuietStepServes

\* tar misleads nobody either: what becomes right becomes so in the order in
\* which it is hashed, unless a file was discarded behind tar's back.
LEMMA TarServes ==
    ASSUME CleanInv, CleanInv', NEW r \in Runners, TarCreate(r) \/ TarWrite(r)
    PROVE  [BesideClean!Next]_(BesideClean!cvars)
<1> USE DEF procVars, treeVars
<1>0. TypeOK /\ TypeOK' /\ pc[r] \in {"tar", "tarwrite"} /\ Remade(r)
  BY DEF CleanInv, SafeInv, RemadeInv, TarCreate, TarWrite, Goto
<1>1. PICK k \in PackedFiles : k = at[r] /\ MemberAt(at[r]) = k
  BY <1>0 DEF TypeOK, MemberAt
<1>2. \A f \in PackedFiles : f >= k => ~Right(f)
  BY <1>0, <1>1 DEF Remade
<1>3. k >= k /\ ~Complete
  BY <1>0, <1>1, <1>2, PackedAreFiles, CompleteIsAllRight
<1>4. \A f \in PackedFiles \ {k} : files'[f] = files[f]
  BY <1>0, <1>1, PackedAreFiles DEF TarCreate, TarWrite, WriteFile, TypeOK, TreeTypeOK
<1>5. payload' = payload
  BY DEF TarCreate, TarWrite, WriteFile
<1>6. PICK to \in {"tarwrite", "tar", "rmarchive"} : pc' = [pc EXCEPT ![r] = to]
  BY DEF TarCreate, TarWrite, Goto
<1>7. pc'[r] = to /\ \A s \in Runners \ {r} : pc'[s] = pc[s] /\ at'[s] = at[s]
  BY <1>0, <1>6 DEF TypeOK, TarCreate, TarWrite, Goto
<1>8. \A s \in Runners \ {r} : pc[s] \notin {"tar", "tarwrite"}
  BY <1>0 DEF CleanInv, HolderOwnsLock, Holding, Extracting
<1>9. \A s \in Runners : StageOf(pc'[s]) = StageOf(pc[s])
  BY <1>0, <1>6, <1>7 DEF StageOf, Ended
<1>10. ASSUME NEW s \in Runners, NEW f \in PackedFiles, Lost(s, f)', ~Right(f)'
       PROVE  Lost(r, f) /\ s = r
  <2>1. s = r /\ to \in {"tar", "tarwrite"}
    BY <1>7, <1>8, <1>10 DEF Lost
  <2>2. CASE to = "tarwrite"
    <3>1. TarCreate(r) /\ pc[r] = "tar" /\ at' = at
      BY <1>0, <1>7, <2>2 DEF TarCreate, TarWrite, Goto, TypeOK
    <3>2. files'[k] = "wrong"
      BY <1>0, <1>1, <3>1, PackedAreFiles DEF TarCreate, WriteFile, TypeOK, TreeTypeOK
    <3>3. f < k
      BY <1>1, <1>10, <2>1, <3>1, <3>2 DEF Lost
    <3> QED BY <1>1, <1>5, <1>10, <2>1, <3>1, <3>3 DEF Lost
  <2>3. CASE to = "tar"
    <3>1. TarWrite(r) /\ pc[r] = "tarwrite" /\ at'[r] = k + 1
      BY <1>0, <1>1, <1>7, <2>3 DEF TarCreate, TarWrite, Goto, TypeOK
    <3>2. f < k + 1 /\ payload # "mismatched"
      BY <1>5, <1>7, <1>10, <2>1, <2>3, <3>1 DEF Lost
    <3>3. CASE f < k
      BY <1>1, <2>1, <3>1, <3>2, <3>3 DEF Lost
    <3>4. CASE f = k
      <4>1. files'[k] # "right"
        BY <1>10, <3>4 DEF Right
      <4>2. r \in orphaned \/ files[k] = "missing"
        BY <1>0, <1>1, <3>1, <3>2, <4>1, PackedAreFiles DEF TarWrite, WriteFile,
           Extracted, TypeOK, TreeTypeOK
      <4>3. files[k] = "missing"
        BY <1>0, <4>2 DEF Remade
      <4> QED BY <1>1, <2>1, <3>1, <3>2, <3>4, <4>3 DEF Lost
    <3> QED BY <3>2, <3>3, <3>4, PackedAreFiles
  <2> QED BY <2>1, <2>2, <2>3
<1>11. ASSUME NEW q \in Runners, Misled(q)' PROVE Misled(q)
  <2>1. q # r /\ pc'[q] = pc[q] /\ at'[q] = at[q]
    BY <1>7, <1>11 DEF Misled
  <2>2. CASE pc[q] \in {"release", "untrap"}
    BY <1>3, <2>2 DEF Misled
  <2>3. CASE pc[q] \notin {"release", "untrap"}
    <3>1. pc[q] \in {"warm", "peek", "recheck", "confirm"}
      BY <1>11, <2>1, <2>3 DEF Misled
    <3>2. PICK f \in PackedFiles :
             /\ f < at[q] /\ ~Right(f)'
             /\ \/ \A g \in PackedFiles : g >= at[q] => Right(g)'
                \/ \E s \in Runners : Lost(s, f)'
      BY <1>11, <2>1, <2>3 DEF Misled
    <3>3. ~Right(f)
      BY <1>2, <1>3, <1>4, <3>2 DEF Right
    <3>4. CASE \E s \in Runners : Lost(s, f)'
      BY <1>10, <3>1, <3>2, <3>3, <3>4 DEF Misled
    <3>5. CASE \A g \in PackedFiles : g >= at[q] => Right(g)'
      <4>1. at[q] \in PackedFiles /\ at[q] >= at[q]
        BY <1>0, PackedAreFiles DEF TypeOK
      <4>2. \A g \in PackedFiles : g >= at[q] => g = k \/ g < k
        BY <1>2, <1>4, <3>5, PackedAreFiles DEF Right
      <4>3. CASE Right(k)'
        <5>1. f # k /\ f < k
          <6>1. f # k
            BY <3>2, <4>3
          <6> QED BY <3>2, <4>1, <4>2, <6>1, PackedAreFiles
        <5>2. payload # "mismatched"
          <6>1. ~TarCreate(r)
            BY <1>0, <1>1, <4>3, PackedAreFiles DEF TarCreate, WriteFile, Right, TypeOK,
               TreeTypeOK
          <6>2. files'[k] = "right" /\ files[k] # "right"
            BY <1>2, <1>3, <4>3 DEF Right
          <6> QED BY <1>0, <1>1, <6>1, <6>2, PackedAreFiles DEF TarWrite, WriteFile,
               Extracted, TypeOK, TreeTypeOK
        <5>3. Lost(r, f)
          BY <1>0, <1>1, <5>1, <5>2 DEF Lost
        <5> QED BY <3>1, <3>2, <3>3, <5>3 DEF Misled
      <4>4. CASE ~Right(k)'
        <5>1. \A g \in PackedFiles : g >= at[q] => Right(g)
          <6> SUFFICES ASSUME NEW g \in PackedFiles, g >= at[q] PROVE Right(g)
            OBVIOUS
          <6>1. Right(g)' /\ g # k
            BY <3>5, <4>4 DEF Right
          <6> QED BY <1>4, <6>1 DEF Right
        <5> QED BY <3>1, <3>2, <3>3, <5>1 DEF Misled
      <4> QED BY <4>3, <4>4
    <3> QED BY <3>2, <3>4, <3>5
  <2> QED BY <2>2, <2>3
<1> QED BY <1>3, <1>9, <1>11, QuietStepServes

\* A command that leaves the packed files alone and takes its process to
\* another stage, or on in the same one.
LEMMA CommandServes ==
    ASSUME CleanInv, CleanInv', NEW r \in Runners,
           \/ EnterUnpack(r) \/ TakeLock(r) \/ LockIsTaken(r) \/ SetTrap(r)
           \/ Sleep(r) \/ RemoveArchive(r) \/ Release(r) \/ DropTrap(r)
    PROVE  [BesideClean!Next]_(BesideClean!cvars)
<1> USE DEF procVars, treeVars
<1>1. TypeOK /\ TypeOK' /\ Remade(r)
  BY DEF CleanInv, SafeInv, RemadeInv
<1>2. PICK to \in {"trylock", "settrap", "peek", "recheck", "confirm", "untrap",
                   "untrapbad", "run"} :
         pc' = [pc EXCEPT ![r] = to]
  BY DEF EnterUnpack, TakeLock, LockIsTaken, SetTrap, Sleep, RemoveArchive, Release,
     DropTrap, Goto
<1>3. pc'[r] = to /\ at' = at /\ payload' = payload
  BY <1>1, <1>2 DEF TypeOK, EnterUnpack, TakeLock, LockIsTaken, SetTrap, Sleep,
     RemoveArchive, Release, DropTrap
<1>4. \A f \in PackedFiles : files'[f] = files[f]
  BY <1>1, PackedAreFiles DEF EnterUnpack, TakeLock, LockIsTaken, SetTrap, Sleep,
     RemoveArchive, Release, DropTrap, TypeOK, TreeTypeOK
<1>5. (Complete' <=> Complete) /\ \A q \in Runners \ {r} : Misled(q)' => Misled(q)
  BY <1>1, <1>2, <1>3, <1>4, OthersNotMisled
<1>6. CASE EnterUnpack(r) \/ TakeLock(r) \/ Sleep(r)
  <2>1. to \in {"trylock", "settrap"} /\ pc[r] \in {"enter", "trylock", "sleep"}
    BY <1>1, <1>3, <1>6 DEF EnterUnpack, TakeLock, Sleep, Goto, TypeOK
  <2>2. ~Misled(r)'
    BY <1>3, <2>1, NotMisledNext
  <2>3. \A s \in Runners : StageOf(pc'[s]) = StageOf(pc[s])
    BY <1>1, <1>2, <2>1 DEF TypeOK, StageOf, Ended
  <2> QED BY <1>5, <2>2, <2>3, QuietStepServes
<1>7. CASE LockIsTaken(r) \/ SetTrap(r) \/ RemoveArchive(r)
  <2>1. /\ to \in {"peek", "recheck", "confirm"}
        /\ pc[r] \in {"trylock", "settrap", "rmarchive"}
    BY <1>1, <1>3, <1>7 DEF LockIsTaken, SetTrap, RemoveArchive, Goto, TypeOK
  <2>2. at'[r] = 1
    BY <1>1, <1>3, <2>1 DEF Remade
  <2>3. ~Misled(r)'
    BY <1>3, <2>1, <2>2, NotMisledNext
  <2>4. StageOf(pc[r]) = "waiting" /\ StageOf(to) = "looking"
    BY <2>1 DEF StageOf, Ended
  <2> QED BY <1>1, <1>2, <1>5, <2>3, <2>4, MoveStepServes
<1>8. CASE Release(r)
  <2>1. \/ pc[r] = "release" /\ to = "untrap"
        \/ pc[r] = "releasebad" /\ to = "untrapbad"
    BY <1>1, <1>3, <1>8 DEF Release, Goto, TypeOK
  <2>2. Misled(r)' => Misled(r)
    BY <1>3, <1>5, <2>1 DEF Misled
  <2>3. \A s \in Runners : StageOf(pc'[s]) = StageOf(pc[s])
    BY <1>1, <1>2, <2>1 DEF TypeOK, StageOf, Ended
  <2> QED BY <1>5, <2>2, <2>3, QuietStepServes
<1>9. CASE DropTrap(r)
  <2>1. pc[r] = "untrap" /\ to = "run"
    BY <1>1, <1>3, <1>9 DEF DropTrap, Goto, TypeOK
  <2>2. ~Misled(r)'
    BY <1>3, <2>1, NotMisledNext
  <2>3. Complete \/ Misled(r)
    BY <2>1 DEF Misled
  <2>4. StageOf(pc[r]) = "looking" /\ StageOf(to) = "running"
    BY <2>1 DEF StageOf, Ended
  <2> QED BY <1>1, <1>2, <1>5, <2>2, <2>3, <2>4, MoveStepServes
<1> QED BY <1>6, <1>7, <1>8, <1>9

\* A process ends by itself or by a signal: nobody is misled by it.
LEMMA EndServes ==
    ASSUME CleanInv, CleanInv', NEW r \in Runners, NEW how \in Ended,
           pc[r] \notin Ended,
           pc' = [pc EXCEPT ![r] = how],
           UNCHANGED <<payload, at>>,
           \A f \in PackedFiles : files'[f] = files[f]
    PROVE  [BesideClean!Next]_(BesideClean!cvars)
<1>1. TypeOK /\ TypeOK' /\ pc'[r] = how
  BY DEF CleanInv, SafeInv, TypeOK
<1>2. (Complete' <=> Complete) /\ \A q \in Runners \ {r} : Misled(q)' => Misled(q)
  BY <1>1, OthersNotMisled DEF Ended
<1>3. ~Misled(r)'
  BY <1>1, NotMisledNext DEF Ended
<1>4. StageOf(how) = "ended"
  BY DEF StageOf, Ended
<1>5. StageOf(pc[r]) \in {"discarding", "waiting", "looking", "running"}
  BY DEF StageOf
<1> QED BY <1>1, <1>2, <1>3, <1>4, <1>5, MoveStepServes

\* Every step of the runners is a step of what is left of the service.
LEMMA StepServes ==
    ASSUME CleanInv, CleanInv', [Next]_vars
    PROVE  [BesideClean!Next]_(BesideClean!cvars)
<1> USE DEF treeVars
<1>1. ASSUME UNCHANGED vars PROVE [BesideClean!Next]_(BesideClean!cvars)
  <2>1. \A s \in Runners : Misled(s)' => Misled(s)
    BY <1>1 DEF vars, Misled, Lost, Right, Complete
  <2>2. Complete => Complete'
    BY <1>1 DEF vars, Complete
  <2>3. \A s \in Runners : StageOf(pc'[s]) = StageOf(pc[s])
    BY <1>1 DEF vars
  <2> QED BY <2>1, <2>2, <2>3, QuietStepServes
<1>2. ASSUME NEW r \in Runners, Step(r) PROVE [BesideClean!Next]_(BesideClean!cvars)
  <2>1. CASE Clean(r)
    BY <2>1, CleanServes
  <2>2. CASE RemoveOldTree(r)
    BY <2>2, RemoveServes
  <2>3. CASE WarmVerify(r) \/ Recheck(r) \/ Peek(r) \/ Confirm(r)
    BY <2>3, VerifyServes DEF WarmVerify, Recheck, Peek, Confirm
  <2>4. CASE MakeTree(r) \/ WriteArchive(r) \/ CheckArchive(r)
    BY <2>4, ArchiveServes
  <2>5. CASE TarCreate(r) \/ TarWrite(r)
    BY <2>5, TarServes
  <2>6. CASE \/ EnterUnpack(r) \/ TakeLock(r) \/ LockIsTaken(r) \/ SetTrap(r)
             \/ Sleep(r) \/ RemoveArchive(r) \/ Release(r) \/ DropTrap(r)
    BY <2>6, CommandServes
  <2>7. CASE TimeOut(r) \/ RefuseArchive(r) \/ ExtractionFails(r) \/ DieAfterRelease(r)
    <3>1. /\ pc[r] \notin Ended /\ pc' = [pc EXCEPT ![r] = "failed"]
          /\ UNCHANGED <<payload, at>>
      BY <2>7 DEF TimeOut, RefuseArchive, ExtractionFails, DieAfterRelease, Exit, Goto, Ended
    <3>2. \A f \in PackedFiles : files'[f] = files[f]
      BY <2>7, PackedAreFiles DEF TimeOut, RefuseArchive, ExtractionFails,
         DieAfterRelease, CleanInv, SafeInv, TypeOK, TreeTypeOK
    <3> QED BY <3>1, <3>2, EndServes DEF Ended
  <2> QED BY <1>2, <2>1, <2>2, <2>3, <2>4, <2>5, <2>6, <2>7 DEF Step
<1>3. ASSUME NEW r \in Runners, Finish(r) PROVE [BesideClean!Next]_(BesideClean!cvars)
  <2>1. /\ pc[r] \notin Ended /\ pc' = [pc EXCEPT ![r] = "done"]
        /\ UNCHANGED <<payload, at, files>>
    BY <1>3 DEF Finish, Goto, Ended, procVars
  <2> QED BY <2>1, EndServes DEF Ended
<1>4. ASSUME NEW r \in Runners, NEW kind \in Signals, Signal(r, kind)
      PROVE  [BesideClean!Next]_(BesideClean!cvars)
  <2>1. /\ pc[r] \notin Ended /\ pc' = [pc EXCEPT ![r] = "dead"]
        /\ UNCHANGED <<payload, at, files>>
    BY <1>4 DEF Signal, Exit
  <2> QED BY <2>1, EndServes DEF Ended
<1> QED BY <1>1, <1>2, <1>3, <1>4 DEF Next

\* The starts, with and without --pwshpy-clean, are where CleanInv holds.
LEMMA CleanInvInit == Init => CleanInv
<1> SUFFICES ASSUME Init PROVE CleanInv
  OBVIOUS
<1>1. \A r \in Runners : pc[r] \in {"clean", "warm"} /\ at[r] = 1
  BY DEF Init
<1> QED BY <1>1, SafeInit DEF CleanInv, HolderOwnsLock, Holding, Extracting, RemadeInv,
     Remade

\* Beside any number of starts with --pwshpy-clean, under a shell that does not
\* run the EXIT trap when a signal ends it: only --pwshpy-clean takes a complete
\* tree away, and a script is launched on anything but a complete tree only by
\* a start that was hashing the tree when --pwshpy-clean removed some of it
\* (pwshpy_verify_tree without the lock, the removal without the lock).
THEOREM RunnersBesideCleanServe ==
    ASSUME ~TrapOnSignal \/ "term" \notin Signals
    PROVE  Spec => ImplementsCleanService
<1>1. Init => BesideClean!Init
  <2> SUFFICES ASSUME Init PROVE BesideClean!Init
    OBVIOUS
  <2>1. \A r \in Runners : pc[r] \in {"clean", "warm"} /\ at[r] = 1
    BY DEF Init
  <2>2. \A r \in Runners : StageOf(pc[r]) \in {"discarding", "looking"}
    BY <2>1 DEF StageOf, Ended
  <2>3. ASSUME NEW r \in Runners PROVE ~Misled(r)
    <3>1. \A f \in PackedFiles : ~(f < at[r])
      BY <2>1, PackedAreFiles
    <3> QED BY <2>1, <3>1 DEF Misled
  <2>4. {r \in Runners : Misled(r)} = {}
    BY <2>3
  <2>5. Complete \in BOOLEAN
    BY DEF Complete
  <2> QED BY <2>2, <2>4, <2>5 DEF BesideClean!Init
<1>2. CleanInv /\ CleanInv' /\ [Next]_vars => [BesideClean!Next]_(BesideClean!cvars)
  BY StepServes
<1> QED BY <1>1, <1>2, CleanInvInit, CleanInvNext, PTL DEF Spec, ImplementsCleanService,
     BesideClean!Spec

\* After --pwshpy-clean the promises of the warm start are back: once no start
\* discards any more and no look it went through goes on, a complete tree stays
\* and nothing else is run.
THEOREM CleanIsOverIsKept ==
    ASSUME ~TrapOnSignal \/ "term" \notin Signals
    PROVE  Spec => CleanIsOver
<1>1. ASSUME CleanInv, CleanInv', [Next]_vars, Settled
      PROVE  /\ Settled' /\ (Complete => Complete')
             /\ \A r \in Runners : pc[r] # "run" /\ pc'[r] = "run" => Complete
  <2> DEFINE phase  == [s \in Runners |-> StageOf(pc[s])]
             misled == {s \in Runners : Misled(s)}
           Goal   == /\ Settled' /\ (Complete => Complete')
                     /\ \A r \in Runners : pc[r] # "run" /\ pc'[r] = "run" => Complete
  <2>1. [BesideClean!Next]_(BesideClean!cvars)
    BY <1>1, StepServes
  <2>2. \A r \in Runners : phase[r] # "discarding" /\ r \notin misled
    BY <1>1 DEF Settled, StageOf, Ended
  <2>3. \A l : (StageOf(l) = "discarding" <=> l = "clean")
             /\ (StageOf(l) = "running" <=> l = "run")
    BY DEF StageOf, Ended
  <2>4. \A r \in Runners : phase'[r] = StageOf(pc'[r]) /\ (r \in misled' <=> Misled(r)')
    OBVIOUS
  <2>5. \A r \in Runners : phase[r] = StageOf(pc[r])
    OBVIOUS
  <2>6. ASSUME NEW r \in Runners, NEW from, NEW to, BesideClean!Move(r, from, to)
        PROVE  /\ phase[r] = from /\ phase'[r] = to
               /\ \A s \in Runners \ {r} : phase'[s] = phase[s]
               /\ misled' \subseteq misled
    BY <2>6 DEF BesideClean!Move
  <2>7. CASE UNCHANGED BesideClean!cvars \/ BesideClean!Unpack
    <3>1. phase' = phase /\ misled' \subseteq misled
      BY <2>7 DEF BesideClean!cvars, BesideClean!Unpack
    <3>2. Complete' = Complete \/ Complete' = TRUE
      BY <2>7 DEF BesideClean!cvars, BesideClean!Unpack
    <3>3. Complete => Complete'
      BY <3>2
    <3> HIDE DEF phase, misled
    <3> QED BY <2>2, <2>4, <2>5, <2>3, <3>1, <3>3 DEF Settled
  <2>8. ASSUME NEW r \in Runners,
               \/ BesideClean!Discard(r) \/ BesideClean!Discarded(r)
               \/ BesideClean!Look(r) \/ BesideClean!Reject(r) \/ BesideClean!Launch(r)
               \/ BesideClean!End(r)
        PROVE  Goal
    <3>1. ~BesideClean!Discard(r) /\ ~BesideClean!Discarded(r)
      BY <2>2 DEF BesideClean!Discard, BesideClean!Discarded
    <3>2. PICK from, to : /\ BesideClean!Move(r, from, to) /\ to # "discarding"
                          /\ to = "running" => Complete
      BY <2>2, <2>8, <3>1 DEF BesideClean!Look, BesideClean!Reject, BesideClean!Launch,
         BesideClean!End
    <3>3. Complete' = Complete
      BY <2>8, <3>1 DEF BesideClean!Look, BesideClean!Reject, BesideClean!Launch,
         BesideClean!End
    <3>4. /\ phase'[r] = to /\ misled' \subseteq misled
          /\ \A s \in Runners \ {r} : phase'[s] = phase[s]
      BY <2>6, <3>2
    <3> HIDE DEF phase, misled
    <3> QED BY <2>2, <2>4, <2>5, <2>3, <3>2, <3>3, <3>4 DEF Settled
  <2> QED BY <2>1, <2>7, <2>8 DEF BesideClean!Next
<1> QED BY <1>1, CleanInvInit, CleanInvNext, PTL DEF Spec, CleanIsOver
=============================================================================
