------------------------ MODULE AdministrationProofs ------------------------
(***************************************************************************)
(* Proofs about administering the machine, for any services, requests and  *)
(* number of registrations, reboots and edits: what MCAdministration       *)
(* states of AdminSpec.                                                    *)
(***************************************************************************)
EXTENDS MCAdministration, TaskProofs, TLAPS

-----------------------------------------------------------------------------
(* Local accounts.                                                         *)

\* Before a verb the invariant of the accounts holds.
LEMMA AccountsInit == A!Init => A!AccountsInv
BY DEF A!Init, A!AccountsInv, A!TypeOK, A!NewUserInv, A!ReadInv, A!NothingYet,
       A!NeverOpenUnsaid, A!ReportIsTrue, A!ReturnedIsTrue, A!SimpleVerbs, A!Statements

\* Every command keeps it, whether it works, fails or is killed with its work done.
LEMMA AccountsNext == A!AccountsInv /\ [A!Next]_(A!vars) => A!AccountsInv'
<1> SUFFICES ASSUME A!AccountsInv, [A!Next]_(A!vars) PROVE A!AccountsInv'
  OBVIOUS
<1> USE DEF A!AccountsInv, A!TypeOK, A!NewUserInv, A!ReadInv, A!NothingYet,
            A!NeverOpenUnsaid, A!ReportIsTrue, A!ReturnedIsTrue, A!SimpleVerbs,
            A!Statements, A!End, A!Partial, A!Run, A!Effect, A!Nothing, A!Refuses,
            A!Useradd, A!Chpasswd, A!UsermodLock, A!UsermodUnlock
<1>1. CASE UNCHANGED A!vars
  BY <1>1 DEF A!vars
<1>2. CASE A!Create
  <2>1. A!TypeOK'
    BY <1>2 DEF A!Create
  <2>2. A!NewUserInv'
    BY <1>2 DEF A!Create
  <2>3. A!ReadInv' /\ A!NothingYet'
    BY <1>2 DEF A!Create
  <2>4. A!NeverOpenUnsaid' /\ A!ReportIsTrue' /\ A!ReturnedIsTrue'
    BY <1>2 DEF A!Create
  <2> QED BY <2>1, <2>2, <2>3, <2>4
<1>3. CASE A!SetPassword
  <2>1. A!TypeOK'
    BY <1>3 DEF A!SetPassword
  <2>2. A!NewUserInv'
    BY <1>3 DEF A!SetPassword
  <2>3. A!ReadInv' /\ A!NothingYet'
    BY <1>3 DEF A!SetPassword
  <2>4. A!NeverOpenUnsaid' /\ A!ReportIsTrue' /\ A!ReturnedIsTrue'
    BY <1>3 DEF A!SetPassword
  <2> QED BY <2>1, <2>2, <2>3, <2>4
<1>4. CASE A!Lock
  <2>1. A!TypeOK'
    BY <1>4 DEF A!Lock
  <2>2. A!NewUserInv'
    BY <1>4 DEF A!Lock
  <2>3. A!ReadInv' /\ A!NothingYet'
    BY <1>4 DEF A!Lock
  <2>4. A!NeverOpenUnsaid' /\ A!ReportIsTrue' /\ A!ReturnedIsTrue'
    BY <1>4 DEF A!Lock
  <2> QED BY <2>1, <2>2, <2>3, <2>4
<1>5. CASE A!LockWithinGrace
  <2>1. A!TypeOK'
    BY <1>5 DEF A!LockWithinGrace
  <2>2. A!NewUserInv'
    BY <1>5 DEF A!LockWithinGrace
  <2>3. A!ReadInv' /\ A!NothingYet'
    BY <1>5 DEF A!LockWithinGrace
  <2>4. A!NeverOpenUnsaid' /\ A!ReportIsTrue' /\ A!ReturnedIsTrue'
    BY <1>5 DEF A!LockWithinGrace
  <2> QED BY <2>1, <2>2, <2>3, <2>4
<1>6. CASE A!Command
  <2>1. A!TypeOK'
    <3>1. x1' \in {"absent", "bare", "open", "locked"} /\ x2' \in {"absent", "empty", "member"}
      BY <1>6 DEF A!Command
    <3>2. x6' \in BOOLEAN
      BY <1>6 DEF A!Command
    <3>3. x3' \in {"read", "done"} /\ x9' \in {"none", "ok", "invalid", "failed", "timeout"}
      BY <1>6 DEF A!Command
    <3> QED BY <1>6, <3>1, <3>2, <3>3 DEF A!Command
  <2>2. A!NewUserInv'
    BY <1>6 DEF A!Command
  <2>3. A!ReadInv' /\ A!NothingYet'
    BY <1>6 DEF A!Command
  <2>4. A!NeverOpenUnsaid' /\ A!ReportIsTrue' /\ A!ReturnedIsTrue'
    BY <1>6 DEF A!Command
  <2> QED BY <2>1, <2>2, <2>3, <2>4
<1>7. CASE A!ReadUser
  <2>1. A!TypeOK'
    BY <1>7 DEF A!ReadUser
  <2>2. A!NewUserInv'
    BY <1>7 DEF A!ReadUser
  <2>3. A!ReadInv' /\ A!NothingYet'
    BY <1>7 DEF A!ReadUser
  <2>4. A!NeverOpenUnsaid' /\ A!ReportIsTrue' /\ A!ReturnedIsTrue'
    BY <1>7 DEF A!ReadUser
  <2> QED BY <2>1, <2>2, <2>3, <2>4
<1>8. CASE A!ReadGroup
  <2>1. A!TypeOK'
    BY <1>8 DEF A!ReadGroup
  <2>2. A!NewUserInv'
    BY <1>8 DEF A!ReadGroup
  <2>3. A!ReadInv' /\ A!NothingYet'
    BY <1>8 DEF A!ReadGroup
  <2>4. A!NeverOpenUnsaid' /\ A!ReportIsTrue' /\ A!ReturnedIsTrue'
    BY <1>8 DEF A!ReadGroup
  <2> QED BY <2>1, <2>2, <2>3, <2>4
<1>9. CASE A!Forget
  <2>1. A!TypeOK'
    BY <1>9 DEF A!Forget
  <2>2. A!NewUserInv'
    BY <1>9 DEF A!Forget
  <2>3. A!ReadInv' /\ A!NothingYet'
    BY <1>9 DEF A!Forget
  <2>4. A!NeverOpenUnsaid' /\ A!ReportIsTrue' /\ A!ReturnedIsTrue'
    BY <1>9 DEF A!Forget
  <2> QED BY <2>1, <2>2, <2>3, <2>4
<1>10. CASE A!DeadlinePasses
  <2>1. A!TypeOK'
    BY <1>10 DEF A!DeadlinePasses
  <2>2. A!NewUserInv'
    BY <1>10 DEF A!DeadlinePasses
  <2>3. A!ReadInv' /\ A!NothingYet'
    BY <1>10 DEF A!DeadlinePasses
  <2>4. A!NeverOpenUnsaid' /\ A!ReportIsTrue' /\ A!ReturnedIsTrue'
    BY <1>10 DEF A!DeadlinePasses
  <2> QED BY <2>1, <2>2, <2>3, <2>4
<1>11. ASSUME NEW w \in SUBSET {"password", "disabled", "bad"}, A!NewUser(w) PROVE A!AccountsInv'
  <2>1. A!TypeOK'
    BY <1>11 DEF A!NewUser
  <2>2. A!NewUserInv'
    BY <1>11 DEF A!NewUser
  <2>3. A!ReadInv' /\ A!NothingYet'
    BY <1>11 DEF A!NewUser
  <2>4. A!NeverOpenUnsaid' /\ A!ReportIsTrue' /\ A!ReturnedIsTrue'
    BY <1>11 DEF A!NewUser
  <2> QED BY <2>1, <2>2, <2>3, <2>4
<1>12. ASSUME NEW v \in A!SimpleVerbs, A!Verb(v) PROVE A!AccountsInv'
  <2>1. A!TypeOK'
    BY <1>12 DEF A!Verb
  <2>2. A!NewUserInv'
    BY <1>12 DEF A!Verb
  <2>3. A!ReadInv' /\ A!NothingYet'
    BY <1>12 DEF A!Verb
  <2>4. A!NeverOpenUnsaid' /\ A!ReportIsTrue' /\ A!ReturnedIsTrue'
    BY <1>12 DEF A!Verb
  <2> QED BY <2>1, <2>2, <2>3, <2>4
<1> QED BY <1>1, <1>2, <1>3, <1>4, <1>5, <1>6, <1>7, <1>8, <1>9, <1>10, <1>11, <1>12 DEF A!Next, A!Step

-----------------------------------------------------------------------------
(* Services.                                                               *)

\* Before a call the invariant of the services holds.
LEMMA ServicesInit == S!Init => S!ServicesInv
<1> SUFFICES ASSUME S!Init PROVE S!ServicesInv
  OBVIOUS
<1>1. S!TypeOK
  BY DEF S!Init, S!TypeOK, S!Verbs, S!Unlisted, S!Results, S!ActiveStates, S!LoadStates, S!Present
<1>2. x5 = "idle" /\ x6 = "none" /\ x13 = {} /\ x14 = {} /\ x15 = {} /\ x16 = {}
  BY DEF S!Init
<1>3. S!CallInv /\ S!JobInv /\ S!ListInv /\ S!ListsEveryService
  BY <1>2 DEF S!CallInv, S!JobInv, S!Waits, S!ListInv, S!ListsEveryService, S!Ok, S!Lists
<1> QED BY <1>1, <1>3 DEF S!ServicesInv

\* However a unit is loaded, it is held with one of the states.
LEMMA LoadsTyped ==
    ASSUME S!TypeOK
    PROVE  /\ \A u \in Services, l \in S!LoadStates : S!LoadUnit(u, l) => x3' \in [Services -> S!LoadStates]
           /\ \A u \in Services : S!FromFile(u) \in S!LoadStates
           /\ S!DaemonReload => x3' \in [Services -> S!LoadStates]
<1>1. x3 \in [Services -> S!LoadStates] /\ "unloaded" \in S!LoadStates
  BY DEF S!TypeOK, S!LoadStates
<1>2. ASSUME NEW u \in Services PROVE S!FromFile(u) \in S!LoadStates
  BY DEF S!FromFile, S!LoadStates
<1>3. ASSUME NEW u \in Services, NEW l \in S!LoadStates, S!LoadUnit(u, l)
      PROVE  x3' \in [Services -> S!LoadStates]
  <2>1. x3' = [x3 EXCEPT ![u] = IF @ = "unloaded" /\ l = "not-found" THEN @ ELSE l]
    BY <1>3 DEF S!LoadUnit
  <2>2. x3[u] \in S!LoadStates
    BY <1>1
  <2> QED BY ONLY <1>1, <2>1, <2>2, l \in S!LoadStates
<1>4. ASSUME S!DaemonReload PROVE x3' \in [Services -> S!LoadStates]
  <2>1. x3' = [u \in Services |-> IF x3[u] = "unloaded" THEN "unloaded" ELSE S!FromFile(u)]
    BY <1>4 DEF S!DaemonReload
  <2> QED BY ONLY <1>1, <1>2, <2>1
<1> QED BY <1>2, <1>3, <1>4

\* Every step of the client, of systemd and of other clients keeps it.
LEMMA ServicesNext == S!ServicesInv /\ [S!Next]_(S!vars) => S!ServicesInv'
<1> SUFFICES ASSUME S!ServicesInv, [S!Next]_(S!vars) PROVE S!ServicesInv'
  OBVIOUS
<1> USE DEF S!ServicesInv, S!TypeOK, S!CallInv, S!JobInv, S!Waits, S!ListInv,
            S!ListsEveryService, S!Ok, S!Lists, S!Verbs, S!Stopped, S!Unlisted, S!Results,
            S!ActiveStates, S!Present, S!End, S!Goto, S!Begin, S!systemd, S!listing, S!ghosts, S!told
<1>1. CASE UNCHANGED S!vars
  BY <1>1 DEF S!vars
<1>2. CASE S!Reload
  <2>1. S!TypeOK'
    BY <1>2, LoadsTyped DEF S!Reload
  <2>2. S!CallInv'
    BY <1>2 DEF S!Reload
  <2>3. S!JobInv'
    BY <1>2 DEF S!Reload
  <2>4. S!ListInv' /\ S!ListsEveryService'
    BY <1>2 DEF S!Reload
  <2> QED BY <2>1, <2>2, <2>3, <2>4
<1>3. CASE S!Poll
  <2>1. S!TypeOK'
    BY <1>3 DEF S!Poll
  <2>2. S!CallInv'
    BY <1>3 DEF S!Poll
  <2>3. S!JobInv'
    BY <1>3 DEF S!Poll
  <2>4. S!ListInv' /\ S!ListsEveryService'
    BY <1>3 DEF S!Poll
  <2> QED BY <2>1, <2>2, <2>3, <2>4
<1>4. CASE S!PollState
  <2>1. S!TypeOK'
    BY <1>4 DEF S!PollState
  <2>2. S!CallInv'
    BY <1>4 DEF S!PollState
  <2>3. S!JobInv'
    BY <1>4 DEF S!PollState
  <2>4. S!ListInv' /\ S!ListsEveryService'
    BY <1>4 DEF S!PollState
  <2> QED BY <2>1, <2>2, <2>3, <2>4
<1>5. CASE S!Wait
  <2>1. S!TypeOK'
    BY <1>5 DEF S!Wait
  <2>2. S!CallInv'
    BY <1>5 DEF S!Wait
  <2>3. S!JobInv'
    BY <1>5 DEF S!Wait
  <2>4. S!ListInv' /\ S!ListsEveryService'
    BY <1>5 DEF S!Wait
  <2> QED BY <2>1, <2>2, <2>3, <2>4
<1>6. CASE S!CheckFailed
  <2>1. S!TypeOK'
    BY <1>6 DEF S!CheckFailed
  <2>2. S!CallInv'
    BY <1>6 DEF S!CheckFailed
  <2>3. S!JobInv'
    BY <1>6 DEF S!CheckFailed
  <2>4. S!ListInv' /\ S!ListsEveryService'
    BY <1>6 DEF S!CheckFailed
  <2> QED BY <2>1, <2>2, <2>3, <2>4
<1>7. CASE S!ReadBack
  <2>1. S!TypeOK'
    BY <1>7, LoadsTyped DEF S!ReadBack
  <2>2. S!CallInv'
    BY <1>7 DEF S!ReadBack
  <2>3. S!JobInv'
    BY <1>7 DEF S!ReadBack
  <2>4. S!ListInv' /\ S!ListsEveryService'
    BY <1>7 DEF S!ReadBack
  <2> QED BY <2>1, <2>2, <2>3, <2>4
<1>8. CASE S!ReadFails
  <2>1. S!TypeOK'
    BY <1>8 DEF S!ReadFails
  <2>2. S!CallInv'
    BY <1>8 DEF S!ReadFails
  <2>3. S!JobInv'
    BY <1>8 DEF S!ReadFails
  <2>4. S!ListInv' /\ S!ListsEveryService'
    BY <1>8 DEF S!ReadFails
  <2> QED BY <2>1, <2>2, <2>3, <2>4
<1>9. CASE S!Forget
  <2>1. S!TypeOK'
    BY <1>9 DEF S!Forget
  <2>2. S!CallInv'
    BY <1>9 DEF S!Forget
  <2>3. S!JobInv'
    BY <1>9 DEF S!Forget
  <2>4. S!ListInv' /\ S!ListsEveryService'
    BY <1>9 DEF S!Forget
  <2> QED BY <2>1, <2>2, <2>3, <2>4
<1>10. CASE S!ListFiles
  <2>1. S!TypeOK'
    BY <1>10 DEF S!ListFiles
  <2>2. S!CallInv'
    BY <1>10 DEF S!ListFiles
  <2>3. S!JobInv'
    BY <1>10 DEF S!ListFiles
  <2>4. S!ListInv' /\ S!ListsEveryService'
    BY <1>10 DEF S!ListFiles
  <2> QED BY <2>1, <2>2, <2>3, <2>4
<1>11. CASE S!ListEnds
  <2>1. S!TypeOK'
    BY <1>11 DEF S!ListEnds
  <2>2. S!CallInv'
    BY <1>11 DEF S!ListEnds
  <2>3. S!JobInv'
    BY <1>11 DEF S!ListEnds
  <2>4. S!ListInv' /\ S!ListsEveryService'
    BY <1>11 DEF S!ListEnds
  <2> QED BY <2>1, <2>2, <2>3, <2>4
<1>12. ASSUME NEW u \in Services, S!ListUnit(u) PROVE S!ServicesInv'
  <2>1. S!TypeOK'
    BY <1>12 DEF S!ListUnit, S!Skip
  <2>2. S!CallInv'
    BY <1>12 DEF S!ListUnit, S!Skip
  <2>3. S!JobInv'
    BY <1>12 DEF S!ListUnit, S!Skip
  <2>4. S!ListInv' /\ S!ListsEveryService'
    BY <1>12 DEF S!ListUnit, S!Skip
  <2> QED BY <2>1, <2>2, <2>3, <2>4
<1>13. ASSUME NEW u \in Services, S!ListFile(u) PROVE S!ServicesInv'
  <2>1. S!TypeOK'
    <3>1. x3' \in [Services -> S!LoadStates]
      BY <1>13, LoadsTyped DEF S!ListFile
    <3>2. x13' \subseteq Services /\ x14' \subseteq Services /\ x15' \subseteq Services /\ x16' \subseteq Services
      BY <1>13 DEF S!ListFile, S!Skip
    <3>3. /\ x5' \in {"files", "done"} /\ x8' \in {x8, "refused"}
          /\ UNCHANGED <<x1, x2, x4, x6, x7, x9, x10, x11, x12, x17>>
      BY <1>13 DEF S!ListFile, S!Skip
    <3> QED BY <3>1, <3>2, <3>3
  <2>2. S!CallInv'
    BY <1>13 DEF S!ListFile, S!Skip
  <2>3. S!JobInv'
    BY <1>13 DEF S!ListFile, S!Skip
  <2>4. S!ListInv' /\ S!ListsEveryService'
    BY <1>13 DEF S!ListFile, S!Skip
  <2> QED BY <2>1, <2>2, <2>3, <2>4
<1>14. ASSUME NEW u \in Services, NEW v \in S!Verbs, S!Request(u, v) PROVE S!ServicesInv'
  <2>1. S!TypeOK'
    <3>1. x2' \in [Services -> {"none", "start", "stop", "restart"}]
      BY <1>14 DEF S!Request
    <3>2. x3' \in [Services -> S!LoadStates] /\ x10' \in BOOLEAN
      BY <1>14, LoadsTyped DEF S!Request
    <3> QED BY <1>14, <3>1, <3>2 DEF S!Request
  <2>2. S!CallInv'
    BY <1>14 DEF S!Request
  <2>3. S!JobInv'
    BY <1>14 DEF S!Request
  <2>4. S!ListInv' /\ S!ListsEveryService'
    BY <1>14 DEF S!Request
  <2> QED BY <2>1, <2>2, <2>3, <2>4
<1>15. ASSUME NEW u \in Services, NEW o \in {"enable", "disable"}, S!SetStartup(u, o) PROVE S!ServicesInv'
  <2>1. S!TypeOK'
    BY <1>15 DEF S!SetStartup
  <2>2. S!CallInv'
    BY <1>15 DEF S!SetStartup
  <2>3. S!JobInv'
    BY <1>15 DEF S!SetStartup
  <2>4. S!ListInv' /\ S!ListsEveryService'
    BY <1>15 DEF S!SetStartup
  <2> QED BY <2>1, <2>2, <2>3, <2>4
<1>16. ASSUME NEW u \in Services, S!RefusedAtOnce(u) PROVE S!ServicesInv'
  <2>1. S!TypeOK'
    BY <1>16 DEF S!RefusedAtOnce
  <2>2. S!CallInv'
    BY <1>16 DEF S!RefusedAtOnce
  <2>3. S!JobInv'
    BY <1>16 DEF S!RefusedAtOnce
  <2>4. S!ListInv' /\ S!ListsEveryService'
    BY <1>16 DEF S!RefusedAtOnce
  <2> QED BY <2>1, <2>2, <2>3, <2>4
<1>17. ASSUME NEW o \in {"list", "list-strict"}, S!ListUnits(o) PROVE S!ServicesInv'
  <2>1. S!TypeOK'
    BY <1>17 DEF S!ListUnits, S!Held
  <2>2. S!CallInv'
    BY <1>17 DEF S!ListUnits
  <2>3. S!JobInv'
    BY <1>17 DEF S!ListUnits
  <2>4. S!ListInv' /\ S!ListsEveryService'
    BY <1>17 DEF S!ListUnits
  <2> QED BY <2>1, <2>2, <2>3, <2>4
<1>18. ASSUME NEW u \in Services, S!StartJob(u) PROVE S!ServicesInv'
  <2>1. S!TypeOK'
    <3>1. /\ x1' \in [Services -> S!ActiveStates]
          /\ x2' \in [Services -> {"none", "start", "stop", "restart"}]
      BY <1>18 DEF S!StartJob, S!JobStep
    <3>2. x9' \in {"none", "done", "undone", "failed"}
      BY <1>18 DEF S!StartJob, S!JobStep
    <3>3. x10' \in BOOLEAN /\ x11' \in BOOLEAN
      BY <1>18 DEF S!StartJob, S!JobStep
    <3>4. UNCHANGED <<x3, x4, x5, x6, x7, x8, x12, x13, x14, x15, x16, x17>>
      BY <1>18 DEF S!StartJob, S!JobStep, S!Client
    <3> QED BY <3>1, <3>2, <3>3, <3>4
  <2>2. S!CallInv'
    BY <1>18 DEF S!StartJob, S!JobStep, S!Client
  <2>3. S!JobInv'
    <3>1. CASE u = x7
      <4>1. UNCHANGED <<x5, x6, x7, x8, x12, x17>> /\ x2[u] = "start"
        BY <1>18 DEF S!StartJob, S!JobStep, S!Client
      <4>2. \/ x1[u] \in S!Stopped /\ x1'[u] = "activating" /\ x2'[u] = "start" /\ x9' = x9 /\ x11'
            \/ x1[u] = "deactivating" /\ x1'[u] \in S!Stopped /\ x2'[u] = "start" /\ x9' = x9 /\ x11' = x11
            \/ /\ x1[u] \in S!Stopped /\ x1'[u] = x1[u] /\ x2'[u] = "none"
               /\ x9' = x9 \/ (x9 = "none" /\ x9' \in {"done", "undone"})
               /\ x9' # "none" /\ x11' = x11
            \/ /\ x1[u] \in {"active", "activating"} /\ x1'[u] \in {"active", "inactive"} /\ x2'[u] = "none"
               /\ x9' = x9 \/ (x9 = "none" /\ x9' = "done")
               /\ x9' # "none" /\ x11' = x11
            \/ /\ x1[u] = "activating" /\ x1'[u] = "failed" /\ x2'[u] = "none"
               /\ x9' = x9 \/ (x9 = "none" /\ x9' = "failed")
               /\ x9' # "none" /\ x11' = x11
            \/ /\ x1[u] = "activating" /\ x1'[u] = "activating" /\ x2'[u] = "none"
               /\ x9' = x9 \/ (x9 = "none" /\ x9' = "undone")
               /\ x9' # "none" /\ x11' = x11
        <5>1. ASSUME NEW s, NEW n, NEW how, S!JobStep(u, s, n, how)
              PROVE  x1'[u] = s /\ x2'[u] = n /\ x9' = IF n = "none" /\ x9 = "none" THEN how ELSE x9
          BY <5>1, <3>1 DEF S!JobStep
        <5>2. \/ x1[u] \in S!Stopped /\ S!JobStep(u, "activating", "start", "none") /\ x11' = (x11 \/ u = x7)
              \/ /\ x11' = x11
                 /\ \/ x1[u] = "deactivating" /\ \E s \in S!Stopped : S!JobStep(u, s, "start", "none")
                    \/ x1[u] \in S!Stopped /\ \E how \in {"done", "undone"} : S!JobStep(u, x1[u], "none", how)
                    \/ x1[u] \in {"active", "activating"} /\ S!JobStep(u, "active", "none", "done")
                    \/ x1[u] = "activating" /\ S!JobStep(u, "inactive", "none", "done")
                    \/ x1[u] = "activating" /\ S!JobStep(u, "failed", "none", "failed")
                    \/ x1[u] = "activating" /\ S!JobStep(u, "activating", "none", "undone")
          BY <1>18 DEF S!StartJob
        <5>3. CASE x1[u] \in S!Stopped /\ S!JobStep(u, "activating", "start", "none") /\ x11' = (x11 \/ u = x7)
          BY <5>1, <5>3, <3>1
        <5>4. CASE x11' = x11 /\ x1[u] = "deactivating" /\ \E s \in S!Stopped : S!JobStep(u, s, "start", "none")
          BY <5>1, <5>4
        <5>5. CASE /\ x11' = x11 /\ x1[u] \in S!Stopped
                   /\ \E how \in {"done", "undone"} : S!JobStep(u, x1[u], "none", how)
          BY <5>1, <5>5
        <5>6. CASE x11' = x11 /\ x1[u] \in {"active", "activating"} /\ S!JobStep(u, "active", "none", "done")
          BY <5>1, <5>6
        <5>7. CASE x11' = x11 /\ x1[u] = "activating" /\ S!JobStep(u, "inactive", "none", "done")
          BY <5>1, <5>7
        <5>8. CASE x11' = x11 /\ x1[u] = "activating" /\ S!JobStep(u, "failed", "none", "failed")
          BY <5>1, <5>8
        <5>9. CASE x11' = x11 /\ x1[u] = "activating" /\ S!JobStep(u, "activating", "none", "undone")
          BY <5>1, <5>9
        <5> QED BY <5>2, <5>3, <5>4, <5>5, <5>6, <5>7, <5>8, <5>9
      <4>3. x10' = (x10 \/ x1'[u] \in S!Stopped)
        BY <1>18, <3>1 DEF S!StartJob, S!JobStep
      <4> QED BY <3>1, <4>1, <4>2, <4>3
    <3>2. CASE u # x7
      <4>1. x1'[x7] = x1[x7] /\ x2'[x7] = x2[x7]
        BY <1>18, <3>2 DEF S!StartJob, S!JobStep
      <4>2. UNCHANGED <<x5, x6, x7, x8, x9, x10, x11, x12, x17>>
        BY <1>18, <3>2 DEF S!StartJob, S!JobStep, S!Client
      <4> QED BY <4>1, <4>2
    <3> QED BY <3>1, <3>2
  <2>4. S!ListInv' /\ S!ListsEveryService'
    BY <1>18 DEF S!StartJob, S!JobStep, S!Client
  <2> QED BY <2>1, <2>2, <2>3, <2>4
<1>19. ASSUME NEW u \in Services, S!StopJob(u) PROVE S!ServicesInv'
  <2>1. S!TypeOK'
    <3>1. /\ x1' \in [Services -> S!ActiveStates]
          /\ x2' \in [Services -> {"none", "start", "stop", "restart"}]
      BY <1>19 DEF S!StopJob, S!JobStep
    <3>2. x9' \in {"none", "done", "undone", "failed"}
      BY <1>19 DEF S!StopJob, S!JobStep
    <3>3. x10' \in BOOLEAN /\ x11' \in BOOLEAN
      BY <1>19 DEF S!StopJob, S!JobStep
    <3>4. UNCHANGED <<x3, x4, x5, x6, x7, x8, x12, x13, x14, x15, x16, x17>>
      BY <1>19 DEF S!StopJob, S!JobStep, S!Client
    <3> QED BY <3>1, <3>2, <3>3, <3>4
  <2>2. S!CallInv'
    BY <1>19 DEF S!StopJob, S!JobStep, S!Client
  <2>3. S!JobInv'
    <3>1. CASE u = x7
      <4>1. UNCHANGED <<x5, x6, x7, x8, x12, x17>> /\ x2[u] \in {"stop", "restart"} /\ x11' = x11
        BY <1>19 DEF S!StopJob, S!JobStep, S!Client
      <4>2. \/ x1'[u] = "deactivating" /\ x2'[u] = x2[u] /\ x9' = x9
            \/ /\ x2[u] = "stop" /\ x1'[u] \in S!Stopped /\ x2'[u] = "none"
               /\ x9' = x9 \/ (x9 = "none" /\ x9' = "done")
               /\ x9' # "none"
            \/ x2[u] = "restart" /\ x1'[u] \in S!Stopped /\ x2'[u] = "start" /\ x9' = x9
        BY <1>19, <3>1 DEF S!StopJob, S!JobStep
      <4>3. x10' = (x10 \/ x1'[u] \in S!Stopped)
        BY <1>19, <3>1 DEF S!StopJob, S!JobStep
      <4> QED BY <3>1, <4>1, <4>2, <4>3
    <3>2. CASE u # x7
      <4>1. x1'[x7] = x1[x7] /\ x2'[x7] = x2[x7]
        BY <1>19, <3>2 DEF S!StopJob, S!JobStep
      <4>2. UNCHANGED <<x5, x6, x7, x8, x9, x10, x11, x12, x17>>
        BY <1>19, <3>2 DEF S!StopJob, S!JobStep, S!Client
      <4> QED BY <4>1, <4>2
    <3> QED BY <3>1, <3>2
  <2>4. S!ListInv' /\ S!ListsEveryService'
    BY <1>19 DEF S!StopJob, S!JobStep, S!Client
  <2> QED BY <2>1, <2>2, <2>3, <2>4
<1>20. ASSUME NEW u \in Services, S!Dies(u) PROVE S!ServicesInv'
  <2>1. S!TypeOK'
    BY <1>20 DEF S!Dies, S!Client
  <2>2. S!CallInv'
    BY <1>20 DEF S!Dies, S!Client
  <2>3. S!JobInv'
    BY <1>20 DEF S!Dies, S!Client
  <2>4. S!ListInv' /\ S!ListsEveryService'
    BY <1>20 DEF S!Dies, S!Client
  <2> QED BY <2>1, <2>2, <2>3, <2>4
<1>21. ASSUME NEW u \in Services, S!OtherJob(u) PROVE S!ServicesInv'
  <2>1. S!TypeOK'
    BY <1>21, LoadsTyped DEF S!OtherJob, S!Client
  <2>2. S!CallInv'
    BY <1>21 DEF S!OtherJob, S!Client
  <2>3. S!JobInv'
    BY <1>21 DEF S!OtherJob, S!Client
  <2>4. S!ListInv' /\ S!ListsEveryService'
    BY <1>21 DEF S!OtherJob, S!Client
  <2> QED BY <2>1, <2>2, <2>3, <2>4
<1>22. ASSUME NEW u \in Services, S!Unload(u) PROVE S!ServicesInv'
  <2>1. S!TypeOK'
    BY <1>22 DEF S!Unload, S!Client, S!LoadStates
  <2>2. S!CallInv'
    BY <1>22 DEF S!Unload, S!Client
  <2>3. S!JobInv'
    BY <1>22 DEF S!Unload, S!Client
  <2>4. S!ListInv' /\ S!ListsEveryService'
    BY <1>22 DEF S!Unload, S!Client
  <2> QED BY <2>1, <2>2, <2>3, <2>4
<1>23. ASSUME NEW u \in Services, S!EditFile(u) PROVE S!ServicesInv'
  <2>1. S!TypeOK'
    BY <1>23 DEF S!EditFile, S!Client
  <2>2. S!CallInv'
    BY <1>23 DEF S!EditFile, S!Client
  <2>3. S!JobInv'
    BY <1>23 DEF S!EditFile, S!Client
  <2>4. S!ListInv' /\ S!ListsEveryService'
    BY <1>23 DEF S!EditFile, S!Client
  <2> QED BY <2>1, <2>2, <2>3, <2>4
<1>24. ASSUME NEW u \in Services, S!AutoRestart(u) PROVE S!ServicesInv'
  <2>1. S!TypeOK'
    <3>1. /\ x1' \in [Services -> S!ActiveStates]
          /\ x2' \in [Services -> {"none", "start", "stop", "restart"}]
      BY <1>24 DEF S!AutoRestart
    <3>2. x11' \in BOOLEAN /\ UNCHANGED <<x3, x4, x5, x6, x7, x8, x9, x10, x12, x13, x14, x15, x16, x17>>
      BY <1>24 DEF S!AutoRestart, S!Client
    <3> QED BY <3>1, <3>2
  <2>2. S!CallInv'
    BY <1>24 DEF S!AutoRestart, S!Client
  <2>3. S!JobInv'
    BY <1>24 DEF S!AutoRestart, S!Client
  <2>4. S!ListInv' /\ S!ListsEveryService'
    BY <1>24 DEF S!AutoRestart, S!Client
  <2> QED BY <2>1, <2>2, <2>3, <2>4
<1>25. ASSUME NEW u \in Services, S!Refers(u) PROVE S!ServicesInv'
  <2>1. S!TypeOK'
    BY <1>25, LoadsTyped DEF S!Refers, S!Client
  <2>2. S!CallInv'
    BY <1>25 DEF S!Refers, S!Client
  <2>3. S!JobInv'
    BY <1>25 DEF S!Refers, S!Client
  <2>4. S!ListInv' /\ S!ListsEveryService'
    BY <1>25 DEF S!Refers, S!Client
  <2> QED BY <2>1, <2>2, <2>3, <2>4
<1>26. CASE S!OtherReload
  <2>1. S!TypeOK'
    BY <1>26, LoadsTyped DEF S!OtherReload, S!Client
  <2>2. S!CallInv'
    BY <1>26 DEF S!OtherReload, S!Client
  <2>3. S!JobInv'
    BY <1>26 DEF S!OtherReload, S!Client
  <2>4. S!ListInv' /\ S!ListsEveryService'
    BY <1>26 DEF S!OtherReload, S!Client
  <2> QED BY <2>1, <2>2, <2>3, <2>4
<1> QED BY <1>1, <1>2, <1>3, <1>4, <1>5, <1>6, <1>7, <1>8, <1>9, <1>10, <1>11, <1>12, <1>13,
           <1>14, <1>15, <1>16, <1>17, <1>18, <1>19, <1>20, <1>21, <1>22, <1>23, <1>24, <1>25, <1>26 DEF S!Next, S!ClientStep, S!Start, S!Systemd

-----------------------------------------------------------------------------
(* The fields of a task.                                                   *)

\* Task Scheduler's numbers of the four policies, there and back.
LEMMA PoliciesThereAndBack ==
    \A policy \in {"parallel", "queue", "ignore", "replace"} :
        F!to_task_multiple_instances(F!from_task_multiple_instances(policy)) = policy
<1> SUFFICES ASSUME NEW policy \in {"parallel", "queue", "ignore", "replace"}
             PROVE  F!to_task_multiple_instances(F!from_task_multiple_instances(policy)) = policy
  OBVIOUS
<1>1. \E i \in 1..4 : F!InstancesByInt[i] = policy
  BY DEF F!InstancesByInt
<1> DEFINE n == CHOOSE i \in 1..4 : F!InstancesByInt[i] = policy
<1>2. n \in 1..4 /\ F!InstancesByInt[n] = policy
  BY <1>1
<1>3. F!from_task_multiple_instances(policy) = n - 1
  BY DEF F!from_task_multiple_instances
<1> HIDE DEF n
<1>4. n - 1 \in 0..3 /\ (n - 1) + 1 = n
  BY <1>2
<1> QED BY <1>2, <1>3, <1>4 DEF F!to_task_multiple_instances

\* Cutting the fraction of a second and going to UTC may be done in either order.
LEMMA WholeUtc ==
    \A x \in F!Trigger : /\ x.at \in Int /\ x.offset \in Int /\ F!Utc(x) \in Int
                         /\ F!Whole(F!Utc(x)) \in Int
                         /\ F!Whole(x.at) - x.offset = F!Whole(F!Utc(x))
<1> SUFFICES ASSUME NEW x \in F!Trigger
             PROVE  /\ x.at \in Int /\ x.offset \in Int /\ F!Utc(x) \in Int
                    /\ F!Whole(F!Utc(x)) \in Int
                    /\ F!Whole(x.at) - x.offset = F!Whole(F!Utc(x))
  OBVIOUS
<1>1. x.at \in Int /\ x.offset \in Int /\ x.offset % 2 = 0
  BY DEF F!Trigger, F!Second
<1>2. \A a, k \in Int : (a - 2 * k) % 2 = a % 2
  OBVIOUS
<1>3. x.offset = 2 * (x.offset \div 2) /\ x.offset \div 2 \in Int
  BY <1>1
<1>4. (x.at - x.offset) % 2 = x.at % 2
  BY <1>1, <1>2, <1>3
<1>5. x.at % 2 \in Int
  BY <1>1
<1> QED BY <1>1, <1>4, <1>5 DEF F!Whole, F!Utc, F!Second

\* Two moments are at the same time of day when whole days lie between them.
LEMMA SameTimeOfDay ==
    \A n, m \in Int : n % F!Day = m % F!Day <=> (n - m) % (1 * F!Day) = 0
BY DEF F!Day

\* Each trigger is written as one that starts the task when it means to.
LEMMA TriggerOnWindows ==
    ASSUME x1 = "win32", NEW x \in F!Trigger, NEW n \in Int
    PROVE  F!StartsAt(F!add_trigger(x), n) <=> F!MeantAt(x, n)
<1>1. F!Whole(x.at) - x.offset = F!Whole(F!Utc(x)) /\ F!Whole(F!Utc(x)) \in Int
  BY WholeUtc
<1>2. CASE x.kind = "once"
  <2> DEFINE w == F!add_trigger(x)
  <2>1. w.kind = "once" /\ w.StartBoundary = F!Whole(x.at) /\ w.offset = x.offset
    BY <1>2 DEF F!add_trigger
  <2> HIDE DEF w
  <2>2. F!StartsAt(w, n) <=> n = F!Whole(F!Utc(x))
    BY <1>1, <2>1 DEF F!StartsAt
  <2> QED BY <1>2, <2>2 DEF F!MeantAt, w
<1>3. CASE x.kind = "daily"
  <2> DEFINE w == F!add_trigger(x)
  <2>1. /\ w.kind = "daily" /\ w.StartBoundary = F!Whole(x.at) /\ w.offset = x.offset
        /\ w.DaysInterval = x.every
    BY <1>3 DEF F!add_trigger
  <2> HIDE DEF w
  <2>2. F!StartsAt(w, n) <=> /\ n >= F!Whole(F!Utc(x))
                             /\ (n - F!Whole(F!Utc(x))) % (x.every * F!Day) = 0
    BY <1>1, <2>1, Zenon DEF F!StartsAt
  <2>3. F!MeantAt(x, n) <=> /\ n >= F!Whole(F!Utc(x))
                            /\ (n - F!Whole(F!Utc(x))) % (x.every * F!Day) = 0
    BY <1>3, Zenon DEF F!MeantAt
  <2> QED BY <2>2, <2>3 DEF w
<1>4. CASE x.kind \in {"boot", "logon"}
  <2>1. F!add_trigger(x).kind = x.kind
    BY <1>4 DEF F!add_trigger
  <2> QED BY <1>4, <2>1 DEF F!StartsAt, F!MeantAt
<1> QED BY <1>2, <1>3, <1>4 DEF F!Trigger

LEMMA TriggerOnLinux ==
    ASSUME x1 = "linux", NEW x \in F!Trigger, NEW n \in Int, x.kind = "daily" => x.every = 1,
           x.kind # "logon"
    PROVE  F!StartsAt(F!timer_line(x), n) <=> F!MeantAt(x, n)
<1>1. F!Whole(F!Utc(x)) \in Int
  BY WholeUtc
<1>2. CASE x.kind = "once"
  BY <1>2 DEF F!timer_line, F!StartsAt, F!MeantAt
<1>3. CASE x.kind = "daily"
  <2>1. F!StartsAt(F!timer_line(x), n) <=> n % F!Day = F!Whole(F!Utc(x)) % F!Day
    BY <1>3 DEF F!timer_line, F!StartsAt
  <2>2. F!MeantAt(x, n) <=> (n - F!Whole(F!Utc(x))) % (1 * F!Day) = 0
    BY <1>3, Zenon DEF F!MeantAt
  <2> QED BY <1>1, <2>1, <2>2, SameTimeOfDay
<1>4. CASE x.kind = "boot"
  BY <1>4 DEF F!timer_line, F!StartsAt, F!MeantAt
<1> QED BY <1>2, <1>3, <1>4 DEF F!Trigger

\* So all of them are.
LEMMA TriggersStored ==
    ASSUME x1 \in {"win32", "linux"}, x2 \in F!Askable, F!Accepted, x4 = F!Stored
    PROVE  F!StartsWhenAsked
<1>1. x2.triggers \subseteq F!Trigger /\ LookedAt \subseteq Int
  BY AdministrationAssumption DEF F!Askable
<1>2. CASE x1 = "win32"
  <2>1. x4.Triggers = {F!add_trigger(x) : x \in x2.triggers}
    BY <1>2 DEF F!Stored, F!Definition
  <2>2. ASSUME NEW n \in LookedAt
        PROVE  (\E w \in x4.Triggers : F!StartsAt(w, n)) <=> (\E x \in x2.triggers : F!MeantAt(x, n))
    <3>1. \A x \in x2.triggers : F!StartsAt(F!add_trigger(x), n) <=> F!MeantAt(x, n)
      BY <1>1, <1>2, TriggerOnWindows
    <3> QED BY <2>1, <3>1, Zenon
  <2>3. \A x \in F!Trigger :
          /\ F!add_trigger(x).kind = x.kind
          /\ x.kind = "boot" => F!add_trigger(x).Delay = F!Whole(x.at)
          /\ x.kind = "logon" => F!add_trigger(x).UserId = x.who
    BY DEF F!add_trigger, F!Trigger
  <2>4. {w.Delay : w \in F!Of("boot", x4.Triggers)} = {F!Whole(x.at) : x \in F!Of("boot", x2.triggers)}
    BY <1>1, <2>1, <2>3 DEF F!Of
  <2>5. {w.UserId : w \in F!Of("logon", x4.Triggers)} = {x.who : x \in F!Of("logon", x2.triggers)}
    BY <1>1, <2>1, <2>3 DEF F!Of
  <2> QED BY <1>2, <2>2, <2>4, <2>5 DEF F!StartsWhenAsked
<1>3. CASE x1 = "linux"
  <2>1. x4.Triggers = {F!timer_line(x) : x \in x2.triggers}
    BY <1>3 DEF F!Stored, F!UnitFiles
  <2>2. \A x \in x2.triggers : x.kind # "logon" /\ (x.kind = "daily" => x.every = 1)
    BY <1>3 DEF F!Accepted, F!timer_lines, F!Of
  <2>3. ASSUME NEW n \in LookedAt
        PROVE  (\E w \in x4.Triggers : F!StartsAt(w, n)) <=> (\E x \in x2.triggers : F!MeantAt(x, n))
    <3>1. \A x \in x2.triggers : F!StartsAt(F!timer_line(x), n) <=> F!MeantAt(x, n)
      BY <1>1, <1>3, <2>2, TriggerOnLinux
    <3> QED BY <2>1, <3>1, Zenon
  <2>4. \A x \in F!Trigger : x.kind # "logon" =>
          /\ F!timer_line(x).kind = x.kind
          /\ x.kind = "boot" => F!timer_line(x).OnBootSec = F!Whole(x.at)
    BY DEF F!timer_line, F!Trigger
  <2>5. {w.OnBootSec : w \in F!Of("boot", x4.Triggers)} =
          {F!Whole(x.at) : x \in F!Of("boot", x2.triggers)}
    BY <1>1, <2>1, <2>2, <2>4 DEF F!Of
  <2>6. F!Of("logon", x4.Triggers) = {} /\ F!Of("logon", x2.triggers) = {}
    BY <1>1, <2>1, <2>2, <2>4 DEF F!Of
  <2> QED BY <1>3, <2>3, <2>5, <2>6 DEF F!StartsWhenAsked
<1> QED BY <1>2, <1>3

\* What a plain condition forbids, and that nothing else is forbidden where no
\* condition has a marker.
LEMMA BatteryConditions ==
    ASSUME NEW C \in SUBSET F!ConditionSet
    PROVE  /\ F!OnAcOnly \in C => ~F!StartsOnBattery(C)
           /\ F!OnAcOnly \notin C /\ ~(\E c \in C : c.trigger \/ c.negate) => F!StartsOnBattery(C)
<1>1. ~F!OnAcOnly.trigger /\ ~F!OnAcOnly.negate /\ F!OnAcOnly.value = "true"
  BY DEF F!OnAcOnly, F!Condition
<1>2. ASSUME F!OnAcOnly \in C PROVE ~F!StartsOnBattery(C)
  BY <1>1, <1>2, Zenon DEF F!StartsOnBattery
<1>3. ASSUME F!OnAcOnly \notin C, ~(\E c \in C : c.trigger \/ c.negate)
      PROVE  F!StartsOnBattery(C)
  <2>1. ASSUME NEW c \in C PROVE ~c.trigger /\ ~c.negate /\ c.value # "true"
    <3>1. /\ c = [trigger |-> c.trigger, negate |-> c.negate, value |-> c.value]
          /\ c.trigger \in BOOLEAN /\ c.negate \in BOOLEAN
      BY DEF F!ConditionSet
    <3>2. c.trigger = FALSE /\ c.negate = FALSE
      BY <1>3, <3>1
    <3>3. c.value # "true"
      BY <1>3, <3>1, <3>2 DEF F!OnAcOnly, F!Condition
    <3> QED BY <3>2, <3>3
  <2> QED BY <2>1, Zenon DEF F!StartsOnBattery
<1> QED BY <1>2, <1>3

\* What the definition or the unit files make a task do is what was asked for.
LEMMA StoredIsAsked ==
    ASSUME x1 \in {"win32", "linux"}, x2 \in F!Askable, F!Valid(x2), F!Accepted, x4 = F!Stored
    PROVE  /\ F!StartsWhenAsked
           /\ F!Behaves(x4).user = F!Account
           /\ x2.level = "highest" => F!Behaves(x4).level = "highest"
           /\ \A f \in F!Settings : F!Given(f) => F!Behaves(x4)[f] = x2[f]
           /\ F!Behaves(x4).demand = F!Or("demand", "yes")
<1> USE DEF F!Given, F!Or, F!Not
<1>1. CASE x1 = "win32"
  <2>1. x4 = F!Definition
    BY <1>1 DEF F!Stored
  <2>2. F!Behaves(x4) =
          [user |-> x4.UserId, level |-> IF x4.RunLevel = 1 THEN "highest" ELSE "limited",
           battery |-> F!Not(x4.DisallowStartIfOnBatteries), stop |-> x4.StopIfGoingOnBatteries,
           limit |-> F!to_task_duration(x4.ExecutionTimeLimit),
           instances |-> F!to_task_multiple_instances(x4.MultipleInstances),
           kill |-> x4.AllowHardTerminate, demand |-> x4.AllowDemandStart]
    BY <1>1 DEF F!Behaves
  <2>3. F!Behaves(x4).user = F!Account
    BY <1>1, <2>1, <2>2 DEF F!Definition, F!Account, F!NewTask
  <2>4. x2.level = "highest" => F!Behaves(x4).level = "highest"
    BY <2>1, <2>2 DEF F!Definition
  <2>5. F!Given("battery") => F!Behaves(x4)["battery"] = x2["battery"]
    BY <2>1, <2>2 DEF F!Definition, F!Askable
  <2>6. F!Given("stop") => F!Behaves(x4)["stop"] = x2["stop"]
    BY <2>1, <2>2 DEF F!Definition
  <2>7. F!Given("limit") => F!Behaves(x4)["limit"] = x2["limit"]
    BY <2>1, <2>2 DEF F!Definition, F!iso_duration, F!to_task_duration, F!Askable, F!Valid
  <2>8. F!Given("instances") => F!Behaves(x4)["instances"] = x2["instances"]
    <3>1. SUFFICES ASSUME F!Given("instances")
                   PROVE  F!to_task_multiple_instances(x4.MultipleInstances) = x2["instances"]
      BY <2>2
    <3>2. x2.instances \in {"parallel", "queue", "ignore", "replace"}
      BY <3>1 DEF F!Askable
    <3>3. x4.MultipleInstances = F!from_task_multiple_instances(x2.instances)
      BY <2>1, <3>1 DEF F!Definition
    <3> QED BY <3>2, <3>3, PoliciesThereAndBack
  <2>9. F!Given("kill") => F!Behaves(x4)["kill"] = x2["kill"]
    BY <2>1, <2>2 DEF F!Definition
  <2>10. F!Behaves(x4).demand = F!Or("demand", "yes")
    BY <2>1, <2>2 DEF F!Definition
  <2>11. F!Given("demand") => F!Behaves(x4)["demand"] = x2["demand"]
    BY <2>10
  <2> HIDE DEF F!Given
  <2> QED BY <2>3, <2>4, <2>5, <2>6, <2>7, <2>8, <2>9, <2>10, <2>11, TriggersStored DEF F!Settings
<1>2. CASE x1 = "linux"
  <2>1. /\ F!check_settings(x2) /\ F!linux_user(x2) /\ F!timer_lines(x2)
        /\ x4 = F!UnitFiles
    BY <1>2 DEF F!Stored, F!Accepted
  <2>2. /\ F!Behaves(x4).user = CASE x4.User # "empty" -> x4.User
                       [] x4.User = "empty" /\ x4.DynamicUser = "yes" -> "dynamic"
                       [] OTHER -> "root"
        /\ F!Behaves(x4).level = IF x4.User \in {"empty", "root"} THEN "highest" ELSE "limited"
        /\ F!Behaves(x4).battery = IF F!StartsOnBattery(x4.Conditions) THEN "yes" ELSE "no"
        /\ F!Behaves(x4).stop = "no"
        /\ F!Behaves(x4).limit = CASE x4.Type # "oneshot" -> "start only"
                       [] x4.Type = "oneshot" /\ x4.TimeoutStartSec = "60" -> "minute"
                       [] OTHER -> "zero"
        /\ F!Behaves(x4).instances = IF F!Of("daily", x4.Triggers) # {} THEN "catch up" ELSE "ignore"
        /\ F!Behaves(x4).kill = IF x4.SendSIGKILL = "no" THEN "no" ELSE "yes"
        /\ F!Behaves(x4).demand = IF x4.RefuseManualStart = "yes" THEN "no" ELSE "yes"
    BY <1>2 DEF F!Behaves
  <2>3. /\ x4.Triggers = {F!timer_line(x) : x \in x2.triggers}
        /\ x4.Type = "oneshot" /\ x4.DynamicUser = "no"
        /\ x4.User = IF x2.user \in F!Uids THEN x2.user ELSE "empty"
        /\ x4.Conditions = IF x2.battery = "no" THEN {F!OnAcOnly} ELSE {}
        /\ x4.RefuseManualStart = IF x2.demand = "no" THEN "yes" ELSE "empty"
        /\ x4.SendSIGKILL = IF x2.kill = "no" THEN "no" ELSE "empty"
    BY <2>1 DEF F!UnitFiles
  <2>4. /\ x2.limit = "zero" => x4.TimeoutStartSec = "infinity"
        /\ x2.limit = "minute" => x4.TimeoutStartSec = "60"
    BY <2>1 DEF F!UnitFiles
  <2>5. F!Behaves(x4).user = F!Account
    BY <1>2, <2>1, <2>2, <2>3 DEF F!Account, F!linux_user, F!Uids
  <2>6. x2.level = "highest" => F!Behaves(x4).level = "highest"
    BY <2>1, <2>2, <2>3 DEF F!linux_user, F!Uids
  <2>7. F!Given("battery") => F!Behaves(x4)["battery"] = x2["battery"]
    <3>1. F!OnAcOnly \in F!ConditionSet
      BY DEF F!OnAcOnly, F!Condition, F!ConditionSet
    <3>2. ~F!StartsOnBattery({F!OnAcOnly}) /\ F!StartsOnBattery({})
      BY <3>1, BatteryConditions
    <3>3. x2.battery \in {"unset", "yes", "no"} /\ F!Behaves(x4)["battery"] = F!Behaves(x4).battery
      BY DEF F!Askable
    <3>4. CASE x2.battery = "no"
      BY <2>2, <2>3, <3>2, <3>4
    <3>5. CASE x2.battery = "yes"
      BY <2>2, <2>3, <3>2, <3>5
    <3> QED BY <3>3, <3>4, <3>5
  <2>8. F!Given("stop") => F!Behaves(x4)["stop"] = x2["stop"]
    BY <2>1, <2>2 DEF F!check_settings, F!Askable
  <2>9. F!Given("limit") => F!Behaves(x4)["limit"] = x2["limit"]
    BY <2>2, <2>3, <2>4 DEF F!Askable, F!Valid
  <2>10. F!Given("instances") => F!Behaves(x4)["instances"] = x2["instances"]
    <3> SUFFICES ASSUME F!Given("instances") PROVE F!Of("daily", x4.Triggers) = {} /\ x2.instances = "ignore"
      BY <2>2
    <3>1. x2.instances = "ignore" /\ F!Of("daily", x2.triggers) = {}
      BY <2>1 DEF F!check_settings
    <3>2. \A x \in x2.triggers : x.kind # "daily" => F!timer_line(x).kind # "daily"
      BY DEF F!timer_line
    <3> QED BY <2>3, <3>1, <3>2 DEF F!Of
  <2>11. F!Given("kill") => F!Behaves(x4)["kill"] = x2["kill"]
    BY <2>2, <2>3 DEF F!Askable
  <2>12. F!Behaves(x4).demand = F!Or("demand", "yes")
    BY <2>2, <2>3 DEF F!Askable
  <2>13. F!Given("demand") => F!Behaves(x4)["demand"] = x2["demand"]
    BY <2>12
  <2> HIDE DEF F!Given
  <2> QED BY <2>3, <2>5, <2>6, <2>7, <2>8, <2>9, <2>10, <2>11, <2>12, <2>13, TriggersStored
        DEF F!Settings
<1> QED BY <1>1, <1>2

\* A task behaves as asked while nobody has edited it.
LEMMA AskedIsGiven == F!FieldsInv => F!GetsWhatItAsked
<1> SUFFICES ASSUME F!FieldsInv, x3 \in {"read", "done"}, x9 = 0 PROVE F!GetsWhatItAsked
  BY DEF F!GetsWhatItAsked
<1>1. /\ x1 \in {"win32", "linux"} /\ x2 \in F!Askable
      /\ F!Valid(x2) /\ F!Accepted /\ x4 = F!Stored
  BY AdministrationAssumption DEF F!FieldsInv, F!WrittenInv
<1> QED BY <1>1, StoredIsAsked DEF F!GetsWhatItAsked

LEMMA FieldsInit == F!Init => F!FieldsInv
BY DEF F!Init, F!FieldsInv, F!ReadBackIsTrue

\* What a task does, and what was asked for, do not change by themselves.
LEMMA BehavesSame == x1' = x1 => F!Behaves(x4)' = F!Behaves(x4')
<1> SUFFICES ASSUME x1' = x1 PROVE F!Behaves(x4)' = F!Behaves(x4')
  OBVIOUS
<1> QED BY Zenon DEF F!Behaves

LEMMA ShowsSame == x1' = x1 => F!Shows(x4)' = F!Shows(x4')
<1> SUFFICES ASSUME x1' = x1 PROVE F!Shows(x4)' = F!Shows(x4')
  OBVIOUS
<1>1. F!Behaves(x4)' = F!Behaves(x4')
  BY BehavesSame
<1>2. F!Unseen(x4)' = F!Unseen(x4')
  BY Zenon DEF F!Unseen
<1> QED BY <1>1, <1>2, Zenon DEF F!Shows

LEMMA StoredSame == UNCHANGED <<x1, x2>> => F!Stored' = F!Stored
BY DEF F!Stored, F!Definition, F!UnitFiles, F!Given, F!Or

\* A task that has just been written is as it was asked for, and nothing of
\* it has been read.
LEMMA WriteKeeps == F!FieldsInv /\ F!Write => F!FieldsInv'
<1> SUFFICES ASSUME F!FieldsInv, F!Write PROVE F!FieldsInv'
  OBVIOUS
<1>1. /\ x1 \in {"win32", "linux"} /\ x9 = 0 /\ x5 = << >> /\ F!Valid(x2) /\ F!Accepted
      /\ x4' = F!Stored /\ x8' = F!Shows(x4') /\ x3' = "read"
      /\ UNCHANGED <<x1, x2, x5, x9>>
  BY DEF F!FieldsInv, F!Write, F!Stored
<1>2. F!Stored' = F!Stored /\ F!Accepted' /\ F!Valid(x2')
  BY <1>1, StoredSame DEF F!Accepted
<1>3. \A f \in F!Fields : F!Shows(x4)'[f] \subseteq x8'[f]
  BY <1>1, ShowsSame
<1>4. x1 = "linux" =>
        /\ {"TimeoutStartSec", "Type", "Conditions"} \subseteq DOMAIN x4'
        /\ x4'.TimeoutStartSec \in {"empty", "infinity", "60"}
        /\ x4'.Conditions \subseteq F!ConditionSet
  <2> SUFFICES ASSUME x1 = "linux"
               PROVE  /\ {"TimeoutStartSec", "Type", "Conditions"} \subseteq DOMAIN x4'
                      /\ x4'.TimeoutStartSec \in {"empty", "infinity", "60"}
                      /\ x4'.Conditions \subseteq F!ConditionSet
    OBVIOUS
  <2>1. x4' = F!UnitFiles
    BY <1>1 DEF F!Stored
  <2>2. {"TimeoutStartSec", "Type", "Conditions"} \subseteq DOMAIN x4'
    BY <2>1 DEF F!UnitFiles
  <2>3. x4'.TimeoutStartSec \in {"empty", "infinity", "60"}
    BY <2>1 DEF F!UnitFiles
  <2>4. x4'.Conditions \subseteq {F!OnAcOnly}
    BY <2>1 DEF F!UnitFiles
  <2>5. F!OnAcOnly \in F!ConditionSet
    BY DEF F!OnAcOnly, F!Condition, F!ConditionSet
  <2> QED BY <2>2, <2>3, <2>4, <2>5
<1>5. F!WrittenInv'
  BY <1>1, <1>2, <1>3, <1>4 DEF F!WrittenInv
<1>6. \A p : ~F!Answered(p)'
  BY <1>1 DEF F!Answered
<1>7. x1 = "linux" => "no" \in x8'["stop"]
  <2>1. x1 = "linux" => F!Behaves(x4)'["stop"] = "no"
    BY <1>1 DEF F!Behaves
  <2>2. F!Behaves(x4)'["stop"] \in F!Shows(x4)'["stop"]
    BY DEF F!Shows, F!Fields, F!Settings
  <2> QED BY <1>3, <2>1, <2>2 DEF F!Fields, F!Settings
<1>8. F!ToldInv'
  BY <1>1, <1>6, <1>7 DEF F!ToldInv, F!WindowsTold, F!SystemdTold
<1> QED BY <1>1, <1>2, <1>5, <1>8 DEF F!FieldsInv, F!ReadBackIsTrue

\* A property that is answered is one the task has now.
LEMMA ReadKeeps == F!FieldsInv /\ F!ReadProperty => F!FieldsInv'
<1> SUFFICES ASSUME F!FieldsInv, F!ReadProperty PROVE F!FieldsInv'
  OBVIOUS
<1> DEFINE p == Head(x6)
           v == IF x1 = "win32" THEN x4[p] ELSE F!Property(p)
<1>1. /\ x1 \in {"win32", "linux"} /\ x3 = "read" /\ F!WrittenInv /\ F!ToldInv
      /\ UNCHANGED <<x1, x2, x3, x4, x7, x8, x9>>
      /\ \/ x5' = [q \in DOMAIN x5 \cup {p} |-> IF q # p THEN x5[q] ELSE v]
         \/ UNCHANGED x5
  BY DEF F!FieldsInv, F!ReadProperty
<1> HIDE DEF p, v
<1>2. \A q : F!Answered(q)' => \/ F!Answered(q) /\ x5'[q] = x5[q]
                               \/ q = p /\ x5'[q] = v
  BY <1>1 DEF F!Answered
<1>3. F!WrittenInv'
  BY <1>1, ShowsSame, StoredSame DEF F!WrittenInv
<1>4. \A f \in F!Fields : F!Behaves(x4)[f] \in x8[f] /\ (f \in F!Unseen(x4) => "unseen" \in x8[f])
  BY <1>1 DEF F!WrittenInv, F!Shows
<1>5. {"user", "level", "battery", "stop", "limit", "instances", "kill", "demand"} \subseteq F!Fields
  BY DEF F!Fields, F!Settings
<1>6. /\ F!Behaves(x4).user \in x8["user"] /\ F!Behaves(x4).level \in x8["level"]
      /\ F!Behaves(x4).battery \in x8["battery"] /\ F!Behaves(x4).stop \in x8["stop"]
      /\ F!Behaves(x4).limit \in x8["limit"] /\ F!Behaves(x4).instances \in x8["instances"]
      /\ F!Behaves(x4).kill \in x8["kill"] /\ F!Behaves(x4).demand \in x8["demand"]
  BY ONLY <1>4, <1>5
<1>7. \A f \in {"user", "battery", "limit"} : f \in F!Unseen(x4) => "unseen" \in x8[f]
  BY ONLY <1>4, <1>5
<1>8. CASE x1 = "win32"
  <2>1. \A q : q = p => v = x4[q]
    BY <1>8 DEF v
  <2>2. /\ F!sid_string(x4["UserId"]) \in x8["user"] \cup {F!Unknown}
        /\ (IF x4["RunLevel"] = 1 THEN "highest" ELSE "limited") \in x8["level"]
        /\ F!Not(x4["DisallowStartIfOnBatteries"]) \in x8["battery"]
        /\ x4["StopIfGoingOnBatteries"] \in x8["stop"]
        /\ F!to_task_duration(x4["ExecutionTimeLimit"]) \in x8["limit"]
        /\ F!to_task_multiple_instances(x4["MultipleInstances"]) \in x8["instances"]
        /\ x4["AllowHardTerminate"] \in x8["kill"]
        /\ x4["AllowDemandStart"] \in x8["demand"]
    <3>1. F!Behaves(x4) =
          [user |-> x4.UserId, level |-> IF x4.RunLevel = 1 THEN "highest" ELSE "limited",
           battery |-> F!Not(x4.DisallowStartIfOnBatteries), stop |-> x4.StopIfGoingOnBatteries,
           limit |-> F!to_task_duration(x4.ExecutionTimeLimit),
           instances |-> F!to_task_multiple_instances(x4.MultipleInstances),
           kill |-> x4.AllowHardTerminate, demand |-> x4.AllowDemandStart]
      BY <1>8, Zenon DEF F!Behaves
    <3>2. F!sid_string(x4.UserId) \in {x4.UserId, F!Unknown}
      BY DEF F!sid_string
    <3> QED BY ONLY <1>6, <3>1, <3>2
  <2>3. F!WindowsTold
    BY <1>1, <1>8 DEF F!ToldInv
  <2>4. F!WindowsTold'
    BY <1>1, <1>2, <2>1, <2>2, <2>3 DEF F!WindowsTold
  <2> QED BY <1>1, <1>3, <1>8, <2>4 DEF F!FieldsInv, F!ToldInv, F!Accepted, F!ReadBackIsTrue
<1>9. CASE x1 = "linux"
  <2>1. \A q : q = p => v = F!Property(q)
    BY <1>9 DEF v
  <2>2. /\ F!Property("User") = x4["User"]
        /\ F!Property("Conditions") = x4["Conditions"]
        /\ F!Property("SendSIGKILL") = IF x4.SendSIGKILL = "no" THEN "no" ELSE "yes"
        /\ F!Property("RefuseManualStart") = IF x4.RefuseManualStart = "yes" THEN "yes" ELSE "no"
    BY DEF F!Property
  <2>3. \/ F!service_user_id(x4["User"]) \in x8["user"] \cup {F!Unknown}
        \/ "unseen" \in x8["user"] /\ F!service_user_id(x4["User"]) = "root"
    <3>1. F!Behaves(x4).user = CASE x4.User # "empty" -> x4.User
                                 [] x4.User = "empty" /\ x4.DynamicUser = "yes" -> "dynamic"
                                 [] OTHER -> "root"
      BY <1>9 DEF F!Behaves
    <3>2. x4.User = "empty" /\ x4.DynamicUser = "yes" => "user" \in F!Unseen(x4)
      BY <1>9 DEF F!Unseen
    <3>3. F!service_user_id(x4.User) = CASE x4.User = "empty" -> "root" [] x4.User \in F!Uids -> x4.User
                                         [] OTHER -> F!Unknown
      BY DEF F!service_user_id
    <3>4. "empty" \notin F!Uids
      BY DEF F!Uids
    <3> QED BY ONLY <1>6, <1>7, <3>1, <3>2, <3>3, <3>4
  <2>4. \/ F!battery_start_allowed(x4["Conditions"]) \in x8["battery"]
        \/ "unseen" \in x8["battery"] /\ F!battery_start_allowed(x4["Conditions"]) = "yes"
    <3>1. F!Behaves(x4).battery = IF F!StartsOnBattery(x4.Conditions) THEN "yes" ELSE "no"
      BY <1>9 DEF F!Behaves
    <3>2. (\E c \in x4.Conditions : c.trigger \/ c.negate) => "battery" \in F!Unseen(x4)
      BY <1>9 DEF F!Unseen
    <3>3. x4.Conditions \in SUBSET F!ConditionSet
      BY <1>1, <1>9 DEF F!WrittenInv
    <3>4. /\ F!OnAcOnly \in x4.Conditions => ~F!StartsOnBattery(x4.Conditions)
          /\ F!OnAcOnly \notin x4.Conditions /\ ~(\E c \in x4.Conditions : c.trigger \/ c.negate)
               => F!StartsOnBattery(x4.Conditions)
      BY <3>3, BatteryConditions
    <3>5. F!battery_start_allowed(x4.Conditions) = IF F!OnAcOnly \in x4.Conditions THEN "no" ELSE "yes"
      BY DEF F!battery_start_allowed
    <3> QED BY ONLY <1>6, <1>7, <3>1, <3>2, <3>4, <3>5
  <2>5. /\ F!Property("SendSIGKILL") \in x8["kill"]
        /\ F!Not(F!Property("RefuseManualStart")) \in x8["demand"]
    <3>1. /\ F!Behaves(x4).kill = IF x4.SendSIGKILL = "no" THEN "no" ELSE "yes"
          /\ F!Behaves(x4).demand = IF x4.RefuseManualStart = "yes" THEN "no" ELSE "yes"
      BY <1>9 DEF F!Behaves
    <3>2. F!Not("yes") = "no" /\ F!Not("no") = "yes"
      BY DEF F!Not
    <3> QED BY ONLY <1>6, <2>2, <3>1, <3>2
  <2>6. "unseen" \in x8["limit"] \/ F!start_time_limit(F!Property("TimeoutStartUSec")) \in x8["limit"]
    <3>1. x4.TimeoutStartSec \in {"empty", "infinity", "60"}
      BY <1>1, <1>9 DEF F!WrittenInv
    <3>2. F!Behaves(x4).limit = CASE x4.Type # "oneshot" -> "start only"
                       [] x4.Type = "oneshot" /\ x4.TimeoutStartSec = "60" -> "minute"
                       [] OTHER -> "zero"
      BY <1>9 DEF F!Behaves
    <3>3. F!Property("TimeoutStartUSec") =
            IF x4.TimeoutStartSec \in {"empty", "infinity"} THEN "max" ELSE "60000000"
      BY DEF F!Property
    <3>4. x4.Type # "oneshot" => "limit" \in F!Unseen(x4)
      BY <1>9 DEF F!Unseen
    <3>5. F!start_time_limit("max") = "zero" /\ F!start_time_limit("60000000") = "minute"
      BY DEF F!start_time_limit
    <3> QED BY ONLY <1>6, <1>7, <3>1, <3>2, <3>3, <3>4, <3>5
  <2>7. F!SystemdTold
    BY <1>1, <1>9 DEF F!ToldInv
  <2>8. F!SystemdTold'
    BY <1>1, <1>2, <2>1, <2>2, <2>6, <2>7, <2>3, <2>4, <2>5 DEF F!SystemdTold
  <2> QED BY <1>1, <1>3, <1>9, <2>8 DEF F!FieldsInv, F!ToldInv, F!Accepted, F!ReadBackIsTrue
<1> QED BY <1>1, <1>8, <1>9

\* An edit adds to what was so.
LEMMA EditKeeps == F!FieldsInv /\ F!Edit => F!FieldsInv'
<1> SUFFICES ASSUME F!FieldsInv, F!Edit PROVE F!FieldsInv'
  OBVIOUS
<1>1. /\ x1 \in {"win32", "linux"} /\ x3 = "read" /\ F!WrittenInv /\ F!ToldInv
      /\ x9 \in Nat /\ x9' = x9 + 1
      /\ UNCHANGED <<x1, x2, x3, x5, x7>>
      /\ x8' = [f \in F!Fields |-> x8[f] \cup F!Shows(x4')[f]]
  BY DEF F!FieldsInv, F!Edit
<1>2. PICK e \in F!Edits : x4' = [x4 EXCEPT ![e[1]] = e[2]]
  BY DEF F!Edit
<1>3. \A f \in F!Fields : F!Shows(x4)'[f] \subseteq x8'[f]
  BY <1>1, ShowsSame
<1>4. \A f \in F!Fields : x8[f] \subseteq x8'[f]
  BY <1>1
<1>5. x1 = "linux" =>
        /\ {"TimeoutStartSec", "Type", "Conditions"} \subseteq DOMAIN x4'
        /\ x4'.TimeoutStartSec \in {"empty", "infinity", "60"}
        /\ x4'.Conditions \subseteq F!ConditionSet
  <2> SUFFICES ASSUME x1 = "linux"
               PROVE  /\ {"TimeoutStartSec", "Type", "Conditions"} \subseteq DOMAIN x4'
                      /\ x4'.TimeoutStartSec \in {"empty", "infinity", "60"}
                      /\ x4'.Conditions \subseteq F!ConditionSet
    OBVIOUS
  <2>1. /\ {"TimeoutStartSec", "Type", "Conditions"} \subseteq DOMAIN x4
        /\ x4.TimeoutStartSec \in {"empty", "infinity", "60"}
        /\ x4.Conditions \subseteq F!ConditionSet
    BY <1>1 DEF F!WrittenInv
  <2> DEFINE added == {F!OnAcOnly, F!Condition(TRUE, FALSE, "true"), F!Condition(FALSE, TRUE, "true"),
                       F!Condition(FALSE, TRUE, "false")}
  <2>2. added \subseteq F!ConditionSet
    BY DEF F!ConditionSet, F!Condition, F!OnAcOnly
  <2>3. \/ e \in {<<"Type", "simple">>, <<"TimeoutStartSec", "60">>, <<"SendSIGKILL", "no">>,
                 <<"User", "alice">>, <<"DynamicUser", "yes">>, <<"Conditions", {}>>}
        \/ \E c \in added : e = <<"Conditions", x4.Conditions \cup {c}>>
    BY Zenon DEF F!Edits
  <2> HIDE DEF added
  <2>4. e[1] = "TimeoutStartSec" => e[2] = "60"
    BY ONLY <2>3
  <2>5. e[1] = "Conditions" => e[2] \subseteq F!ConditionSet
    BY ONLY <2>1, <2>2, <2>3
  <2> QED BY ONLY <1>2, <2>1, <2>4, <2>5
<1>6. F!WrittenInv'
  BY <1>1, <1>3, <1>5 DEF F!WrittenInv
<1>7. F!ToldInv'
  <2>1. \A q : F!Answered(q)' <=> F!Answered(q)
    BY <1>1 DEF F!Answered
  <2>2. CASE x1 = "win32"
    BY <1>1, <1>4, <2>1, <2>2 DEF F!ToldInv, F!WindowsTold, F!Fields, F!Settings
  <2>3. CASE x1 = "linux"
    BY <1>1, <1>4, <2>1, <2>3 DEF F!ToldInv, F!SystemdTold, F!Fields, F!Settings
  <2> QED BY <1>1, <2>2, <2>3
<1> QED BY <1>1, <1>6, <1>7 DEF F!FieldsInv, F!Accepted, F!ReadBackIsTrue

\* What is returned is put together from what was told.
LEMMA ReturnKeeps == F!FieldsInv /\ F!Return => F!FieldsInv'
<1> SUFFICES ASSUME F!FieldsInv, F!Return PROVE F!FieldsInv'
  OBVIOUS
<1>1. /\ x1 \in {"win32", "linux"} /\ x3 = "read" /\ x3' = "done" /\ F!WrittenInv /\ F!ToldInv
      /\ x7' = IF x1 = "win32" THEN F!TaskExtras ELSE F!TimerTask
      /\ UNCHANGED <<x1, x2, x4, x5, x8, x9>>
  BY DEF F!FieldsInv, F!Return
<1>2. F!WrittenInv'
  BY <1>1, ShowsSame, StoredSame DEF F!WrittenInv
<1>3. ASSUME NEW f \in F!Fields
      PROVE  \/ x7'[f] = F!Unknown \/ x7'[f] \in x8[f]
             \/ "unseen" \in x8[f] /\ x7'[f] \in F!Supposed[f]
  <2> DEFINE Told(g) == x7'[g] = F!Unknown \/ x7'[g] \in x8[g]
  <2>1. CASE x1 = "win32"
    <3>1. F!WindowsTold /\ x7' = F!TaskExtras
      BY <1>1, <2>1 DEF F!ToldInv
    <3>2. Told("user") /\ Told("level") /\ Told("battery") /\ Told("stop")
      BY <3>1 DEF F!WindowsTold, F!TaskExtras, F!Convert
    <3>3. Told("limit") /\ Told("instances") /\ Told("kill") /\ Told("demand")
      BY <3>1 DEF F!WindowsTold, F!TaskExtras, F!Convert
    <3> QED BY <3>2, <3>3 DEF F!Fields, F!Settings
  <2>2. CASE x1 = "linux"
    <3>1. F!SystemdTold /\ x7' = F!TimerTask
      BY <1>1, <2>2 DEF F!ToldInv
    <3>2. Told("level") /\ Told("stop") /\ Told("instances")
      BY <3>1 DEF F!SystemdTold, F!TimerTask
    <3>3. Told("kill") /\ Told("demand")
      BY <3>1 DEF F!SystemdTold, F!TimerTask, F!Convert
    <3>4. Told("user") \/ ("unseen" \in x8["user"] /\ x7'["user"] = "root")
      BY <3>1 DEF F!SystemdTold, F!TimerTask, F!Convert
    <3>5. Told("battery") \/ ("unseen" \in x8["battery"] /\ x7'["battery"] = "yes")
      BY <3>1 DEF F!SystemdTold, F!TimerTask, F!Convert
    <3>6. Told("limit") \/ ("unseen" \in x8["limit"] /\ x7'["limit"] \in {"zero", "minute"})
      BY <3>1 DEF F!SystemdTold, F!TimerTask, F!Convert, F!start_time_limit
    <3> QED BY <3>2, <3>3, <3>4, <3>5, <3>6 DEF F!Fields, F!Settings, F!Supposed
  <2> QED BY <1>1, <2>1, <2>2
<1> QED BY <1>1, <1>2, <1>3 DEF F!FieldsInv, F!Accepted, F!ReadBackIsTrue

LEMMA FieldsNext == F!FieldsInv /\ [F!Next]_(F!vars) => F!FieldsInv'
<1> SUFFICES ASSUME F!FieldsInv, [F!Next]_(F!vars) PROVE F!FieldsInv'
  OBVIOUS
<1>1. CASE UNCHANGED F!vars
  <2>1. F!WrittenInv' <=> F!WrittenInv
    BY <1>1, ShowsSame, StoredSame DEF F!vars, F!WrittenInv
  <2>2. F!ToldInv' <=> F!ToldInv
    BY <1>1 DEF F!vars, F!ToldInv, F!WindowsTold, F!SystemdTold, F!Answered
  <2> QED BY <1>1, <2>1, <2>2 DEF F!vars, F!FieldsInv, F!Accepted, F!ReadBackIsTrue
<1>2. CASE F!Build \/ F!Check \/ F!WriteFails \/ F!ReadRefused
  BY <1>2 DEF F!Build, F!Check, F!WriteFails, F!ReadRefused, F!Goto, F!FieldsInv, F!Accepted,
              F!ReadBackIsTrue
<1> QED BY <1>1, <1>2, WriteKeeps, ReadKeeps, EditKeeps, ReturnKeeps DEF F!Next

-----------------------------------------------------------------------------
(* All of it.                                                              *)

\* The invariant of the one component a behaviour is of; the machine's task is
\* as the invariant of the tasks says in every behaviour.
AdminInv ==
    /\ which \in {"tasks", "fields", "services", "accounts"}
    /\ TasksInv /\ LookInv
    /\ which = "fields" => F!FieldsInv
    /\ which = "services" => S!ServicesInv
    /\ which = "accounts" => A!AccountsInv

\* It holds to begin with, and every component's steps keep it.
LEMMA AdminStarts == AdminInit => AdminInv
<1> SUFFICES ASSUME AdminInit PROVE AdminInv
  OBVIOUS
<1>1. LookInit
  BY DEF AdminInit, NoTask
<1>2. TasksInv /\ LookInv
  BY <1>1, TasksInit, LookInitially DEF LookInit
<1> QED BY <1>2, FieldsInit, ServicesInit, AccountsInit DEF AdminInit, AdminInv

LEMMA AdminSteps == AdminInv /\ [AdminNext]_all => AdminInv' /\ [Next]_vars
<1> SUFFICES ASSUME AdminInv, [AdminNext]_all PROVE AdminInv' /\ [Next]_vars
  OBVIOUS
<1>1. [TaskStep \/ LookStep]_allVars
  BY DEF AdminNext, InTasks, InFields, InServices, InAccounts, all
<1>2. TasksInv' /\ LookInv' /\ [Next]_vars
  BY <1>1, LookNext DEF AdminInv
<1>3. which' = which
  BY DEF AdminNext, InTasks, InFields, InServices, InAccounts, all
<1>4. ASSUME which = "services" PROVE S!ServicesInv'
  <2>1. [S!Next]_(S!vars)
    BY <1>4 DEF AdminNext, InTasks, InFields, InServices, InAccounts, all, pool, tail,
                S!vars, S!systemd, S!ghosts, S!listing, S!told
  <2> QED BY <1>4, <2>1, ServicesNext DEF AdminInv
<1>5. ASSUME which = "accounts" PROVE A!AccountsInv'
  <2>1. [A!Next]_(A!vars)
    BY <1>5 DEF AdminNext, InTasks, InFields, InServices, InAccounts, all, pool, A!vars
  <2> QED BY <1>5, <2>1, AccountsNext DEF AdminInv
<1>6. ASSUME which = "fields" PROVE F!FieldsInv'
  <2>1. [F!Next]_(F!vars)
    BY <1>6 DEF AdminNext, InTasks, InFields, InServices, InAccounts, all, pool, F!vars
  <2> QED BY <1>6, <2>1, FieldsNext DEF AdminInv
<1> QED BY <1>2, <1>3, <1>4, <1>5, <1>6 DEF AdminInv

LEMMA AdminInvariant == AdminSpec => [](AdminInv)
BY AdminStarts, AdminSteps, PTL DEF AdminSpec

-----------------------------------------------------------------------------
(* What is proved of the tasks.                                            *)

\* However the earlier operations ended, whatever failed or was torn: a register
\* that returns has made the task exactly what it was told.
THEOREM RegisterMakesTaskAlways == AdminSpec => RegisterMakesTask
<1>1. AdminInv /\ [AdminNext]_all =>
        [Completes("register") =>
           /\ disk'.svc = Unit("pwshpy", "demand", regs)
           /\ disk'.tim = IF op.trig = "demand" THEN None ELSE Unit("pwshpy", op.trig, regs)
           /\ disk'.link = (op.trig # "demand")
           /\ mem' = disk'
           /\ (armed' # "no") = (op.trig = "calendar")]_vars
  BY AdminSteps, RegisterMakes DEF AdminInv
<1> QED BY <1>1, AdminInvariant, PTL DEF AdminSpec, RegisterMakesTask

\* An unregister that returns leaves no unit of pwshpy's, on disk or loaded, and
\* nothing running that its timer could have started meanwhile.
THEOREM UnregisterLeavesNothingAlways == AdminSpec => UnregisterLeavesNothing
<1>1. AdminInv /\ [AdminNext]_all =>
        [Completes("unregister") =>
           /\ ~Owned(disk'.svc) /\ ~Owned(disk'.tim)
           /\ mem' = disk'
           /\ running' = "yes" => "vendor" \in {disk.svc.by, disk.tim.by}]_vars
  BY AdminSteps, UnregisterLeaves DEF AdminInv
<1> QED BY <1>1, AdminInvariant, PTL DEF AdminSpec, UnregisterLeavesNothing

\* Units pwshpy did not write are never written or deleted, nor, by register and
\* unregister, stopped or disabled.
THEOREM ForeignUnitsStayAlways == AdminSpec => ForeignUnitsStay
<1>1. AdminInv /\ [AdminNext]_all =>
        [/\ \A part \in {"svc", "tim"} :
               disk[part].by \in {"foreign", "vendor"} => disk'[part] = disk[part]
         /\ disk.tim.by \in {"foreign", "vendor"} /\ op.name \in {"register", "unregister"}
              /\ plan' # plan /\ reboots' = reboots
              => armed' = armed /\ disk'.link = disk.link]_vars
  BY AdminSteps, ForeignStay DEF AdminInv
<1> QED BY <1>1, AdminInvariant, PTL DEF AdminSpec, ForeignUnitsStay

\* A task that was disabled or unregistered does not run on its schedule any more,
\* however often the machine boots, until it is enabled or registered again.
THEOREM QuietStaysQuietAlways == AdminSpec => []QuietStaysQuiet
<1>1. AdminInv => QuietStaysQuiet
  BY DEF AdminInv, TasksInv, WorldInv, QuietStaysQuiet
<1> QED BY <1>1, AdminInvariant, PTL

\* A reader's answer was true at some moment of its call, whatever the controller
\* did between its questions.
THEOREM ReadsTellTheTruthAlways == AdminSpec => []ReadsTellTheTruth
<1>1. AdminInv => ReadsTellTheTruth
  BY DEF AdminInv, LookInv
<1> QED BY <1>1, AdminInvariant, PTL

-----------------------------------------------------------------------------
(* What is proved of services and accounts.                                *)

\* For any services: with nobody else acting on the unit, a verb that returns did
\* what it says.
THEOREM VerbWasDoneAlways == AdminSpec => []VerbWasDone
<1>1. AdminInv => VerbWasDone
  <2> SUFFICES ASSUME S!ServicesInv PROVE S!VerbWasDone
    BY DEF AdminInv, VerbWasDone
  <2> QED BY DEF S!ServicesInv, S!TypeOK, S!JobInv, S!Waits, S!VerbWasDone, S!Ok
<1> QED BY <1>1, AdminInvariant, PTL

\* For any services: a listing that ends has every one that was there throughout,
\* and none twice.
THEOREM ListsEveryServiceAlways == AdminSpec => []ListsEveryService
<1>1. AdminInv => ListsEveryService
  <2> SUFFICES ASSUME S!ServicesInv PROVE S!ListsEveryService /\ S!ListsOnce
    BY DEF AdminInv, ListsEveryService
  <2> QED BY DEF S!ServicesInv, S!ListInv, S!ListsOnce
<1> QED BY <1>1, AdminInvariant, PTL

\* An account that was to be disabled is never left open to its password unless the
\* error says that it was not locked.
THEOREM NeverOpenUnsaidAlways == AdminSpec => []NeverOpenUnsaid
<1>1. AdminInv => NeverOpenUnsaid
  BY DEF AdminInv, NeverOpenUnsaid, A!AccountsInv
<1> QED BY <1>1, AdminInvariant, PTL

\* What is said of a half-made account, and of one a verb returned, is so.
THEOREM ReportIsTrueAlways == AdminSpec => []ReportIsTrue
<1>1. AdminInv => ReportIsTrue
  BY DEF AdminInv, ReportIsTrue, A!AccountsInv
<1> QED BY <1>1, AdminInvariant, PTL

\* A request is carried out or refused, never carried out in part, on Windows
\* and on Linux: what _apply_settings and the unit files say of it does, by
\* both platforms' defaults, what was asked, and what they cannot say is
\* refused by the checks before the first write.
THEOREM GetsWhatItAskedAlways == AdminSpec => []GetsWhatItAsked
<1>1. AdminInv => GetsWhatItAsked
  BY AskedIsGiven DEF AdminInv, GetsWhatItAsked
<1> QED BY <1>1, AdminInvariant, PTL

\* However many edits fall between the reads of its properties, and whichever
\* of them are not answered: a field of the record is unknown or was so.
THEOREM ReadBackIsTrueAlways == AdminSpec => []ReadBackIsTrue
<1>1. AdminInv => ReadBackIsTrue
  BY DEF AdminInv, ReadBackIsTrue, F!FieldsInv
<1> QED BY <1>1, AdminInvariant, PTL
=============================================================================
