-------------------------- MODULE SystemdServices ---------------------------
(***************************************************************************)
(* Services on Linux (systemd_services.py over systemd_dbus.py): one       *)
(* client starts, stops or restarts a unit, changes whether it is enabled, *)
(* or lists every service.  Each read is a D-Bus call of its own, and      *)
(* between two of them systemd runs jobs, units die and unload, files come *)
(* and go, and another client queues jobs for the same unit.               *)
(***************************************************************************)
EXTENDS Naturals, FiniteSets

CONSTANT Units         \* service names

VARIABLES
    active, job,             \* per unit: ActiveState, pending job
    load,                    \* per unit: the LoadState systemd holds it with
    file,                    \* per unit: UnitFileState of its file, "none" without one
    pc, op, unit,            \* the client's call
    result, report,          \* what it returned or raised, the ActiveState in it
    outcome,                 \* ghost: how its job ended
    wasDown, renewed,        \* ghosts: the unit was down, was started since
    meddled,                 \* ghost: somebody else acted on the unit
    todo, seen, listed,      \* iter_services: entries to come, names done, names yielded
    steady                   \* ghost: files the whole listing found in place

systemd == <<active, job, load, file>>
told == <<result, report>>
ghosts == <<outcome, wasDown, renewed, meddled, steady>>
listing == <<todo, seen, listed>>
vars == <<systemd, pc, op, unit, told, ghosts, listing>>

ActiveStates == {"inactive", "activating", "active", "deactivating", "failed"}
Stopped == {"inactive", "failed"}
Verbs == {"start", "stop", "stop-nowait", "restart"}
LoadStates == {"unloaded", "loaded", "not-found", "masked"}
Unlisted == {"masked", "alias"}
Present == {"enabled", "disabled"}
Results == {"none", "ok", "failed", "refused", "timeout"}

TypeOK ==
    /\ active \in [Units -> ActiveStates]
    /\ job \in [Units -> {"none", "start", "stop", "restart"}]
    /\ load \in [Units -> LoadStates]
    /\ file \in [Units -> {"none"} \cup Present \cup Unlisted]
    /\ unit \in Units /\ op \in Verbs \cup {"none", "enable", "disable", "list", "list-strict"}
    /\ result \in Results /\ report \in {"none"} \cup ActiveStates
    /\ outcome \in {"none", "done", "undone", "failed"}
    /\ wasDown \in BOOLEAN /\ renewed \in BOOLEAN /\ meddled \in BOOLEAN
    /\ todo \subseteq Units /\ seen \subseteq Units /\ listed \subseteq Units
    /\ steady \subseteq Units
    /\ pc \in {"idle", "poll", "state", "wait", "check", "reload", "read", "units", "files", "done"}

Init ==
    /\ active \in [Units -> {"inactive", "active"}]
    /\ job = [u \in Units |-> "none"]
    /\ load \in [Units -> LoadStates]
    /\ \A u \in Units : active[u] = "active" => load[u] # "unloaded"
    /\ file \in [Units -> {"none", "enabled", "masked"}]
    /\ pc = "idle" /\ op = "none" /\ unit \in Units /\ result = "none" /\ report = "none"
    /\ outcome = "none" /\ wasDown = FALSE /\ renewed = FALSE /\ meddled = FALSE /\ steady = {}
    /\ todo = {} /\ seen = {} /\ listed = {}

-----------------------------------------------------------------------------
(* systemd, the units and other clients. *)

Client == <<pc, op, unit, told, listing>>

\* What LoadUnit answers of a unit: the state it is held with, or what its file
\* says.  A name known as not-found may be loaded again or not (systemd does it
\* from 246 on); anything else stays until a daemon-reload.
FromFile(u) == CASE file[u] = "none" -> "not-found" [] file[u] = "masked" -> "masked" [] OTHER -> "loaded"

LoadUnit(u, answer) ==
    /\ answer \in CASE load[u] = "unloaded" -> {FromFile(u)}
                    [] load[u] = "not-found" -> {"not-found", FromFile(u)}
                    [] OTHER -> {load[u]}
    /\ load' = [load EXCEPT ![u] = IF @ = "unloaded" /\ answer = "not-found" THEN @ ELSE answer]

\* What a job can be queued for: what is loaded is started, what is there is stopped.
Accepts(u, j, answer) ==
    answer = "loaded" \/ (j = "stop" /\ (answer = "masked" \/ active[u] # "inactive"))

DaemonReload == load' = [u \in Units |-> IF load[u] = "unloaded" THEN "unloaded" ELSE FromFile(u)]

\* A job of u moves it to a state; it is over, or goes on as another.  How the
\* client's own job ended is how the first one did that ended since its call.
JobStep(u, state, next, how) ==
    /\ active' = [active EXCEPT ![u] = state]
    /\ job' = [job EXCEPT ![u] = next]
    /\ outcome' = IF u = unit /\ next = "none" /\ outcome = "none" THEN how ELSE outcome
    /\ wasDown' = (wasDown \/ (u = unit /\ state \in Stopped))
    /\ UNCHANGED <<load, file, Client, meddled, steady>>

\* A start is done with the unit running, or a oneshot's work done, or a
\* condition not met; it failed with the unit failed; and it is undone where a
\* dependency or an assertion kept the unit from starting, or Restart= will try
\* it again.
StartJob(u) ==
    /\ job[u] = "start"
    /\ \/ /\ active[u] \in Stopped
          /\ JobStep(u, "activating", "start", "none") /\ renewed' = (renewed \/ u = unit)
       \/ /\ \/ /\ active[u] = "deactivating"
                /\ \E s \in Stopped : JobStep(u, s, "start", "none")
             \/ active[u] \in Stopped /\ \E how \in {"done", "undone"} : JobStep(u, active[u], "none", how)
             \/ active[u] \in {"active", "activating"} /\ JobStep(u, "active", "none", "done")
             \/ active[u] = "activating" /\ JobStep(u, "inactive", "none", "done")
             \/ active[u] = "activating" /\ JobStep(u, "failed", "none", "failed")
             \/ active[u] = "activating" /\ JobStep(u, "activating", "none", "undone")
          /\ UNCHANGED renewed

StopJob(u) ==
    /\ job[u] \in {"stop", "restart"}
    /\ \/ active[u] \in {"active", "activating"} /\ JobStep(u, "deactivating", job[u], "none")
       \/ /\ active[u] \in Stopped \cup {"deactivating"}
          /\ \E s \in Stopped : JobStep(u, s, IF job[u] = "stop" THEN "none" ELSE "start", "done")
    /\ UNCHANGED renewed

\* With Restart= a unit that died waits to be started again.
Dies(u) ==
    /\ active[u] = "active" /\ job[u] = "none"
    /\ \E s \in Stopped \cup {"activating"} : active' = [active EXCEPT ![u] = s]
    /\ wasDown' = (wasDown \/ u = unit)
    /\ UNCHANGED <<job, load, file, Client, outcome, renewed, meddled, steady>>

\* It is, or has been too often.
AutoRestart(u) ==
    /\ active[u] = "activating" /\ job[u] = "none"
    /\ \/ job' = [job EXCEPT ![u] = "start"] /\ renewed' = (renewed \/ u = unit) /\ UNCHANGED active
       \/ active' = [active EXCEPT ![u] = "failed"] /\ UNCHANGED <<job, renewed>>
    /\ UNCHANGED <<load, file, Client, outcome, wasDown, meddled, steady>>

\* Another client's job replaces the one that is queued.
OtherJob(u) ==
    /\ \E j \in {"start", "stop"}, l \in LoadStates :
        LoadUnit(u, l) /\ Accepts(u, j, l) /\ job' = [job EXCEPT ![u] = j]
    /\ meddled' = (meddled \/ u = unit)
    /\ UNCHANGED <<active, file, Client, outcome, wasDown, renewed, steady>>

\* A unit that names u is loaded: u is, or is kept as not found.
Refers(u) ==
    /\ load[u] \in {"unloaded", "not-found"}
    /\ load' = [load EXCEPT ![u] = FromFile(u)]
    /\ UNCHANGED <<active, job, file, Client, ghosts>>

Unload(u) ==
    /\ load[u] # "unloaded" /\ active[u] = "inactive" /\ job[u] = "none"
    /\ load' = [load EXCEPT ![u] = "unloaded"]
    /\ UNCHANGED <<active, job, file, Client, ghosts>>

OtherReload == DaemonReload /\ UNCHANGED <<active, job, file, Client, ghosts>>

EditFile(u) ==
    /\ \E f \in {"none", "disabled", "masked", "alias"} \ {file[u]} : file' = [file EXCEPT ![u] = f]
    /\ steady' = steady \ {u}
    /\ UNCHANGED <<active, job, load, Client, outcome, wasDown, renewed, meddled>>

-----------------------------------------------------------------------------
(* The client. *)

End(r) == pc' = "done" /\ result' = r /\ UNCHANGED report

Begin(u, o) == pc = "idle" /\ unit' = u /\ op' = o

\* StartUnit, StopUnit or RestartUnit, mode "replace".
Request(u, v) ==
    /\ Begin(u, v)
    /\ LET j == IF v = "stop-nowait" THEN "stop" ELSE v IN
        /\ \E l \in LoadStates : LoadUnit(u, l) /\ Accepts(u, j, l)
        /\ job' = [job EXCEPT ![u] = j]
    /\ outcome' = "none" /\ meddled' = FALSE /\ wasDown' = (active[u] \in Stopped) /\ renewed' = FALSE
    /\ pc' = IF v = "stop-nowait" THEN "read" ELSE "poll"
    /\ UNCHANGED <<active, file, told, listing, steady>>

\* EnableUnitFiles or DisableUnitFiles, then Reload, then the read-back.
SetStartup(u, o) ==
    /\ Begin(u, o) /\ file[u] \in Present
    /\ file' = [file EXCEPT ![u] = IF o = "enable" THEN "enabled" ELSE "disabled"]
    /\ pc' = "reload"
    /\ UNCHANGED <<active, job, load, told, listing, ghosts>>

RefusedAtOnce(u) ==
    /\ \E v \in Verbs \cup {"enable", "disable"} : Begin(u, v)
    /\ End("refused")
    /\ UNCHANGED <<systemd, listing, ghosts>>

Reload ==
    /\ pc = "reload" /\ pc' = "read"
    /\ DaemonReload
    /\ UNCHANGED <<active, job, file, op, unit, told, listing, ghosts>>

Goto(p) == pc' = p /\ UNCHANGED told

\* has_pending_job: a unit that is not loaded has none.
Poll ==
    /\ pc = "poll"
    /\ Goto(CASE job[unit] # "none" -> IF op = "stop" THEN "state" ELSE "wait"
              [] OTHER -> IF op = "stop" THEN "read" ELSE "check")
    /\ UNCHANGED <<systemd, op, unit, listing, ghosts>>

\* A stop also settles at inactive or failed, whatever job is pending.
PollState ==
    /\ pc = "state"
    /\ Goto(IF active[unit] \in Stopped THEN "read" ELSE "wait")
    /\ UNCHANGED <<systemd, op, unit, listing, ghosts>>

Wait ==
    /\ pc = "wait"
    /\ Goto("poll") \/ End("timeout")
    /\ UNCHANGED <<systemd, op, unit, listing, ghosts>>

\* A job that is over is one that succeeded.
CheckNothing ==
    /\ pc = "check"
    /\ Goto("read")
    /\ UNCHANGED <<systemd, op, unit, listing, ghosts>>

\* _refuse_a_failed_unit.
CheckFailed ==
    /\ pc = "check"
    /\ IF active[unit] = "failed" THEN End("failed") ELSE Goto("read")
    /\ UNCHANGED <<systemd, op, unit, listing, ghosts>>

\* _get_one loads the unit to read it, and reads one that has no file any more
\* all the same.
ReadBack ==
    /\ pc = "read"
    /\ \E l \in LoadStates : LoadUnit(unit, l)
    /\ pc' = "done" /\ result' = "ok" /\ report' = active[unit]
    /\ UNCHANGED <<active, job, file, op, unit, listing, ghosts>>

\* A read systemd refuses raises; it is never taken for "no job" or inactive.
ReadFails ==
    /\ pc \in {"poll", "state", "check", "reload", "read"}
    /\ End("refused")
    /\ UNCHANGED <<systemd, op, unit, listing, ghosts>>

\* The caller has the answer.
Forget ==
    /\ pc = "done"
    /\ pc' = "idle" /\ op' = "none" /\ result' = "none" /\ report' = "none"
    /\ outcome' = "none" /\ wasDown' = FALSE /\ renewed' = FALSE /\ meddled' = FALSE /\ steady' = {}
    /\ todo' = {} /\ seen' = {} /\ listed' = {}
    /\ UNCHANGED <<systemd, unit>>

-----------------------------------------------------------------------------
(* iter_services. *)

\* is_unlisted_unit: held as not found or masked, and not running.
IsUnlisted(u) == load[u] \in {"not-found", "masked"} /\ active[u] \in Stopped

Held == {u \in Units : load[u] # "unloaded"}

\* A skipped entry hides its name.
ListUnitsMarkingSeen(o) ==
    /\ Begin(unit, o)
    /\ todo' = {u \in Held : ~IsUnlisted(u)}
    /\ seen' = {u \in Held : IsUnlisted(u)}
    /\ steady' = {u \in Units : file[u] \in Present}
    /\ pc' = "units"
    /\ UNCHANGED <<systemd, told, listed, outcome, wasDown, renewed, meddled>>

\* A skipped entry is not marked seen: its name is left to the unit files.
ListUnits(o) ==
    /\ Begin(unit, o)
    /\ todo' = {u \in Held : ~IsUnlisted(u)}
    /\ steady' = {u \in Units : file[u] \in Present}
    /\ pc' = "units"
    /\ UNCHANGED <<systemd, told, seen, listed, outcome, wasDown, renewed, meddled>>

\* A read that systemd refuses: the service is skipped, or strict raises.
Skip(lost) ==
    IF op = "list-strict" THEN End("refused") /\ UNCHANGED <<todo, seen, listed, steady>>
    ELSE /\ Goto(pc)
         /\ todo' = todo \ lost /\ seen' = seen \cup lost /\ steady' = steady \ lost
         /\ UNCHANGED listed

ListUnit(u) ==
    /\ pc = "units" /\ u \in todo
    /\ \/ /\ todo' = todo \ {u} /\ seen' = seen \cup {u} /\ listed' = listed \cup {u}
          /\ Goto(pc) /\ UNCHANGED steady
       \/ Skip({u})
    /\ UNCHANGED <<systemd, op, unit, outcome, wasDown, renewed, meddled>>

\* The unit files, whose states are read from the disk.
ListFiles ==
    /\ pc = "units" /\ todo = {}
    /\ \/ /\ Goto("files")
          /\ todo' = {u \in Units : file[u] # "none" /\ file[u] \notin Unlisted /\ u \notin seen}
          /\ UNCHANGED <<seen, listed, steady>>
       \/ op = "list" /\ End("ok") /\ steady' = {} /\ UNCHANGED listing
       \/ op = "list-strict" /\ End("refused") /\ UNCHANGED <<listing, steady>>
    /\ UNCHANGED <<systemd, op, unit, outcome, wasDown, renewed, meddled>>

\* What LoadUnit answers as not-found is no service: its file is gone by now,
\* or systemd keeps to what it knew of the name.
ListFile(u) ==
    /\ pc = "files" /\ u \in todo
    /\ \/ \E l \in LoadStates :
            /\ LoadUnit(u, l)
            /\ todo' = todo \ {u} /\ seen' = seen \cup {u}
            /\ IF l = "not-found" THEN steady' = steady \ {u} /\ UNCHANGED listed
               ELSE listed' = listed \cup {u} /\ UNCHANGED steady
            /\ Goto(pc)
       \/ Skip({u}) /\ UNCHANGED load
    /\ UNCHANGED <<active, job, file, op, unit, outcome, wasDown, renewed, meddled>>

ListEnds ==
    /\ pc = "files" /\ todo = {} /\ End("ok")
    /\ UNCHANGED <<systemd, op, unit, listing, ghosts>>

ClientStep ==
    \/ Reload \/ Poll \/ PollState \/ Wait \/ CheckFailed \/ ReadBack \/ ReadFails \/ Forget
    \/ ListFiles \/ ListEnds
    \/ \E u \in Units : ListUnit(u) \/ ListFile(u)

Start ==
    \/ \E u \in Units, v \in Verbs : Request(u, v)
    \/ \E u \in Units, o \in {"enable", "disable"} : SetStartup(u, o)
    \/ \E u \in Units : RefusedAtOnce(u)
    \/ \E o \in {"list", "list-strict"} : ListUnits(o)

Systemd ==
    \/ OtherReload
    \/ \E u \in Units :
        \/ StartJob(u) \/ StopJob(u) \/ Dies(u) \/ AutoRestart(u)
        \/ OtherJob(u) \/ Refers(u) \/ Unload(u) \/ EditFile(u)

Next == ClientStep \/ Start \/ Systemd

Spec == Init /\ [][Next]_vars

-----------------------------------------------------------------------------

Ok(ops) == pc = "done" /\ result = "ok" /\ op \in ops

\* With nobody else acting on the unit, a verb that returns waited for its own
\* job.  A start or a restart returns when that job has ended, never when it left
\* the unit failed; where a dependency, an assertion or a condition kept the unit
\* from starting it is not told as running, by a restart as inactive; and the
\* unit was down at some point of a stop.
VerbWasDone ==
    ~meddled =>
        /\ Ok({"start", "restart"}) => outcome \in {"done", "undone"}
        /\ Ok({"start"}) => outcome = "done" \/ renewed \/ report # "active"
        /\ Ok({"restart"}) => renewed \/ report = "inactive"
        /\ Ok({"stop"}) => wasDown

\* A listing that ends has every service whose file was in place throughout and
\* whose reads were answered, but not with not-found, whatever was loaded or
\* unloaded meanwhile and whatever systemd knew of its name before.
ListsEveryService == Ok({"list", "list-strict"}) => steady \subseteq listed

\* No service is listed twice: what is still to come was not yielded.
ListsOnce == pc \in {"units", "files"} => todo \cap listed = {}

-----------------------------------------------------------------------------
(* The inductive invariant of the proofs.                                  *)

Lists == {"list", "list-strict"}

\* What a client's step belongs to.
CallInv ==
    /\ pc = "idle" => op = "none"
    /\ pc \in {"poll", "state", "wait", "check"} => op \in {"start", "stop", "restart"}
    /\ pc = "state" => op = "stop"
    /\ pc = "check" => op \in {"start", "restart"}
    /\ pc = "reload" => op \in {"enable", "disable"}
    /\ pc = "read" => op \in Verbs \cup {"enable", "disable"}
    /\ pc \in {"units", "files"} => op \in Lists

\* The job waited for is the unit's last, while nobody else acts on the unit: it is
\* there, or over with its outcome still to be seen.
Waits == pc \in {"poll", "state", "wait", "check", "read"} \/ (pc = "done" /\ result = "ok")

JobInv ==
    ~meddled =>
        /\ Waits /\ op \in {"start", "restart"} =>
            /\ job[unit] = "none" => outcome # "none"
            /\ outcome = "failed" => job[unit] = "none" /\ active[unit] = "failed"
            /\ pc \in {"check", "read", "done"} => outcome # "none"
            /\ pc \in {"read", "done"} => outcome # "failed"
        /\ Waits /\ op = "start" =>
            /\ job[unit] \in {"none", "start"}
            /\ \/ outcome \in {"none", "done"} \/ renewed
               \/ /\ job[unit] = "none" /\ active[unit] \in Stopped \cup {"activating"}
                  /\ pc = "done" => report # "active"
        /\ Waits /\ op = "restart" =>
            \/ renewed
            \/ outcome = "none" /\ job[unit] = "restart"
            \/ outcome = "none" /\ job[unit] = "start" /\ active[unit] \in Stopped
            \/ /\ job[unit] = "none" /\ active[unit] \in Stopped
               /\ pc \in {"read", "done"} => active[unit] = "inactive"
               /\ pc = "done" => report = "inactive"
        /\ Waits /\ op = "stop" =>
            /\ active[unit] \in Stopped => wasDown
            /\ job[unit] = "stop" \/ (job[unit] = "none" /\ wasDown /\ active[unit] \in Stopped)
            /\ pc \in {"read", "done"} => wasDown

\* What a listing has done: a service whose file was there all the time is yielded,
\* or still to come, or the second pass is.
ListInv ==
    /\ pc \notin {"units", "files", "done"} => todo = {} /\ seen = {} /\ listed = {} /\ steady = {}
    /\ listed \subseteq seen
    /\ pc \in {"units", "files"} =>
        /\ todo \cap seen = {}
        /\ \A u \in steady : file[u] \in Present
        /\ steady \cap seen \subseteq listed
    /\ pc = "files" => steady \subseteq todo \cup listed

ServicesInv == TypeOK /\ CallInv /\ JobInv /\ ListInv /\ ListsEveryService
=============================================================================
