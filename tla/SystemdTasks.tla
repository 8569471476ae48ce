---------------------------- MODULE SystemdTasks ----------------------------
(***************************************************************************)
(* SystemdScheduledTaskController: a scheduled task as a .service and a    *)
(* .timer unit file below /etc/systemd/system.  Every operation is a       *)
(* sequence of file writes and calls to systemd, any of which can fail and *)
(* leave what the earlier ones did; the machine may reboot between any     *)
(* two, and an armed timer fires when it likes.  What systemd runs by is   *)
(* what it has loaded, not what is on disk.                                *)
(***************************************************************************)
EXTENDS Naturals, Sequences

CONSTANTS
    MaxRegistrations,   \* bound: calls of register
    MaxReboots,         \* bound: reboots
    MayFail,            \* the steps that may fail
    TornWrites          \* a failing write leaves a truncated file

Steps == {"stoptimer", "disable", "rmtimer", "writesvc", "writetimer", "reload",
          "enable", "starttimer", "stopsvc", "rmsvc", "startsvc"}

ASSUME TasksAssumption ==
    /\ MaxRegistrations \in Nat /\ MaxReboots \in Nat
    /\ MayFail \subseteq Steps
    /\ TornWrites \in BOOLEAN

VARIABLES
    disk,           \* the unit files, the timers.target.wants link, and whether
                    \* the timer is static: it has no [Install] section, and
                    \* another unit pulls it in
    mem,            \* what systemd has loaded of them
    armed,          \* the timer: "no", or active since "boot" or "started"
    running,        \* the service: "no", "yes" or "stopping"
    op,             \* the operation under way and how the last one ended
    plan,           \* its steps still to do
    regs,           \* registrations so far
    reboots,
    quiet           \* disabled or unregistered, and not enabled since

vars == <<disk, mem, armed, running, op, plan, regs, reboots, quiet>>
world == <<disk, mem, armed, running>>

\* A unit file: who wrote it, which triggers it has, which registration it is
\* of.  "vendor": none below /etc, but systemd has the unit from elsewhere;
\* "torn": no ownership key in it.
Triggers == {"demand", "calendar", "boot"}
Unit(by, trig, v) == [by |-> by, trig |-> trig, v |-> v]
None == Unit("none", "demand", 0)
Units == [by : {"none", "pwshpy", "foreign", "vendor", "torn"}, trig : Triggers,
          v : 0..MaxRegistrations]

Owned(u)   == u.by = "pwshpy"
\* A file of somebody else, or one whose ownership cannot be read.
Strange(u) == u.by \in {"foreign", "torn"}
IsThere(u) == u.by # "none"

\* EnableUnitFiles adds a link only where an [Install] section asks for one; in a
\* torn file there is none.
Installs(d) == ~d.static /\ d.tim.by # "torn"

\* What GetUnitFileState calls static: no [Install] section, and no link.
StaticTimer == ~Installs(disk) /\ ~disk.link

\* What systemd goes by: a unit it does not have yet is read when it is used.
Loaded(part) == IF IsThere(mem[part]) THEN mem[part] ELSE disk[part]

Init ==
    /\ disk \in [svc : {None} \cup {Unit(b, "demand", 0) : b \in {"pwshpy", "foreign", "vendor"}},
                 tim : {None} \cup {Unit(b, t, 0) : b \in {"pwshpy", "foreign", "vendor"},
                                                    t \in {"calendar", "boot"}},
                 link : BOOLEAN, static : BOOLEAN]
    /\ disk.link => IsThere(disk.tim)
    /\ disk.static => disk.tim.by \in {"foreign", "vendor"} /\ ~disk.link
    /\ IsThere(disk.tim) => IsThere(disk.svc)
    /\ mem = disk
    /\ armed = IF disk.link THEN "boot" ELSE "no"
    /\ running = "no"
    /\ op = [name |-> "idle", trig |-> "demand", end |-> "none"]
    /\ plan = <<>> /\ regs = 0 /\ reboots = 0 /\ quiet = FALSE

-----------------------------------------------------------------------------
(* systemd (external)                                                      *)

\* An armed timer elapses.
Fire ==
    /\ armed # "no" /\ running = "no" /\ IsThere(Loaded("svc"))
    /\ running' = "yes"
    /\ UNCHANGED <<disk, mem, armed, op, plan, regs, reboots, quiet>>

ServiceEnds ==
    /\ running # "no"
    /\ running' = "no"
    /\ UNCHANGED <<disk, mem, armed, op, plan, regs, reboots, quiet>>

\* The unit that wants a static timer starts: at boot, or at any time.
PullIn ==
    /\ disk.static /\ armed = "no"
    /\ armed' = "boot"
    /\ UNCHANGED <<disk, mem, running, op, plan, regs, reboots, quiet>>

\* An inactive unit is unloaded, so that the next use reads it again.
Unload ==
    /\ \/ armed = "no" /\ mem' = [mem EXCEPT !.tim = disk.tim]
       \/ running = "no" /\ mem' = [mem EXCEPT !.svc = disk.svc]
    /\ UNCHANGED <<disk, armed, running, op, plan, regs, reboots, quiet>>

\* The machine goes down, in the middle of an operation or not.
Reboot ==
    /\ reboots < MaxReboots
    /\ reboots' = reboots + 1
    /\ mem' = disk
    /\ armed' = IF disk.link /\ disk.tim.by # "torn" THEN "boot" ELSE "no"
    /\ running' = "no"
    /\ op' = [op EXCEPT !.end = IF plan = <<>> THEN @ ELSE "raised"]
    /\ plan' = <<>>
    /\ UNCHANGED <<disk, regs, quiet>>

-----------------------------------------------------------------------------
(* The steps: a write, an unlink or a call to systemd.                     *)

Effect(s) ==
    /\ disk' = CASE s = "writesvc"   -> [disk EXCEPT !.svc = Unit("pwshpy", "demand", regs)]
                 [] s = "writetimer" -> [disk EXCEPT !.tim = Unit("pwshpy", op.trig, regs)]
                 [] s = "rmsvc"      -> [disk EXCEPT !.svc = None]
                 [] s = "rmtimer"    -> [disk EXCEPT !.tim = None]
                 [] s = "enable"     -> [disk EXCEPT !.link = @ \/ Installs(disk)]
                 [] s = "disable"    -> [disk EXCEPT !.link = FALSE]
                 [] OTHER            -> disk
    /\ mem' = IF s = "reload" THEN disk ELSE mem
    /\ armed' = CASE s = "starttimer" -> IF armed = "no" THEN "started" ELSE armed
                  [] s = "stoptimer"  -> "no"
                  [] OTHER            -> armed
    /\ running' = CASE s = "startsvc" -> "yes"
                    [] s = "stopsvc"  -> IF running = "yes" THEN "stopping" ELSE running
                    [] OTHER          -> running

\* What disable and unregister achieve, once their last step is done.
Quiets == \/ op.name = "disable"
          \/ op.name = "unregister" /\ disk.tim.by \in {"none", "pwshpy"}

DoStep ==
    /\ plan # <<>>
    /\ Effect(Head(plan))
    /\ plan' = Tail(plan)
    /\ op' = [op EXCEPT !.end = IF Tail(plan) = <<>> THEN "done" ELSE @]
    /\ quiet' = (quiet \/ (Tail(plan) = <<>> /\ Quiets))
    /\ UNCHANGED <<regs, reboots>>

\* The step raises, or the process is killed before it: the rest is not done.
\* A write that fails has truncated the file already.
FailStep ==
    /\ plan # <<>>
    /\ Head(plan) \in MayFail
    /\ disk' = IF ~TornWrites THEN disk
               ELSE CASE Head(plan) = "writesvc" -> [disk EXCEPT !.svc.by = "torn"]
                      [] Head(plan) = "writetimer" -> [disk EXCEPT !.tim.by = "torn"]
                      [] OTHER -> disk
    /\ plan' = <<>>
    /\ op' = [op EXCEPT !.end = "raised"]
    /\ UNCHANGED <<mem, armed, running, regs, reboots, quiet>>

-----------------------------------------------------------------------------
(* The operations: their checks, and the steps that follow.                *)

Begin(name, trig, steps) ==
    /\ plan = <<>>
    /\ plan' = steps
    /\ op' = [name |-> name, trig |-> trig, end |-> "none"]
    /\ quiet' = (quiet /\ name \in {"run", "stop", "disable", "unregister"})
    /\ UNCHANGED <<world, reboots>>

Refuse(name) ==
    /\ plan = <<>>
    /\ op' = [name |-> name, trig |-> "demand", end |-> "refused"]
    /\ UNCHANGED <<world, plan, regs, reboots, quiet>>

When(cond, steps) == IF cond THEN steps ELSE <<>>

\* A timer that is kept is not stopped.
RetireTimerUnstopped(remove) == When(remove, <<"stoptimer", "disable", "rmtimer">>)

\* _retire_timer
RetireTimer(remove) == <<"stoptimer">> \o When(remove, <<"disable", "rmtimer">>)

\* No check of the units that have no file below /etc.
FreeOrOwnedFileOnly(part) == ~Strange(disk[part])

\* _require_free_or_owned
FreeOrOwned(part) ==
    Owned(disk[part]) \/ (~Strange(disk[part]) /\ ~IsThere(Loaded(part)))

RegisterSteps(trig) ==
    When(Owned(disk.tim), RetireTimer(trig = "demand"))
    \o <<"writesvc">> \o When(trig # "demand", <<"writetimer">>) \o <<"reload">>
    \o When(trig # "demand", <<"enable", "reload">>) \o When(trig = "calendar", <<"starttimer">>)

Register(trig) ==
    /\ regs < MaxRegistrations
    /\ FreeOrOwned("svc") /\ FreeOrOwned("tim")
    /\ regs' = regs + 1
    /\ Begin("register", trig, RegisterSteps(trig))

RegisterRefused ==
    /\ ~(FreeOrOwned("svc") /\ FreeOrOwned("tim"))
    /\ Refuse("register")

\* The service is stopped while its timer can still start it.
UnregisterStepsServiceFirst ==
    When(Owned(disk.svc), <<"stopsvc", "rmsvc">>)
    \o When(Owned(disk.tim), RetireTimer(TRUE)) \o <<"reload">>

UnregisterSteps ==
    When(Owned(disk.tim), RetireTimer(TRUE))
    \o When(Owned(disk.svc), <<"stopsvc", "rmsvc">>) \o <<"reload">>

Unregister ==
    /\ ~Strange(disk.svc) /\ ~Strange(disk.tim)
    /\ Owned(disk.svc) \/ Owned(disk.tim)
    /\ Begin("unregister", "demand", UnregisterSteps)
    /\ UNCHANGED regs

UnregisterRefused ==
    /\ \/ Strange(disk.svc) \/ Strange(disk.tim)
       \/ ~Owned(disk.svc) /\ ~Owned(disk.tim)
    /\ Refuse("unregister")

\* Whether the timer may be started is read from the unit systemd has loaded.
Enable ==
    /\ IsThere(disk.tim) /\ ~StaticTimer
    /\ Begin("enable", "demand",
             <<"enable", "reload">>
             \o When(Loaded("tim").trig = "calendar", <<"starttimer">>))
    /\ UNCHANGED regs

\* A static timer is stopped like any other, and nothing is said.
DisableAnyTimer ==
    /\ IsThere(disk.tim)
    /\ Begin("disable", "demand", <<"stoptimer", "disable", "reload">>)
    /\ UNCHANGED regs

\* Of a torn file nothing may be left, which is no static timer but a masked one.
Disable ==
    /\ IsThere(disk.tim) /\ ~disk.static
    /\ Begin("disable", "demand", <<"stoptimer", "disable", "reload">>)
    /\ UNCHANGED regs

\* _require_timer: the task is on demand, or its timer is static, so that there
\* is nothing to enable or disable.
ScheduleRefused ==
    /\ ~IsThere(disk.tim) \/ StaticTimer
    /\ \E name \in {"enable", "disable"} : Refuse(name)

Run ==
    /\ IsThere(Loaded("svc"))
    /\ Begin("run", "demand", <<"startsvc">>)
    /\ UNCHANGED regs

Stop ==
    /\ IsThere(Loaded("svc"))
    /\ Begin("stop", "demand", <<"stopsvc">>)
    /\ UNCHANGED regs

\* StartUnit and StopUnit of a service systemd does not know: NoSuchUnit.
RunRefused ==
    /\ ~IsThere(Loaded("svc"))
    /\ \E name \in {"run", "stop"} : Refuse(name)

Operation ==
    \/ \E trig \in Triggers : Register(trig)
    \/ RegisterRefused \/ Unregister \/ UnregisterRefused
    \/ Enable \/ Disable \/ ScheduleRefused \/ Run \/ Stop \/ RunRefused

Next == Operation \/ DoStep \/ FailStep \/ Fire \/ ServiceEnds \/ PullIn \/ Unload \/ Reboot

Spec == Init /\ [][Next]_vars

-----------------------------------------------------------------------------
\* Types; a link in timers.target.wants always has its timer's unit file.
TypeOK ==
    /\ disk \in [svc : Units, tim : Units, link : BOOLEAN, static : BOOLEAN]
    /\ mem \in [svc : Units, tim : Units, link : BOOLEAN, static : BOOLEAN]
    /\ armed \in {"no", "boot", "started"}
    /\ running \in {"no", "yes", "stopping"}
    /\ plan \in Seq(Steps)
    /\ op \in [name : {"idle", "register", "unregister", "enable", "disable", "run", "stop"},
              trig : Triggers, end : {"none", "done", "raised", "refused"}]
    /\ regs \in 0..MaxRegistrations /\ reboots \in 0..MaxReboots /\ quiet \in BOOLEAN
    /\ disk.link => IsThere(disk.tim)

\* The step that completes the operation.
Completes(name) == op'.name = name /\ op'.end = "done" /\ op.end = "none"

\* However the earlier operations ended, a register that returns has made the
\* task exactly what it was told: new files, loaded by systemd, the timer
\* enabled where there are triggers, armed where it is a calendar's, and not
\* where it waits for the next boot or nothing is scheduled any more.
RegisterMakesTask ==
    [][Completes("register") =>
         /\ disk'.svc = Unit("pwshpy", "demand", regs)
         /\ disk'.tim = IF op.trig = "demand" THEN None ELSE Unit("pwshpy", op.trig, regs)
         /\ disk'.link = (op.trig # "demand")
         /\ mem' = disk'
         /\ (armed' # "no") = (op.trig = "calendar")]_vars

\* An unregister that returns leaves no unit of pwshpy's, on disk or loaded,
\* and nothing running that its timer could have started meanwhile.
UnregisterLeavesNothing ==
    [][Completes("unregister") =>
         /\ ~Owned(disk'.svc) /\ ~Owned(disk'.tim)
         /\ mem' = disk'
         /\ running' = "yes" => "vendor" \in {disk.svc.by, disk.tim.by}]_vars

\* A task that was disabled or unregistered does not run on its schedule any
\* more, reboots and the start of other units included, until it is enabled or
\* registered again: a timer that another unit would start again is not one
\* that disable takes for disabled.
QuietStaysQuiet == quiet => armed = "no"

\* Units pwshpy did not write are never written, deleted or, by register and
\* unregister, stopped or disabled.
ForeignUnitsStay ==
    [][/\ \A part \in {"svc", "tim"} :
            disk[part].by \in {"foreign", "vendor"} => disk'[part] = disk[part]
       /\ disk.tim.by \in {"foreign", "vendor"} /\ op.name \in {"register", "unregister"}
            /\ plan' # plan /\ reboots' = reboots
            => armed' = armed /\ disk'.link = disk.link]_vars

\* What enable's docstring says: a timer with a boot-relative part is enabled
\* but not started, as started now it would run the job at once.
BootTimerNotStarted == armed = "started" => mem.tim.trig # "boot"

-----------------------------------------------------------------------------
(* The inductive invariant of the proofs.                                  *)

StepsIn(p) == {p[i] : i \in 1..Len(p)}
ToDo == StepsIn(plan)
Under(name) == plan # <<>> /\ op.name = name

\* Where in an operation a step comes; systemd reloads at any time.
Rank(s) ==
    CASE s = "stoptimer" -> 1 [] s = "disable" -> 2 [] s = "rmtimer" -> 3
      [] s = "writesvc" -> 4 [] s = "writetimer" -> 5 [] s = "stopsvc" -> 6
      [] s = "rmsvc" -> 7 [] s = "enable" -> 8 [] s = "starttimer" -> 9 [] OTHER -> 10

StepsOf(name, trig) ==
    CASE name = "register" /\ trig = "demand" ->
           {"stoptimer", "disable", "rmtimer", "writesvc", "reload"}
      [] name = "register" /\ trig = "boot" ->
           {"stoptimer", "writesvc", "writetimer", "reload", "enable"}
      [] name = "register" /\ trig = "calendar" ->
           {"stoptimer", "writesvc", "writetimer", "reload", "enable", "starttimer"}
      [] name = "unregister" -> {"stoptimer", "disable", "rmtimer", "stopsvc", "rmsvc", "reload"}
      [] name = "enable" -> {"enable", "reload", "starttimer"}
      [] name = "disable" -> {"stoptimer", "disable", "reload"}
      [] name = "run" -> {"startsvc"}
      [] name = "stop" -> {"stopsvc"}
      [] OTHER -> {}

\* What is left of an operation's steps: each but the reload once, in their order;
\* and what comes last.
InOrder(p) ==
    \A i, j \in 1..Len(p) :
        i < j /\ p[i] # "reload" /\ p[j] # "reload" => Rank(p[i]) < Rank(p[j])

EndsRight(p, name, trig) ==
    /\ name = "unregister" \/ (name = "register" /\ trig # "calendar") => p[Len(p)] = "reload"
    /\ name = "register" /\ trig = "calendar" =>
         /\ p[Len(p)] = "starttimer"
         /\ Len(p) > 1 => p[Len(p) - 1] = "reload"

PlanOf(p, name, trig) ==
    StepsIn(p) \subseteq StepsOf(name, trig) /\ InOrder(p) /\ EndsRight(p, name, trig)

PlanInv == plan # <<>> => op.end = "none" /\ PlanOf(plan, op.name, op.trig)

\* What holds between the operations, however they ended.
WorldInv ==
    /\ \A part \in {"svc", "tim"} : ~IsThere(disk[part]) => disk[part] = None
    /\ armed # "no" => IsThere(disk.tim)
    /\ disk.tim.by \in {"pwshpy", "torn"} => IsThere(disk.svc)
    /\ disk.static => disk.tim.by \in {"foreign", "vendor"}
    /\ quiet => armed = "no" /\ ~disk.link /\ ~disk.static /\ ~Under("register") /\ ~Under("enable")

\* What the steps that are done have done.
RegisterInv ==
    Under("register") =>
        /\ disk.svc.by \in {"none", "pwshpy"} /\ disk.tim.by \in {"none", "pwshpy"}
        /\ "stoptimer" \notin ToDo => armed = "no"
        /\ "writesvc" \notin ToDo => disk.svc = Unit("pwshpy", "demand", regs)
        /\ op.trig = "demand" =>
            /\ "disable" \notin ToDo => ~disk.link
            /\ "rmtimer" \notin ToDo => disk.tim = None
        /\ op.trig # "demand" =>
            /\ "writetimer" \notin ToDo => disk.tim = Unit("pwshpy", op.trig, regs)
            /\ "enable" \notin ToDo => disk.link
        /\ ToDo = {"starttimer"} => mem = disk

UnregisterInv ==
    Under("unregister") =>
        /\ disk.svc.by \in {"none", "pwshpy", "vendor"}
        /\ disk.tim.by \in {"none", "pwshpy", "vendor"}
        /\ {"stoptimer", "disable", "rmtimer"} \cap ToDo # {} => Owned(disk.tim)
        /\ "rmsvc" \in ToDo => Owned(disk.svc)
        /\ Owned(disk.tim) => "rmtimer" \in ToDo
        /\ Owned(disk.svc) => "rmsvc" \in ToDo
        /\ "stoptimer" \notin ToDo /\ disk.tim.by # "vendor" => armed = "no"
        /\ "disable" \notin ToDo /\ disk.tim.by # "vendor" => ~disk.link
        /\ "stopsvc" \notin ToDo /\ "vendor" \notin {disk.svc.by, disk.tim.by} =>
             running # "yes" /\ armed = "no"

EnablingInv ==
    /\ Under("enable") => IsThere(disk.tim)
    /\ Under("disable") =>
        /\ ~disk.static
        /\ "stoptimer" \notin ToDo => armed = "no"
        /\ "disable" \notin ToDo => ~disk.link

TasksInv == TypeOK /\ PlanInv /\ WorldInv /\ RegisterInv /\ UnregisterInv /\ EnablingInv
=============================================================================
