----------------------------- MODULE TaskFields -----------------------------
(***************************************************************************)
(* What a scheduled task is asked to be, what the platform is told, and    *)
(* what is read back (domain/scheduling.py, scheduled_task_control.py,     *)
(* task_readback.py and the unit files of systemd_timers.py).  Task        *)
(* Scheduler and systemd have different fields, opposite senses and        *)
(* defaults of their own; a request one of them cannot carry out must be   *)
(* refused before anything is written.  Properties are read one by one,    *)
(* any of them may not be answered, and an administrator may edit the task *)
(* meanwhile.                                                              *)
(***************************************************************************)
EXTENDS Integers, Sequences

CONSTANTS Requests,     \* what is asked: [user, logon, level, triggers, and the settings]
          Moments,      \* bound: the moments looked at, in half seconds
          MaxEdits      \* bound: edits by the administrator

VARIABLES
    platform, request, pc,
    task,               \* as the platform stores it
    raw,                \* the properties read so far that were answered
    todo,               \* the properties still to read
    info,               \* the record returned
    held,               \* ghost: the values each field has had since the write,
                        \* "unseen" among them if the readers do not see it
    edits

vars == <<platform, request, pc, task, raw, todo, info, held, edits>>

Settings == {"battery", "stop", "limit", "instances", "kill", "demand"}
Fields == Settings \cup {"user", "level"}

Unknown == "unknown"
Not(b) == IF b = "yes" THEN "no" ELSE "yes"
Given(f) == request[f] # "unset"
Or(f, default) == IF Given(f) THEN request[f] ELSE default

-----------------------------------------------------------------------------
(* domain/scheduling.py *)

Uids == {"root", "uid"}
ServiceSids == {"system", "service"}

\* The models' own validators: an account is a SID or a uid, never a name,
\* and a limit is a whole number of seconds in range.
Valid(r) == r.user # "name" /\ r.limit \notin {"negative", "fraction", "huge"}

effective_logon_type(r) ==
    CASE r.logon # "unset" -> r.logon
      [] r.logon = "unset" /\ r.user = "nobody" -> "interactive"
      [] r.logon = "unset" /\ r.user \in ServiceSids -> "service"
      [] OTHER -> "s4u"

\* A trigger: [kind, at, offset, every, who].  Time goes in half seconds.  `at` is
\* the local time of a zone that is `offset` ahead of UTC, or what a boot
\* trigger waits; a daily trigger starts at `at`, every so many days.
Second == 2
Day == 172800
Whole(t) == t - (t % Second)
Utc(x) == x.at - x.offset
Of(kind, triggers) == {x \in triggers : x.kind = kind}

-----------------------------------------------------------------------------
(* Windows *)

\* _check_principal and _check_triggers.
check_principal(r) ==
    /\ r.user \notin Uids \cup {"group"}
    /\ r.user \in ServiceSids <=> effective_logon_type(r) = "service"

check_triggers(r) == \A x \in Of("logon", r.triggers) : x.who \notin {"uid", "group"}

\* _add_trigger: a StartBoundary keeps its offset, and no fraction of a second.
add_trigger(x) ==
    CASE x.kind \in {"once", "daily"} ->
           [kind |-> x.kind, StartBoundary |-> Whole(x.at), offset |-> x.offset,
            DaysInterval |-> x.every]
      [] x.kind = "boot" -> [kind |-> "boot", Delay |-> Whole(x.at)]
      [] OTHER -> [kind |-> "logon", UserId |-> x.who]

\* NewTask(0): Task Scheduler's defaults.
NewTask ==
    [UserId |-> "caller", RunLevel |-> 0, LogonType |-> "interactive",
     DisallowStartIfOnBatteries |-> "yes", StopIfGoingOnBatteries |-> "yes",
     ExecutionTimeLimit |-> "PT72H", MultipleInstances |-> 2, AllowHardTerminate |-> "yes",
     AllowDemandStart |-> "yes", Triggers |-> {}]

InstancesByInt == <<"parallel", "queue", "ignore", "replace">>   \* 0, 1, 2, 3
from_task_multiple_instances(policy) == (CHOOSE i \in 1..4 : InstancesByInt[i] = policy) - 1
to_task_multiple_instances(n) == IF n \in 0..3 THEN InstancesByInt[n + 1] ELSE Unknown

iso_duration(limit) == IF limit = "zero" THEN "PT0S" ELSE "PT60S"
to_task_duration(text) ==
    CASE text = "PT0S" -> "zero" [] text = "PT60S" -> "minute" [] text = "PT72H" -> "72h"
      [] OTHER -> Unknown

\* _apply_principal, _add_trigger for each trigger, and _apply_settings, which
\* writes what is set and leaves the rest to Task Scheduler.
Definition ==
    [UserId |-> IF request.user = "nobody" THEN NewTask.UserId ELSE request.user,
     LogonType |-> effective_logon_type(request),
     RunLevel |-> IF request.level = "highest" THEN 1 ELSE 0,
     DisallowStartIfOnBatteries |->
         IF Given("battery") THEN Not(request.battery) ELSE NewTask.DisallowStartIfOnBatteries,
     StopIfGoingOnBatteries |-> Or("stop", NewTask.StopIfGoingOnBatteries),
     ExecutionTimeLimit |->
         IF Given("limit") THEN iso_duration(request.limit) ELSE NewTask.ExecutionTimeLimit,
     MultipleInstances |->
         IF Given("instances") THEN from_task_multiple_instances(request.instances)
         ELSE NewTask.MultipleInstances,
     AllowHardTerminate |-> Or("kill", NewTask.AllowHardTerminate),
     AllowDemandStart |-> Or("demand", "yes"),
     Triggers |-> {add_trigger(x) : x \in request.triggers}]

Answered(p) == p \in DOMAIN raw
Convert(p, value) == IF Answered(p) THEN value ELSE Unknown

\* sid_string of a group principal's user, which is empty.
sid_string(id) == IF id = "empty" THEN Unknown ELSE id

\* read_task_extras: each field on its own, unknown when it cannot be read.
TaskExtras ==
    [user |-> Convert("UserId", sid_string(raw["UserId"])),
     level |-> Convert("RunLevel", IF raw["RunLevel"] = 1 THEN "highest" ELSE "limited"),
     battery |-> Convert("DisallowStartIfOnBatteries", Not(raw["DisallowStartIfOnBatteries"])),
     stop |-> Convert("StopIfGoingOnBatteries", raw["StopIfGoingOnBatteries"]),
     limit |-> Convert("ExecutionTimeLimit", to_task_duration(raw["ExecutionTimeLimit"])),
     instances |-> Convert("MultipleInstances", to_task_multiple_instances(raw["MultipleInstances"])),
     kill |-> Convert("AllowHardTerminate", raw["AllowHardTerminate"]),
     demand |-> Convert("AllowDemandStart", raw["AllowDemandStart"])]

-----------------------------------------------------------------------------
(* Linux *)

\* A repeating timer makes up for a run it missed: none of the four policies.
check_settings(r) ==
    /\ r.stop # "yes"
    /\ r.instances \in {"unset", "ignore"}
    /\ r.instances = "ignore" => Of("daily", r.triggers) = {}

linux_user(r) ==
    /\ r.logon = "unset"
    /\ r.user \in {"nobody", "system"} \cup Uids
    /\ r.level = "highest" => r.user # "uid"

\* timer_unit and arms_on_register.
timer_lines(r) ==
    /\ Of("logon", r.triggers) = {}
    /\ \A x \in Of("daily", r.triggers) : x.every = 1
    /\ Of("boot", r.triggers) # {} => r.triggers = Of("boot", r.triggers)

\* The time of day in the trigger's own zone.
timer_line_local(x) ==
    CASE x.kind = "once" -> [kind |-> "once", OnCalendar |-> Whole(Utc(x))]
      [] x.kind = "daily" -> [kind |-> "daily", OnCalendar |-> Whole(x.at) % Day]
      [] OTHER -> [kind |-> "boot", OnBootSec |-> Whole(x.at)]

\* _timer_line: a calendar in UTC, of whole seconds; a daily one is a time of
\* day and nothing else.
timer_line(x) ==
    CASE x.kind = "once" -> [kind |-> "once", OnCalendar |-> Whole(Utc(x))]
      [] x.kind = "daily" -> [kind |-> "daily", OnCalendar |-> Whole(Utc(x)) % Day]
      [] OTHER -> [kind |-> "boot", OnBootSec |-> Whole(x.at)]

\* A ConditionACPower= with a marker or none: "|" makes it triggering, "!" negates it.
Condition(trigger, negate, value) == [trigger |-> trigger, negate |-> negate, value |-> value]
ConditionSet == [trigger : BOOLEAN, negate : BOOLEAN, value : {"true", "false"}]
OnAcOnly == Condition(FALSE, FALSE, "true")

\* service_unit and timer_unit: a key only for what differs from what systemd
\* does anyway; "empty" is a key left out.
UnitFiles ==
    [Type |-> "oneshot",
     User |-> IF request.user \in Uids THEN request.user ELSE "empty",
     DynamicUser |-> "no",
     Conditions |-> IF request.battery = "no" THEN {OnAcOnly} ELSE {},
     RefuseManualStart |-> IF request.demand = "no" THEN "yes" ELSE "empty",
     TimeoutStartSec |->
         CASE request.limit = "zero" -> "infinity" [] request.limit = "minute" -> "60"
           [] OTHER -> "empty",
     SendSIGKILL |-> IF request.kill = "no" THEN "no" ELSE "empty",
     Triggers |-> {timer_line(x) : x \in request.triggers}]

\* What systemd answers for a property of the service (external).
Property(p) ==
    CASE p = "RefuseManualStart" -> IF task.RefuseManualStart = "yes" THEN "yes" ELSE "no"
      [] p = "SendSIGKILL" -> IF task.SendSIGKILL = "no" THEN "no" ELSE "yes"
      [] p = "TimeoutStartUSec" -> IF task.TimeoutStartSec \in {"empty", "infinity"} THEN "max" ELSE "60000000"
      [] OTHER -> task[p]

\* A negated condition is read like a plain one.
battery_start_negated(conditions) ==
    IF \E c \in conditions : ~c.trigger /\ c.value = "true" THEN "no" ELSE "yes"

\* Only a plain condition counts.
battery_start_allowed(conditions) == IF OnAcOnly \in conditions THEN "no" ELSE "yes"

start_time_limit(usec) == IF usec = "max" THEN "zero" ELSE "minute"

\* service_user_id: an empty User= is root; a name is looked up, which fails.
service_user_id(user) ==
    CASE user = "empty" -> "root" [] user \in Uids -> user [] OTHER -> Unknown

\* _service_user and _service_settings.
TimerTask ==
    [user |-> Convert("User", service_user_id(raw["User"])),
     level |-> Unknown,
     battery |-> Convert("Conditions", battery_start_allowed(raw["Conditions"])),
     stop |-> "no",
     limit |-> IF Answered("Type") /\ raw["Type"] = "oneshot"
               THEN Convert("TimeoutStartUSec", start_time_limit(raw["TimeoutStartUSec"])) ELSE Unknown,
     instances |-> Unknown,
     kill |-> Convert("SendSIGKILL", raw["SendSIGKILL"]),
     demand |-> Convert("RefuseManualStart", Not(raw["RefuseManualStart"]))]

-----------------------------------------------------------------------------
(* What a task does, by the platforms' documentation. *)

\* Whether a run may start on battery: every plain or negated condition is met,
\* and one of the triggering ones if there are any.
StartsOnBattery(conditions) ==
    LET Met(c) == c.negate <=> c.value = "true"
        triggering == {c \in conditions : c.trigger}
    IN  /\ \A c \in conditions \ triggering : Met(c)
        /\ triggering # {} => \E c \in triggering : Met(c)

Behaves(t) ==
    IF platform = "win32"
    THEN [user |-> t.UserId, level |-> IF t.RunLevel = 1 THEN "highest" ELSE "limited",
          battery |-> Not(t.DisallowStartIfOnBatteries), stop |-> t.StopIfGoingOnBatteries,
          limit |-> to_task_duration(t.ExecutionTimeLimit),
          instances |-> to_task_multiple_instances(t.MultipleInstances),
          kill |-> t.AllowHardTerminate, demand |-> t.AllowDemandStart]
    ELSE [user |-> CASE t.User # "empty" -> t.User
                     [] t.User = "empty" /\ t.DynamicUser = "yes" -> "dynamic"
                     [] OTHER -> "root",
          level |-> IF t.User \in {"empty", "root"} THEN "highest" ELSE "limited",
          battery |-> IF StartsOnBattery(t.Conditions) THEN "yes" ELSE "no", stop |-> "no",
          limit |-> CASE t.Type # "oneshot" -> "start only"
                      [] t.Type = "oneshot" /\ t.TimeoutStartSec = "60" -> "minute"
                      [] OTHER -> "zero",
          instances |-> IF Of("daily", t.Triggers) # {} THEN "catch up" ELSE "ignore",
          kill |-> IF t.SendSIGKILL = "no" THEN "no" ELSE "yes",
          demand |-> IF t.RefuseManualStart = "yes" THEN "no" ELSE "yes"]

\* The moments a calendar trigger that was written starts the task at.
StartsAt(w, n) ==
    IF platform = "win32"
    THEN LET first == w.StartBoundary - w.offset
         IN  CASE w.kind = "once" -> n = first
               [] w.kind = "daily" -> n >= first /\ (n - first) % (w.DaysInterval * Day) = 0
               [] OTHER -> FALSE
    ELSE CASE w.kind = "once" -> n = w.OnCalendar
           [] w.kind = "daily" -> n % Day = w.OnCalendar
           [] OTHER -> FALSE

\* What the readers do not see, as they say: the uid a DynamicUser= service is
\* given, a condition with a marker, the limit of what is no oneshot.
Unseen(t) ==
    IF platform = "win32" THEN {}
    ELSE {f \in {"user", "battery", "limit"} :
            CASE f = "user" -> t.User = "empty" /\ t.DynamicUser = "yes"
              [] f = "battery" -> \E c \in t.Conditions : c.trigger \/ c.negate
              [] OTHER -> t.Type # "oneshot"}

Shows(t) ==
    [f \in Fields |-> {Behaves(t)[f]} \cup (IF f \in Unseen(t) THEN {"unseen"} ELSE {})]

-----------------------------------------------------------------------------

NoTask == [Triggers |-> {}]
NoInfo == [f \in Fields |-> Unknown]

Init ==
    /\ platform \in {"win32", "linux"} /\ request \in Requests
    /\ pc = "model" /\ task = NoTask /\ raw = << >> /\ todo = << >> /\ info = NoInfo
    /\ held = [f \in Fields |-> {}] /\ edits = 0

Goto(p) == pc' = p /\ UNCHANGED <<platform, request, task, raw, todo, info, held, edits>>

\* The request is built from the models.
Build == pc = "model" /\ Goto(IF Valid(request) THEN "check" ELSE "refused")

\* Every check comes before the first write.
Check ==
    /\ pc = "check"
    /\ Goto(IF platform = "win32"
            THEN IF check_principal(request) /\ check_triggers(request) THEN "write" ELSE "refused"
            ELSE IF check_settings(request) /\ linux_user(request) /\ timer_lines(request)
                 THEN "write" ELSE "refused")

\* The properties in the order they are read.
Properties(p) ==
    IF p = "win32"
    THEN <<"UserId", "RunLevel", "DisallowStartIfOnBatteries", "StopIfGoingOnBatteries",
           "ExecutionTimeLimit", "MultipleInstances", "AllowHardTerminate", "AllowDemandStart">>
    ELSE <<"User", "Type", "SendSIGKILL", "RefuseManualStart", "Conditions", "TimeoutStartUSec">>

\* RegisterTaskDefinition, or the two unit files and Reload.
Write ==
    /\ pc = "write"
    /\ task' = IF platform = "win32" THEN Definition ELSE UnitFiles
    /\ pc' = "read" /\ todo' = Properties(platform)
    /\ held' = Shows(task')
    /\ UNCHANGED <<platform, request, raw, info, edits>>

\* The connection, the folder or the write is refused.
WriteFails == pc = "write" /\ Goto("failed")

\* One property: answered, or not (_soft; path_property's default).
ReadProperty ==
    /\ pc = "read" /\ todo # << >>
    /\ todo' = Tail(todo)
    /\ LET p == Head(todo) IN
       \/ raw' = [q \in DOMAIN raw \cup {p} |->
                      IF q # p THEN raw[q] ELSE IF platform = "win32" THEN task[p] ELSE Property(p)]
       \/ UNCHANGED raw
    /\ UNCHANGED <<platform, request, pc, task, info, held, edits>>

\* A refused read on Linux is raised, never taken for a default.
ReadRefused == pc = "read" /\ platform = "linux" /\ todo # << >> /\ Goto("failed")

Return ==
    /\ pc = "read" /\ todo = << >>
    /\ info' = IF platform = "win32" THEN TaskExtras ELSE TimerTask
    /\ pc' = "done"
    /\ UNCHANGED <<platform, request, task, raw, todo, held, edits>>

\* An administrator edits the task, or drops a file into its unit's directory.
Edits ==
    IF platform = "win32"
    THEN {<<"DisallowStartIfOnBatteries", Not(task.DisallowStartIfOnBatteries)>>,
          <<"ExecutionTimeLimit", "P1M">>, <<"MultipleInstances", 3>>, <<"UserId", "person">>,
          <<"UserId", "empty">>}
    ELSE {<<"Type", "simple">>, <<"TimeoutStartSec", "60">>, <<"SendSIGKILL", "no">>,
          <<"User", "alice">>, <<"DynamicUser", "yes">>, <<"Conditions", {}>>}
           \cup {<<"Conditions", task.Conditions \cup {c}>> :
                   c \in {OnAcOnly, Condition(TRUE, FALSE, "true"), Condition(FALSE, TRUE, "true"),
                          Condition(FALSE, TRUE, "false")}}

Edit ==
    /\ pc = "read" /\ edits < MaxEdits
    /\ edits' = edits + 1
    /\ \E e \in Edits : task' = [task EXCEPT ![e[1]] = e[2]]
    /\ held' = [f \in Fields |-> held[f] \cup Shows(task')[f]]
    /\ UNCHANGED <<platform, request, pc, raw, todo, info>>

Next ==
    \/ Build \/ Check \/ Write \/ WriteFails \/ ReadProperty \/ ReadRefused
    \/ Return \/ Edit

Spec == Init /\ [][Next]_vars

-----------------------------------------------------------------------------

\* The account a request means: none is the caller, who is root on Linux, where
\* SYSTEM is root too.
Account ==
    CASE request.user = "nobody" -> IF platform = "win32" THEN "caller" ELSE "root"
      [] request.user = "system" /\ platform = "linux" -> "root"
      [] OTHER -> request.user

\* The moments a calendar trigger means, by domain/scheduling.py; but fractions
\* of a second are cut, and on Linux a daily trigger starts today.
MeantAt(x, n) ==
    LET first == Whole(Utc(x))
    IN  CASE x.kind = "once" -> n = first
          [] x.kind = "daily" -> /\ (n - first) % (x.every * Day) = 0
                                 /\ n >= first \/ platform = "linux"
          [] OTHER -> FALSE

\* Every moment a trigger means is one at which the task is started, and no other
\* is, whatever the zone; it waits after a boot, and for whose logon, as asked.
StartsWhenAsked ==
    /\ \A n \in Moments :
         (\E w \in task.Triggers : StartsAt(w, n)) <=> (\E x \in request.triggers : MeantAt(x, n))
    /\ {IF platform = "win32" THEN w.Delay ELSE w.OnBootSec : w \in Of("boot", task.Triggers)} =
         {Whole(x.at) : x \in Of("boot", request.triggers)}
    /\ {w.UserId : w \in Of("logon", task.Triggers)} = {x.who : x \in Of("logon", request.triggers)}

\* A request is carried out or refused, never carried out in part: a task that
\* was registered runs as the account asked for, when the triggers mean it,
\* may be started on demand unless that was forbidden, and behaves as every
\* setting asked for says.  Two exceptions are the code's own: a fraction of a
\* second is cut, and on Linux a daily trigger starts today, not at its date.
GetsWhatItAsked ==
    pc \in {"read", "done"} /\ edits = 0 =>
        /\ StartsWhenAsked
        /\ Behaves(task).user = Account
        /\ request.level = "highest" => Behaves(task).level = "highest"
        /\ \A f \in Settings : Given(f) => Behaves(task)[f] = request[f]
        /\ Behaves(task).demand = Or("demand", "yes")

\* What is said of a field that is not seen: root, and a start allowed; so a
\* start that is told to be forbidden on battery is forbidden, and a uid told is
\* the account's, whatever was edited.
Supposed == [f \in Fields |-> CASE f = "user" -> {"root"} [] f = "battery" -> {"yes"}
                                [] f = "limit" -> {"zero", "minute"} [] OTHER -> {}]

\* What is reported was true: every field of the record is unknown or a value
\* the task had while it was read, whatever could not be read and whoever
\* edited the task meanwhile.  Where the readers say themselves that they do not
\* see a thing (DynamicUser=, a condition with a marker), they may report what
\* they suppose; and one field takes two reads, which two edits can fall
\* between: the limit of a service that has ceased to be a oneshot.
ReadBackIsTrue ==
    pc = "done" =>
        \A f \in Fields :
            \/ info[f] = Unknown \/ info[f] \in held[f]
            \/ "unseen" \in held[f] /\ info[f] \in Supposed[f]
-----------------------------------------------------------------------------
(* The inductive invariant of the proofs.                                  *)

\* What the models of domain/scheduling.py can be built with; an offset from UTC
\* is of whole seconds.
Trigger ==
    [kind : {"once", "daily", "boot", "logon"}, at : Nat, offset : {o \in Int : o % Second = 0},
     every : 1..365, who : {"none", "anyone", "person", "uid", "group"}]

Askable ==
    [user : {"nobody", "system", "service", "person", "group", "root", "uid", "name"},
     logon : {"unset", "s4u", "interactive", "service"}, level : {"limited", "highest"},
     triggers : SUBSET Trigger,
     battery : {"unset", "yes", "no"}, stop : {"unset", "yes", "no"},
     limit : {"unset", "zero", "minute", "negative", "fraction", "huge"},
     instances : {"unset", "parallel", "queue", "ignore", "replace"},
     kill : {"unset", "yes", "no"}, demand : {"unset", "yes", "no"}]

Stored == IF platform = "win32" THEN Definition ELSE UnitFiles

Accepted ==
    IF platform = "win32" THEN check_principal(request) /\ check_triggers(request)
    ELSE check_settings(request) /\ linux_user(request) /\ timer_lines(request)

\* A task that was written: as it was asked for until somebody edits it.
WrittenInv ==
    /\ edits = 0 => task = Stored
    /\ \A f \in Fields : Shows(task)[f] \subseteq held[f]
    /\ platform = "linux" =>
         /\ {"TimeoutStartSec", "Type", "Conditions"} \subseteq DOMAIN task
         /\ task.TimeoutStartSec \in {"empty", "infinity", "60"}
         /\ task.Conditions \subseteq ConditionSet

\* Each property that was answered says what the task did at some time.
WindowsTold ==
    /\ Answered("UserId") => sid_string(raw["UserId"]) \in held["user"] \cup {Unknown}
    /\ Answered("RunLevel") => (IF raw["RunLevel"] = 1 THEN "highest" ELSE "limited") \in held["level"]
    /\ Answered("DisallowStartIfOnBatteries") => Not(raw["DisallowStartIfOnBatteries"]) \in held["battery"]
    /\ Answered("StopIfGoingOnBatteries") => raw["StopIfGoingOnBatteries"] \in held["stop"]
    /\ Answered("ExecutionTimeLimit") => to_task_duration(raw["ExecutionTimeLimit"]) \in held["limit"]
    /\ Answered("MultipleInstances") =>
         to_task_multiple_instances(raw["MultipleInstances"]) \in held["instances"]
    /\ Answered("AllowHardTerminate") => raw["AllowHardTerminate"] \in held["kill"]
    /\ Answered("AllowDemandStart") => raw["AllowDemandStart"] \in held["demand"]

SystemdTold ==
    /\ "no" \in held["stop"]
    /\ Answered("User") =>
         \/ service_user_id(raw["User"]) \in held["user"] \cup {Unknown}
         \/ "unseen" \in held["user"] /\ service_user_id(raw["User"]) = "root"
    /\ Answered("Conditions") =>
         \/ battery_start_allowed(raw["Conditions"]) \in held["battery"]
         \/ "unseen" \in held["battery"] /\ battery_start_allowed(raw["Conditions"]) = "yes"
    /\ Answered("TimeoutStartUSec") =>
         "unseen" \in held["limit"] \/ start_time_limit(raw["TimeoutStartUSec"]) \in held["limit"]
    /\ Answered("SendSIGKILL") => raw["SendSIGKILL"] \in held["kill"]
    /\ Answered("RefuseManualStart") => Not(raw["RefuseManualStart"]) \in held["demand"]

ToldInv == IF platform = "win32" THEN WindowsTold ELSE SystemdTold

FieldsInv ==
    /\ platform \in {"win32", "linux"} /\ request \in Requests /\ edits \in Nat
    /\ pc \in {"model", "check", "write", "read", "done", "refused", "failed"}
    /\ pc \in {"model", "check", "write"} => raw = << >> /\ edits = 0
    /\ pc \in {"check", "write", "read", "done"} => Valid(request)
    /\ pc \in {"write", "read", "done"} => Accepted
    /\ pc \in {"read", "done"} => WrittenInv
    /\ pc = "read" => ToldInv
    /\ ReadBackIsTrue
=============================================================================
