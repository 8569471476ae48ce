-------------------------- MODULE MCAdministration --------------------------
(***************************************************************************)
(* Administering the machine: scheduled tasks on Linux and who reads them  *)
(* meanwhile (TaskLookup over SystemdTasks), what a task is asked for on   *)
(* both platforms (TaskFields), systemd's services (SystemdServices) and   *)
(* local accounts (PosixAccounts).                                         *)
(*                                                                         *)
(* A behaviour is one of a single component, the one `which` names.  The   *)
(* components other than TaskLookup take their variables from a pool; the  *)
(* variables a behaviour does not need keep their first value.             *)
(***************************************************************************)
EXTENDS TaskLookup, Integers

CONSTANTS
    AskedFor,       \* the requests for a task (TaskFields)
    LookedAt,       \* bound: the moments looked at (TaskFields)
    MaxEdits,       \* bound: edits of a task by an administrator
    Services        \* the services systemd has (SystemdServices)

VARIABLES
    which,
    x1, x2, x3, x4, x5, x6, x7, x8, x9, x10, x11, x12, x13, x14, x15, x16, x17

tail == <<x10, x11, x12, x13, x14, x15, x16, x17>>
pool   == <<x1, x2, x3, x4, x5, x6, x7, x8, x9, tail>>
all    == <<which, allVars, pool>>

(* The requests: every account with every logon type, every kind of        *)
(* trigger, every setting by itself, and next to all the others.           *)
Plain ==
    [user |-> "nobody", logon |-> "unset", level |-> "limited", triggers |-> {}, battery |-> "unset",
     stop |-> "unset", limit |-> "unset", instances |-> "unset", kill |-> "unset", demand |-> "unset"]

Hour == 7200

\* On the second day at ten past three and half a second, two hours ahead of UTC;
\* and at its midnight, which in UTC is still the first day.
Trigger(kind) ==
    [kind |-> kind, at |-> 27 * Hour + 1201, offset |-> 2 * Hour, every |-> 1, who |-> "none"]
AtMidnight(kind) == [Trigger(kind) EXCEPT !.at = 24 * Hour]
Logon(who) == [Trigger("logon") EXCEPT !.who = who]

\* Three days and a bit, by the hour and ten minutes later.
MCMoments == {h * Hour : h \in 0..75} \cup {h * Hour + 1200 : h \in 0..75} \cup {27 * Hour + 1201}

Full ==
    [Plain EXCEPT !.battery = "no", !.stop = "no", !.limit = "minute", !.instances = "ignore",
                  !.kill = "no", !.demand = "no"]

Values(f) ==
    CASE f = "limit" -> {"unset", "zero", "minute", "negative", "fraction", "huge"}
      [] f = "instances" -> {"unset", "parallel", "queue", "ignore", "replace"}
      [] OTHER -> {"unset", "yes", "no"}

MCRequests ==
    {[Plain EXCEPT !.user = u, !.logon = l, !.level = v] :
        u \in {"nobody", "system", "service", "person", "group", "root", "uid", "name"},
        l \in {"unset", "s4u", "interactive", "service"}, v \in {"limited", "highest"}}
      \cup {[Plain EXCEPT !.triggers = t] :
             t \in {{Trigger("once")}, {Trigger("boot")}, {Trigger("boot"), Trigger("once")},
                    {Trigger("daily")}, {[Trigger("daily") EXCEPT !.every = 2]},
                    {AtMidnight("once"), AtMidnight("daily")}}
                   \cup {{Logon(w)} : w \in {"anyone", "person", "uid", "group"}}}
      \cup UNION {{[r EXCEPT ![f] = v] : v \in Values(f)} :
                  f \in {"battery", "stop", "limit", "instances", "kill", "demand"},
                  r \in {Plain, Full, [Full EXCEPT !.triggers = {Trigger("daily")}]}}

F == INSTANCE TaskFields WITH
        Requests <- AskedFor, Moments <- LookedAt,
        platform <- x1, request <- x2, pc <- x3, task <- x4, raw <- x5, todo <- x6,
        info <- x7, held <- x8, edits <- x9

S == INSTANCE SystemdServices WITH
        Units <- Services,
        active <- x1, job <- x2, load <- x3, file <- x4, pc <- x5, op <- x6,
        unit <- x7, result <- x8, outcome <- x9, wasDown <- x10, renewed <- x11,
        meddled <- x12, todo <- x13, seen <- x14, listed <- x15, steady <- x16, report <- x17

A == INSTANCE PosixAccounts WITH
        account <- x1, group <- x2, pc <- x3, verb <- x4, wants <- x5, time <- x6,
        progress <- x7, returned <- x8, result <- x9

\* A request is a model of domain/scheduling.py.
ASSUME AdministrationAssumption == AskedFor \subseteq F!Askable /\ LookedAt \subseteq Int

\* A machine without the task.
NoTask == LookInit /\ disk = [svc |-> None, tim |-> None, link |-> FALSE, static |-> FALSE]

Rest ==
    /\ x10 = 0 /\ x11 = 0 /\ x12 = 0 /\ x13 = 0 /\ x14 = 0 /\ x15 = 0 /\ x16 = 0 /\ x17 = 0

AdminInit ==
    \/ /\ which = "tasks" /\ LookInit
       /\ x1 = 0 /\ x2 = 0 /\ x3 = 0 /\ x4 = 0 /\ x5 = 0 /\ x6 = 0 /\ x7 = 0 /\ x8 = 0
       /\ x9 = 0 /\ Rest
    \/ /\ which = "fields" /\ NoTask /\ F!Init /\ Rest
    \/ /\ which = "services" /\ NoTask /\ S!Init
    \/ /\ which = "accounts" /\ NoTask /\ A!Init /\ Rest

InTasks    == which = "tasks" /\ UNCHANGED <<which, pool>>
InFields   == which = "fields" /\ UNCHANGED <<which, allVars, tail>>
InServices == which = "services" /\ UNCHANGED <<which, allVars>>
InAccounts == which = "accounts" /\ UNCHANGED <<which, allVars, tail>>

AdminNext ==
    \/ InTasks /\ (TaskStep \/ LookStep)
    \/ InFields /\ F!Next
    \/ InServices /\ S!Next
    \/ InAccounts /\ A!Next

AdminSpec == AdminInit /\ [][AdminNext]_all

-----------------------------------------------------------------------------
\* A request for a task is carried out or refused, never carried out in part:
\* a registered task runs as the account asked for, is started when the triggers
\* mean it, and behaves as every setting asked for says, although Task Scheduler
\* and systemd have opposite senses and defaults of their own.  The two
\* exceptions the code names are that fractions of a second are cut and that on
\* Linux a daily trigger starts today.
GetsWhatItAsked == which = "fields" => F!GetsWhatItAsked

\* What is reported of a task was true: every field is unknown or a value the
\* task had while it was read, property by property, with edits in between.
\* Only where the readers say that they do not see a thing (DynamicUser=, a
\* condition with a marker, the limit of what is no oneshot any more) it may
\* be what they suppose.
ReadBackIsTrue == which = "fields" => F!ReadBackIsTrue

\* With nobody else acting on a unit, a verb of SystemdServiceController that
\* returns waited for its own job: a start that left the unit failed raises, a
\* restart made an instance or says that the unit is inactive, and the unit was
\* down at some point of a stop.
VerbWasDone == which = "services" => S!VerbWasDone

\* A listing of services that ends has every one whose file was in place
\* throughout and whose reads were answered, but not with not-found, and has it
\* once, although units load and unload between its two passes and systemd may
\* still hold a name as not found or masked whose file is there.
ListsEveryService == which = "services" => S!ListsEveryService /\ S!ListsOnce

\* An account that was to be disabled is never left open to its password
\* unless the error says that it was not locked, wherever new_user stopped.
NeverOpenUnsaid == which = "accounts" => A!NeverOpenUnsaid

\* What the error of a half-made account says, and what a verb that returns
\* says of the account's lock and password, is so; but an account without a
\* password is told to be enabled though there is nothing to unlock.
ReportIsTrue == which = "accounts" => A!ReportIsTrue /\ A!ReturnedIsTrue
=============================================================================
