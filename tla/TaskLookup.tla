----------------------------- MODULE TaskLookup -----------------------------
(***************************************************************************)
(* Reading scheduled tasks on Linux (iter_timers and _lookup_unit of       *)
(* systemd_timers.py) while the controller of SystemdTasks works on the    *)
(* same task in another process.  A lookup asks for the timer, then for    *)
(* the service and who wrote it; a listing asks for the loaded units, then *)
(* for the unit files.  Each question is a call of its own.                *)
(***************************************************************************)
EXTENDS SystemdTasks

VARIABLES
    look,       \* the reader: where it is and what it answered
    saw,        \* ghost: what the task has been since the call began
    steady      \* ghost: the timer's file was in place all the time

lookVars == <<look, saw, steady>>
allVars == <<vars, lookVars>>

Idle == [pc |-> "idle", answer |-> "none"]

\* What the task is, by what systemd has loaded and by the unit files: a timer
\* makes it a scheduled task, a service alone an on-demand one if pwshpy
\* wrote it.  A service file torn by a failed write is nobody's.
Kind(timer, service) ==
    CASE timer -> "timer" [] ~timer /\ service -> "service" [] OTHER -> "absent"

TaskIs ==
    {Kind(IsThere(Loaded("tim")), IsThere(Loaded("svc")) /\ Owned(disk.svc)),
     Kind(IsThere(disk.tim), Owned(disk.svc))}
      \cup (IF disk.svc.by = "torn" THEN {"absent"} ELSE {})

LookInit == Init /\ look = Idle /\ saw = {} /\ steady = FALSE

To(pc) == look' = [look EXCEPT !.pc = pc]
Answer(a) == look' = [look EXCEPT !.pc = "done", !.answer = a]

\* skip_or_raise: strict raises, otherwise the task is left out.
SkipOrRaise == \E strict \in BOOLEAN : Answer(IF strict THEN "raised" ELSE "skipped")

Ask ==
    /\ look.pc = "idle"
    /\ \E pc \in {"timer", "units"} : To(pc)
    /\ saw' = TaskIs /\ steady' = IsThere(disk.tim)

\* _lookup_unit: the timer decides, and the service only where there is none.
LookupTimer ==
    /\ look.pc = "timer"
    /\ IF IsThere(Loaded("tim")) THEN Answer("timer") ELSE To("service")
    /\ UNCHANGED <<saw, steady>>

LookupService ==
    /\ look.pc = "service"
    /\ IF IsThere(Loaded("svc")) THEN To("owner") ELSE Answer("absent")
    /\ UNCHANGED <<saw, steady>>

\* A service is a task whoever wrote it.
LookupOwnerAny ==
    /\ look.pc = "owner"
    /\ IF IsThere(disk.svc) THEN Answer("service") ELSE SkipOrRaise
    /\ UNCHANGED <<saw, steady>>

\* _owned_service reads the unit file: gone by now, somebody else's, or ours.
LookupOwner ==
    /\ look.pc = "owner"
    /\ CASE ~IsThere(disk.svc) -> SkipOrRaise
         [] IsThere(disk.svc) /\ ~Owned(disk.svc) -> Answer("absent")
         [] OTHER -> Answer("service")
    /\ UNCHANGED <<saw, steady>>

\* iter_timers, first pass: ListUnits has a timer that is armed, and may have
\* one that is not.
ListLoaded ==
    /\ look.pc = "units"
    /\ \/ IsThere(mem.tim) /\ Answer("listed")
       \/ armed = "no" /\ To("files")
    /\ UNCHANGED <<saw, steady>>

\* Second pass: the unit files, each then loaded.
ListFiles ==
    /\ look.pc = "files"
    /\ IF IsThere(disk.tim) THEN To("load") ELSE Answer("ended")
    /\ UNCHANGED <<saw, steady>>

ListLoads ==
    /\ look.pc = "load"
    /\ Answer(IF IsThere(Loaded("tim")) THEN "listed" ELSE "ended")
    /\ UNCHANGED <<saw, steady>>

\* systemd refuses a read, or does not answer it.
LookFails ==
    /\ look.pc \notin {"idle", "done"}
    /\ SkipOrRaise /\ UNCHANGED <<saw, steady>>

\* The reader is done; the task it saw may have changed since.
LookEnds == look.pc = "done" /\ look' = Idle /\ saw' = {} /\ steady' = FALSE

LookStep ==
    /\ Ask \/ LookupTimer \/ LookupService \/ LookupOwner \/ ListLoaded \/ ListFiles
       \/ ListLoads \/ LookFails \/ LookEnds
    /\ UNCHANGED vars

\* A step of the controller or of systemd, under the reader's eyes.  A reboot
\* ends the reader too.  Nothing need happen between an answer and LookEnds.
TaskStep ==
    /\ Next /\ look.pc # "done"
    /\ IF look.pc = "idle" \/ reboots' # reboots
       THEN look' = Idle /\ saw' = {} /\ steady' = FALSE
       ELSE /\ UNCHANGED look
            /\ saw' = saw \cup TaskIs'
            /\ steady' = (steady /\ IsThere(disk'.tim))

LookSpec == LookInit /\ [][TaskStep \/ LookStep]_allVars

\* An answer was true at some moment of the call, although its parts were read
\* at different ones: a lookup names what the task was, and a listing that
\* ends has the timer whose file was in place throughout.  register writes the
\* service before the timer, unregister removes it after, and the reader asks
\* for the timer first.
ReadsTellTheTruth ==
    look.pc = "done" =>
        /\ look.answer \in {"timer", "service", "absent"} => look.answer \in saw
        /\ look.answer = "ended" => ~steady

-----------------------------------------------------------------------------
\* The inductive invariant of the proofs: everything the task is has been seen, and
\* a timer that came after the reader has asked for it was preceded by its service.
LookInv ==
    /\ look \in [pc : {"idle", "timer", "service", "owner", "units", "files", "load", "done"},
                answer : {"none", "timer", "service", "absent", "raised", "skipped", "listed", "ended"}]
    /\ steady \in BOOLEAN
    /\ look.pc \notin {"idle", "done"} =>
        /\ TaskIs \subseteq saw
        /\ steady => IsThere(disk.tim)
    /\ look.pc \in {"service", "owner"} /\ IsThere(disk.tim) =>
        /\ disk.tim.by \in {"pwshpy", "torn"} /\ disk.svc.by \in {"pwshpy", "torn"}
        /\ "service" \in saw
    /\ ReadsTellTheTruth
=============================================================================
