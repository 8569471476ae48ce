--------------------------- MODULE PosixAccounts ----------------------------
(***************************************************************************)
(* Local accounts on POSIX (posix_account_control.py): every verb is one   *)
(* or several shadow-utils commands under one deadline.  A command that is *)
(* still running when the deadline passes is killed, and nobody knows      *)
(* whether it had done its work.                                           *)
(***************************************************************************)
EXTENDS Naturals

VARIABLES
    account,            \* the entry: absent, bare (no password: "!"), open, locked
    group,              \* the group: absent, empty, member (the account is in it)
    pc, verb,           \* the verb under way
    wants,              \* what new_user was asked for: {"password", "disabled", "bad"}
    time,               \* the verb's deadline lies ahead
    progress,           \* what _NewUserProgress says: a set of statements
    returned,           \* the record a verb returned says: enabled, disabled, group, none
    result              \* none, ok, invalid, failed, timeout

vars == <<account, group, pc, verb, wants, time, progress, returned, result>>

Statements == {"created", "password-set", "password-unsure", "locked", "NOT-locked"}

SimpleVerbs ==
    {"remove_user", "enable", "disable", "new_group", "remove_group", "add_member", "remove_member"}

TypeOK ==
    /\ account \in {"absent", "bare", "open", "locked"}
    /\ group \in {"absent", "empty", "member"}
    /\ pc \in {"idle", "useradd", "chpasswd", "lock", "grace", "command", "read", "done"}
    /\ verb \in SimpleVerbs \cup {"none", "new_user"}
    /\ wants \subseteq {"password", "disabled", "bad"}
    /\ time \in BOOLEAN
    /\ progress \subseteq Statements
    /\ returned \in {"none", "enabled", "disabled", "group"}
    /\ result \in {"none", "ok", "invalid", "failed", "timeout"}

Init ==
    /\ account \in {"absent", "bare", "open", "locked"} /\ group \in {"absent", "empty"}
    /\ pc = "idle" /\ verb = "none" /\ wants = {} /\ time = TRUE
    /\ progress = {} /\ returned = "none" /\ result = "none"

-----------------------------------------------------------------------------
(* What the commands do to the databases: the new state, or the same one   *)
(* when they refuse.                                                       *)

Useradd(a) == IF a = "absent" THEN "bare" ELSE a
Chpasswd(a) == IF a = "absent" THEN a ELSE "open"
UsermodLock(a) == IF a = "open" THEN "locked" ELSE a

\* An entry without a password is left as it is, with a warning and exit code 0.
UsermodUnlock(a) == IF a = "locked" THEN "open" ELSE a

Refuses(v) ==
    CASE v = "useradd" -> account # "absent"
      [] v \in {"chpasswd", "enable", "disable", "lock", "remove_user"} -> account = "absent"
      [] v = "new_group" -> group # "absent"
      [] v = "remove_group" -> group = "absent"
      [] v = "add_member" -> group = "absent" \/ account = "absent"
      [] OTHER -> group # "member"

Effect(v) ==
    /\ account' = CASE v = "useradd" -> Useradd(account)
                    [] v = "chpasswd" -> Chpasswd(account)
                    [] v \in {"lock", "disable"} -> UsermodLock(account)
                    [] v = "enable" -> UsermodUnlock(account)
                    [] v = "remove_user" -> "absent"
                    [] OTHER -> account
    /\ group' = CASE v \in {"new_group", "remove_member"} -> "empty"
                  [] v = "remove_group" -> "absent"
                  [] v = "add_member" -> "member"
                  [] v = "remove_user" /\ group = "member" -> "empty"
                  [] OTHER -> group

Nothing == UNCHANGED <<account, group>>

\* _run: not started when the deadline has passed; else it exits 0 with its
\* work done, exits with an error, or is killed, its work done or not.
Run(v, outcome) ==
    \/ outcome = "timeout" /\ ~time /\ Nothing /\ UNCHANGED time
    \/ outcome = "ok" /\ time /\ ~Refuses(v) /\ Effect(v) /\ UNCHANGED time
    \/ outcome = "failed" /\ time /\ Nothing /\ UNCHANGED time
    \/ outcome = "timeout" /\ time /\ time' = FALSE /\ (Nothing \/ (~Refuses(v) /\ Effect(v)))

-----------------------------------------------------------------------------

End(r) == pc' = "done" /\ result' = r

\* The name and what would break the entry's fields are refused first.
NewUser(w) ==
    /\ pc = "idle" /\ verb' = "new_user" /\ wants' = w /\ time' = TRUE
    /\ IF "bad" \in w THEN End("invalid") ELSE pc' = "useradd" /\ UNCHANGED result
    /\ UNCHANGED <<account, group, progress, returned>>

\* A useradd that fails or is killed is not followed by anything.
Create ==
    /\ pc = "useradd"
    /\ \E o \in {"ok", "failed", "timeout"} :
        /\ Run("useradd", o)
        /\ IF o = "ok"
           THEN /\ pc' = IF "password" \in wants THEN "chpasswd"
                         ELSE IF "disabled" \in wants THEN "lock" ELSE "read"
                /\ UNCHANGED result
           ELSE End(o)
    /\ UNCHANGED <<verb, wants, progress, returned>>

\* A half-made account is reported as it is.
PartialWithoutLock(o, said) ==
    /\ result' = o
    /\ progress' = {"created"} \cup said
    /\ pc' = "done"

\* _after_partial_create: the lock that was asked for is tried once more.
Partial(o, said) ==
    /\ result' = o
    /\ progress' = {"created"} \cup said
    /\ pc' = IF "disabled" \in wants THEN "grace" ELSE "done"

\* A chpasswd that failed is reported as the lock is: with the password set.
SetPasswordSaysSet ==
    /\ pc = "chpasswd"
    /\ \E o \in {"ok", "failed", "timeout"} :
        /\ Run("chpasswd", o)
        /\ IF o = "ok"
           THEN /\ pc' = IF "disabled" \in wants THEN "lock" ELSE "read"
                /\ UNCHANGED <<result, progress>>
           ELSE Partial(o, {"password-set"})
    /\ UNCHANGED <<verb, wants, returned>>

SetPassword ==
    /\ pc = "chpasswd"
    /\ \E o \in {"ok", "failed", "timeout"} :
        /\ Run("chpasswd", o)
        /\ IF o = "ok"
           THEN /\ pc' = IF "disabled" \in wants THEN "lock" ELSE "read"
                /\ UNCHANGED <<result, progress>>
           ELSE Partial(o, {"password-unsure"})
    /\ UNCHANGED <<verb, wants, returned>>

Lock ==
    /\ pc = "lock"
    /\ \E o \in {"ok", "failed", "timeout"} :
        /\ Run("lock", o)
        /\ IF o = "ok" THEN pc' = "read" /\ UNCHANGED <<result, progress>>
           ELSE Partial(o, IF "password" \in wants THEN {"password-set"} ELSE {})
    /\ UNCHANGED <<verb, wants, returned>>

\* _lock_within_grace: a deadline of its own, so the command always starts.
LockWithinGrace ==
    /\ pc = "grace"
    /\ \E locked \in BOOLEAN :
        /\ progress' = progress \cup {IF locked THEN "locked" ELSE "NOT-locked"}
        /\ IF locked THEN ~Refuses("lock") /\ Effect("lock")
           ELSE Nothing \/ (~Refuses("lock") /\ Effect("lock"))
    /\ pc' = "done"
    /\ UNCHANGED <<verb, wants, time, returned, result>>

\* Every other verb is one command, and the read-back of what it returns.
Verb(v) ==
    /\ pc = "idle" /\ verb' = v /\ time' = TRUE
    /\ \/ pc' = "command" /\ UNCHANGED result
       \/ End("invalid")
    /\ UNCHANGED <<account, group, wants, progress, returned>>

Command ==
    /\ pc = "command"
    /\ \E o \in {"ok", "failed", "timeout"} :
        /\ Run(verb, o)
        /\ IF o # "ok" THEN End(o)
           ELSE IF verb \in {"enable", "disable", "new_group"} THEN pc' = "read" /\ UNCHANGED result
           ELSE End("ok")
    /\ UNCHANGED <<verb, wants, progress, returned>>

\* _read_user says of the lock what was asked for; it fails when the entry
\* is gone by now.
ReadUser ==
    /\ pc = "read" /\ verb # "new_group"
    /\ IF account = "absent" THEN End("failed") /\ UNCHANGED returned
       ELSE /\ End("ok")
            /\ returned' = IF verb = "disable" \/ "disabled" \in wants THEN "disabled" ELSE "enabled"
    /\ UNCHANGED <<account, group, verb, wants, time, progress>>

ReadGroup ==
    /\ pc = "read" /\ verb = "new_group"
    /\ IF group = "absent" THEN End("failed") /\ UNCHANGED returned
       ELSE End("ok") /\ returned' = "group"
    /\ UNCHANGED <<account, group, verb, wants, time, progress>>

\* The deadline passes between two commands.
DeadlinePasses ==
    /\ pc \in {"chpasswd", "lock"} /\ time /\ time' = FALSE
    /\ UNCHANGED <<account, group, pc, verb, wants, progress, returned, result>>

\* The caller has the answer.
Forget ==
    /\ pc = "done" /\ pc' = "idle" /\ verb' = "none" /\ wants' = {} /\ time' = TRUE
    /\ progress' = {} /\ returned' = "none" /\ result' = "none"
    /\ UNCHANGED <<account, group>>

Step ==
    \/ Create \/ SetPassword \/ Lock \/ LockWithinGrace \/ Command \/ ReadUser \/ ReadGroup \/ Forget

Next ==
    \/ Step \/ DeadlinePasses
    \/ \E w \in SUBSET {"password", "disabled", "bad"} : NewUser(w)
    \/ \E v \in SimpleVerbs : Verb(v)

Spec == Init /\ [][Next]_vars

-----------------------------------------------------------------------------

\* An account that was to be disabled is never left open to its password
\* unless the error says in so many words that it was not locked.
NeverOpenUnsaid ==
    pc = "done" /\ verb = "new_user" /\ "disabled" \in wants /\ result # "invalid"
      /\ account = "open" /\ "created" \in progress
        => "NOT-locked" \in progress

\* What the error says of a half-made account is so.
ReportIsTrue ==
    pc = "done" /\ progress # {} =>
        /\ account # "absent"
        /\ "password-set" \in progress => account \in {"open", "locked"}
        /\ "locked" \in progress => account # "open"

\* A verb that returns a user did what it says of its lock, and an account
\* that was created with a password has it.  There is one exception: enabling
\* an account that has no password says enabled and leaves it without one.
ReturnedIsTrue ==
    /\ returned = "disabled" => account \in {"bare", "locked"}
    /\ returned = "enabled" /\ "password" \in wants => account = "open"
    /\ returned = "enabled" /\ verb = "enable" => account \in {"bare", "open"}

-----------------------------------------------------------------------------
(* The inductive invariant of the proofs.                                  *)

\* What new_user has made of the account before each of its commands.
NewUserInv ==
    /\ pc \in {"useradd", "chpasswd", "lock", "grace"} => verb = "new_user"
    /\ pc = "chpasswd" => account = "bare" /\ "password" \in wants
    /\ pc = "lock" =>
        /\ "disabled" \in wants
        /\ account = IF "password" \in wants THEN "open" ELSE "bare"
    /\ pc = "grace" =>
        /\ "disabled" \in wants /\ "locked" \notin progress
        /\ account # "absent"
        /\ "password-set" \in progress => account \in {"open", "locked"}

\* What a verb has done when its record is read back.
ReadInv ==
    pc = "read" =>
        /\ verb \in {"new_user", "enable", "disable", "new_group"}
        /\ verb = "enable" => account \in {"bare", "open"}
        /\ verb = "disable" => account \in {"bare", "locked"}
        /\ verb = "new_user" =>
            /\ "disabled" \in wants => account \in {"bare", "locked"}
            /\ "password" \in wants /\ "disabled" \notin wants => account = "open"

\* A verb begins with nothing said or returned, and only new_user wants something.
NothingYet ==
    /\ pc \in {"idle", "useradd", "chpasswd", "lock", "command", "read"} => progress = {}
    /\ pc # "done" => returned = "none"
    /\ pc = "idle" => wants = {}
    /\ pc = "command" => verb \in SimpleVerbs
    /\ verb # "new_user" => wants = {}

AccountsInv ==
    /\ TypeOK /\ NewUserInv /\ ReadInv /\ NothingYet
    /\ NeverOpenUnsaid /\ ReportIsTrue /\ ReturnedIsTrue
=============================================================================
