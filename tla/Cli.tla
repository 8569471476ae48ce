-------------------------------- MODULE Cli ---------------------------------
(***************************************************************************)
(* The command line: cli/main.py, cli/root.py, cli/config_load.py,         *)
(* logging/setup.py, cli/output.py, stdio.py and native/elevation.py.      *)
(*                                                                         *)
(* main() is called any number of times in one process.  A call resolves   *)
(* the command, loads the configuration, starts logging, elevates when     *)
(* asked, runs the command's body (Commands) and always leaves through     *)
(* the same finally block.  The files and the reader of stdout belong to   *)
(* somebody else and change under it.                                      *)
(***************************************************************************)
EXTENDS Commands, Sequences, FiniteSets

CONSTANTS Calls,        \* the calls that are made: [cmd, flags]
          MaxRecords,   \* bound: records a source has
          MaxRows,      \* rows of a human table (_MAX_TABLE_ROWS)
          ProgramCodes  \* what a program, or an elevated child, may exit with

ASSUME CliAssumption ==
    /\ MaxRecords \in Nat /\ MaxRows \in Nat \ {0}
    /\ \A c \in Calls : c.cmd \in DOMAIN Commands
    /\ ProgramCodes \subseteq 0..255

VARIABLES
    pc, call, step,
    platform,                     \* of the process
    files,                        \* the configuration on disk: good, broken, badlog
    dotenv, logvars,              \* LOG_* in the nearest .env, in os.environ: none, bad
    cached, cachedOwn,            \* _get_config_impl's cache, for config --profile
    config, error,                \* CLIContext.config and .config_error
    log,                          \* the logging runtime is initialised
    prefs, saved,                 \* traceback preferences, main's snapshot of them
    source, got, sent, array,     \* the records still to come, pulled, written
    reader,                       \* somebody reads stdout
    runs,                         \* calls of the operation, an elevated child's too
    prompts,                      \* sudo password prompts
    raised, code,                 \* the exception on its way out, main's result
    cause                         \* history: what ended the call, when no code tells

world == <<platform, files, dotenv>>
loaded == <<logvars, cached, cachedOwn, config, error, log, prefs, saved>>
output == <<source, got, sent, array>>
result == <<code, cause>>
vars == <<pc, call, step, world, loaded, output, reader, runs, prompts, raised, result>>

NoCode == 256

NoCall == [cmd |-> "none", flags |-> {}]

NoSource == [left |-> 0, fails |-> FALSE]

Flags ==
    {"json", "jsonl", "traceback", "elevate", "root", "badroot", "badoption", "badvalue",
     "profile", "worker", "limit"}

Flag(f) == f \in call.flags

\* _exit_code_for: what an exception ends the process with (POSIX codes).
ExitCode(e) ==
    CASE e = "usage" -> 2 [] e = "denied" -> 13 [] e = "value" -> 22 [] e = "timeout" -> 110
      [] OTHER -> 1

TypeOK ==
    /\ call.flags \subseteq Flags
    /\ step \in 1..6
    /\ platform \in {"win32", "linux", "darwin"}
    /\ cachedOwn \in BOOLEAN /\ log \in BOOLEAN /\ prefs \in BOOLEAN /\ saved \in BOOLEAN
    /\ files \in {"good", "broken", "badlog"}
    /\ cached \in {"none", "good", "badlog"}
    /\ config \in {"empty", "good", "badlog"}
    /\ error \in {"none", "load", "logging"}
    /\ {dotenv, logvars} \subseteq {"none", "bad"}
    /\ source \in [left : 0..MaxRecords, fails : BOOLEAN]
    /\ {got, sent} \subseteq 0..MaxRecords
    /\ array \in {"none", "open", "whole", "cut"}
    /\ reader \in BOOLEAN
    /\ runs \in 0..1 /\ prompts \in 0..1
    /\ code \in 0..NoCode
    /\ cause \in {"none", "config", "declined", "directory"}

Init ==
    /\ pc = "idle" /\ call = NoCall /\ step = 1
    /\ platform \in {"win32", "linux", "darwin"}
    /\ files \in {"good", "broken", "badlog"} /\ dotenv \in {"none", "bad"}
    /\ logvars = "none" /\ cached = "none" /\ cachedOwn = FALSE /\ config = "empty" /\ error = "none"
    /\ log = FALSE /\ prefs = FALSE /\ saved = FALSE
    /\ source = NoSource /\ got = 0 /\ sent = 0 /\ array = "none"
    /\ reader = TRUE /\ runs = 0 /\ prompts = 0 /\ raised = "none"
    /\ code = NoCode /\ cause = "none"

Raise(e) == pc' = "handle" /\ raised' = e

\* ctx.exit: click returns the code from cli.main.  78, 77 and 70 have a
\* meaning here, and are also what a program or a script may exit with.
LeaveFor(why, n) == pc' = "finally" /\ code' = n /\ cause' = why
Leave(n) == LeaveFor("none", n)

\* main(): the snapshot is taken before anything else.
Call(c) ==
    /\ pc = "idle"
    /\ call' = c /\ step' = 1 /\ pc' = "resolve" /\ saved' = prefs
    /\ UNCHANGED <<world, logvars, cached, cachedOwn, config, error, log, prefs, output, reader, runs, prompts, raised, result>>

\* click finds the subcommand and parses the root options, then
\* _check_command_line refuses a bad --profile or --set.
Resolve ==
    /\ pc = "resolve"
    /\ IF Flag("badroot") THEN Raise("usage")
       ELSE pc' = "load" /\ UNCHANGED raised
    /\ UNCHANGED <<call, step, world, loaded, output, reader, runs, prompts, result>>

\* get_config: what was read once is served again, a failure is not kept.
Read == IF cached # "none" THEN cached ELSE files

LoadConfig ==
    /\ pc = "load"
    /\ IF Read = "broken"
       THEN config' = "empty" /\ error' = "load" /\ UNCHANGED cached
       ELSE config' = Read /\ cached' = Read /\ UNCHANGED error
    /\ pc' = "logging"
    /\ UNCHANGED <<call, step, world, logvars, cachedOwn, log, prefs, saved, output, reader, runs, prompts, raised, result>>

\* _load_log_variables: LOG_* of .env never replace one that is set, and stay.
LogVariables == IF logvars = "none" THEN dotenv ELSE logvars

\* _build_runtime_config and the runtime's own checks.
RefusesSettings(settings, variables) == settings = "badlog" \/ variables = "bad"

\* init_logging: at once when the runtime is up.  Settings the runtime refuses
\* leave it up with defaults, LOG_* variables hidden from it when they are
\* what it refuses, and put back.
StartLogging ==
    /\ pc = "logging"
    /\ pc' = "store" /\ log' = TRUE
    /\ IF log THEN UNCHANGED <<logvars, config, error>>
       ELSE /\ logvars' = LogVariables
            /\ IF RefusesSettings(config, LogVariables)
               THEN /\ config' = "empty"
                    /\ error' = IF error = "none" THEN "logging" ELSE error
               ELSE UNCHANGED <<config, error>>
    /\ UNCHANGED <<call, step, world, cached, cachedOwn, prefs, saved, output, reader, runs, prompts, raised, result>>

\* --elevate asks for root or an administrator only when not one already.
MustElevate == Flag("elevate") /\ ~Flag("root")

\* A configuration that cannot be read ends every command.
StoreContextStrict ==
    /\ pc = "store"
    /\ prefs' = Flag("traceback")
    /\ IF error # "none" THEN LeaveFor("config", 78)
       ELSE pc' = (IF MustElevate THEN "elevate" ELSE "options") /\ UNCHANGED result
    /\ UNCHANGED <<call, step, world, logvars, cached, cachedOwn, config, error, log, saved, output, reader, runs, prompts, raised>>

\* store_cli_context and apply_traceback_preferences.
StoreContext ==
    /\ pc = "store"
    /\ prefs' = Flag("traceback")
    /\ pc' = IF MustElevate THEN "elevate" ELSE "options"
    /\ UNCHANGED <<call, step, world, logvars, cached, cachedOwn, config, error, log, saved, output, reader, runs, prompts, raised, result>>

-----------------------------------------------------------------------------
(* ps.elevate(wait=True), in the parent. *)

Elevating(next) ==
    /\ pc' = next
    /\ UNCHANGED <<call, step, world, loaded, output, reader, runs, raised, result>>

Elevated(why, n) ==
    /\ LeaveFor(why, n)
    /\ UNCHANGED <<call, step, world, loaded, output, reader, raised>>

\* A mapped drive, or a script the child could not open: before the prompt.
RefuseDirectory ==
    /\ pc = "elevate" /\ platform = "win32"
    /\ Elevated("directory", 70) /\ UNCHANGED <<runs, prompts>>

\* The child's own code is passed on, the command run in it or refused there.
ChildEnds == \E n \in ProgramCodes : Elevated("none", n) /\ runs' \in 0..1

\* The prompt is answered by ShellExecuteEx: no, an error, or a child.
ShellExecute ==
    /\ pc = "elevate" /\ platform = "win32"
    /\ \/ Elevated("declined", 77) /\ UNCHANGED runs
       \/ Raise("native") /\ UNCHANGED <<call, step, world, loaded, output, reader, runs, result>>
       \/ ChildEnds
    /\ prompts' = 1

\* sudo is missing; or it runs this interpreter without a password; or not.
FindSudo ==
    /\ pc = "elevate" /\ platform # "win32"
    /\ \/ Raise("native") /\ UNCHANGED <<call, step, world, loaded, output, reader, runs, result>>
       \/ Elevating("relaunch")
       \/ Elevating("ask")
    /\ UNCHANGED prompts

\* sudo -v asks; then sudo -n -v must find the credential cached.
AskSudo ==
    /\ pc = "ask"
    /\ prompts' = prompts + 1
    /\ \/ Elevated("declined", 77) /\ UNCHANGED runs
       \/ Elevating("relaunch")

\* A child that ran is followed by the command in this process.
RelaunchThenRuns ==
    /\ pc = "relaunch"
    /\ runs' = 1 /\ pc' = "options"
    /\ UNCHANGED <<call, step, world, loaded, output, reader, prompts, raised, result>>

\* sudo -n never asks: the child runs, or the credential is gone by now.
Relaunch ==
    /\ pc = "relaunch"
    /\ \/ Elevated("none", 1) /\ UNCHANGED runs
       \/ ChildEnds
    /\ UNCHANGED prompts

-----------------------------------------------------------------------------
(* The command's body. *)

Body == Steps(call.cmd)
At(s) == pc = "body" /\ step <= Len(Body) /\ Body[step] = s

\* The subcommand's own options are parsed after the root's callback ran.
Options ==
    /\ pc = "options"
    /\ IF Flag("badoption") THEN Raise("usage") ELSE pc' = "body" /\ UNCHANGED raised
    /\ UNCHANGED <<call, step, world, loaded, output, reader, runs, prompts, result>>

Continue == step' = step + 1 /\ pc' = "body"

Quiet == UNCHANGED <<call, world, loaded, output, reader, runs, prompts>>

\* resolve_format, and the checks a command makes of its own values.
Refuse ==
    /\ At("format") \/ At("check")
    /\ IF \/ At("format") /\ {"json", "jsonl"} \subseteq call.flags
          \/ At("check") /\ Flag("badvalue")
       THEN Raise("usage") /\ UNCHANGED step
       ELSE Continue /\ UNCHANGED raised
    /\ Quiet /\ UNCHANGED result

\* require_config, or load_config again for the command's own --profile.
NeedConfig ==
    /\ At("config")
    /\ \/ ~Flag("profile") /\ error = "none" /\ Continue /\ UNCHANGED <<result, cachedOwn>>
       \/ ~Flag("profile") /\ error # "none" /\ LeaveFor("config", 78) /\ UNCHANGED <<step, cachedOwn>>
       \/ Flag("profile") /\ (cachedOwn \/ files # "broken") /\ Continue /\ cachedOwn' = TRUE /\ UNCHANGED result
       \/ Flag("profile") /\ ~cachedOwn /\ files = "broken" /\ LeaveFor("config", 78) /\ UNCHANGED <<step, cachedOwn>>
    /\ UNCHANGED <<call, world, logvars, cached, config, error, log, prefs, saved, output, reader, runs, prompts, raised>>

\* What the facade refuses before it reaches a port.
Refused ==
    call.cmd \in RefusedOn(platform) \/ (call.cmd \in Validating /\ Flag("badvalue"))

\* The facade's operation.  A lazy one returns a pipeline nobody has read.
CallOperation ==
    /\ At("call")
    /\ \/ /\ Refused
          /\ Raise(IF call.cmd \in RefusedOn(platform) THEN "unsupported" ELSE "value")
          /\ UNCHANGED <<step, runs>>
       \/ /\ ~Refused /\ call.cmd \in Lazy
          /\ \/ Continue /\ UNCHANGED raised
             \/ call.cmd = "get_content_lines" /\ Raise("native") /\ UNCHANGED step
          /\ UNCHANGED runs
       \/ /\ ~Refused /\ call.cmd \notin Lazy
          /\ runs' = runs + 1
          /\ \/ call.cmd # "fail" /\ Continue /\ UNCHANGED raised
             \/ \E e \in {"native", "denied", "timeout"} : Raise(e) /\ UNCHANGED step
    /\ UNCHANGED <<call, world, loaded, output, reader, prompts, result>>

\* config-deploy and config-generate-examples catch what fails themselves.
Deploy ==
    /\ At("deploy")
    /\ runs' = runs + 1
    /\ \/ Continue /\ UNCHANGED result
       \/ \E n \in {1, 13} : Leave(n) /\ UNCHANGED step
       \/ LeaveFor("config", 78) /\ UNCHANGED step
    /\ UNCHANGED <<call, world, loaded, output, reader, prompts, raised>>

\* run_logdemo: the demo needs the runtime shut down, and may be refused.
Logdemo ==
    /\ At("logdemo")
    /\ log' = FALSE
    /\ IF logvars = "bad" THEN LeaveFor("config", 78) /\ UNCHANGED step ELSE Continue /\ UNCHANGED result
    /\ UNCHANGED <<call, world, logvars, cached, cachedOwn, config, error, prefs, saved, output, reader, runs, prompts, raised>>

Found ==
    /\ At("found")
    /\ \/ Continue /\ UNCHANGED result
       \/ Leave(1) /\ UNCHANGED step
    /\ Quiet /\ UNCHANGED raised

\* click.echo: click itself turns a closed pipe into exit code 1.
Echo ==
    /\ At("echo")
    /\ IF reader THEN Continue /\ UNCHANGED raised ELSE Raise("closed") /\ UNCHANGED step
    /\ Quiet /\ UNCHANGED result

\* emit_text, emit_json, emit_lines: a closed pipe ends the write, no more.
Write ==
    /\ At("text") \/ At("json")
    /\ Continue /\ Quiet /\ UNCHANGED <<raised, result>>

\* exec ends with the program's own code, a question with its answer.
Answer ==
    /\ At("answer")
    /\ \E n \in IF call.cmd = "exec" THEN ProgramCodes ELSE 0..1 : Leave(n)
    /\ UNCHANGED step /\ Quiet /\ UNCHANGED raised

\* The callback returned.
Return ==
    /\ pc = "body" /\ step > Len(Body)
    /\ Leave(0) /\ UNCHANGED step /\ Quiet /\ UNCHANGED raised

-----------------------------------------------------------------------------
(* emit and emit_lines. *)

Human == call.flags \cap {"json", "jsonl"} = {} /\ Body[step] = "emit"
Array == "json" \in call.flags /\ Body[step] = "emit"
Flushes == "jsonl" \in call.flags /\ Body[step] = "emit"

\* --limit: Pipeline.take stops without asking for a record it will not pass.
Taken(n, fails) ==
    IF Flag("limit") /\ n > 0 THEN [left |-> 1, fails |-> FALSE] ELSE [left |-> n, fails |-> fails]

\* The iterator is made; a list of one record cannot fail any more.
OpenSource ==
    /\ At("emit") \/ At("lines")
    /\ pc' = "emit"
    /\ IF call.cmd \in Lazy
       THEN /\ runs' = runs + 1
            /\ \E n \in 0..MaxRecords, fails \in BOOLEAN : source' = Taken(n, fails)
       ELSE source' = [left |-> 1, fails |-> FALSE] /\ UNCHANGED runs
    /\ UNCHANGED <<call, step, world, loaded, got, sent, array, reader, prompts, raised, result>>

\* clean_broken_pipe: stdout goes to /dev/null and the writing is over.
ReaderGone ==
    /\ Continue
    /\ array' = IF array = "open" THEN "cut" ELSE array
    /\ UNCHANGED <<source, got, sent>>

\* One record: written and flushed (JSONL), into the buffer, where a closed
\* pipe may go unnoticed for a while, or kept for the table, which takes no
\* more than it can show.
Pull ==
    /\ pc = "emit" /\ source.left > 0 /\ (Human => got < MaxRows)
    /\ \/ /\ reader \/ ~Flushes
          /\ source' = [source EXCEPT !.left = @ - 1]
          /\ got' = got + 1
          /\ sent' = IF Human THEN sent ELSE sent + 1
          /\ array' = IF Array THEN "open" ELSE array
          /\ UNCHANGED <<pc, step>>
       \/ ~reader /\ ~Human /\ ReaderGone
    /\ UNCHANGED <<call, world, loaded, reader, runs, prompts, raised, result>>

\* A source that failed is taken for one that ended.
SourceFailsQuietly ==
    /\ pc = "emit" /\ source.left = 0 /\ source.fails /\ (Human => got < MaxRows)
    /\ Continue
    /\ UNCHANGED <<call, world, loaded, output, reader, runs, prompts, raised, result>>

SourceFails ==
    /\ pc = "emit" /\ source.left = 0 /\ source.fails /\ (Human => got < MaxRows)
    /\ Raise("native")
    /\ array' = IF array = "open" THEN "cut" ELSE array
    /\ UNCHANGED <<call, step, world, loaded, source, got, sent, reader, runs, prompts, result>>

\* The source is exhausted: the array is closed and flushed.
SourceEnds ==
    /\ pc = "emit" /\ source.left = 0 /\ ~source.fails /\ ~Human
    /\ IF reader
       THEN /\ Continue
            /\ array' = IF Array THEN "whole" ELSE array
            /\ UNCHANGED <<source, got, sent>>
       ELSE ReaderGone
    /\ UNCHANGED <<call, world, loaded, reader, runs, prompts, raised, result>>

\* The table is printed when its rows are in, or when it is full: then one
\* more pull, which may fail, tells whether rows are left out.
PrintTable ==
    /\ pc = "emit" /\ Human
    /\ got = MaxRows \/ source = NoSource
    /\ IF source.left = 0 /\ source.fails THEN Raise("native") /\ UNCHANGED <<step, sent>>
       ELSE IF reader THEN Continue /\ sent' = got /\ UNCHANGED raised
       ELSE Raise("closed") /\ UNCHANGED <<step, sent>>
    /\ UNCHANGED <<call, world, loaded, source, got, array, reader, runs, prompts, result>>

-----------------------------------------------------------------------------
(* The way out, and what others do. *)

\* _run_cli's handlers: the log lines first, then the message, then the code.
Handle ==
    /\ pc = "handle"
    /\ Leave(ExitCode(raised))
    /\ UNCHANGED <<call, step, world, loaded, output, reader, runs, prompts, raised>>

\* The preferences are put back for a call that succeeded only.
FinallyOnSuccess ==
    /\ pc = "finally"
    /\ prefs' = IF code = 0 THEN saved ELSE prefs
    /\ log' = (log /\ Flag("worker"))
    /\ pc' = "done"
    /\ UNCHANGED <<call, step, world, logvars, cached, cachedOwn, config, error, saved, output, reader, runs, prompts, raised, result>>

\* main's finally: the preferences are the caller's again; the runtime is
\* shut down by the main thread only.
Finally ==
    /\ pc = "finally"
    /\ prefs' = saved
    /\ log' = (log /\ Flag("worker"))
    /\ pc' = "done"
    /\ UNCHANGED <<call, step, world, logvars, cached, cachedOwn, config, error, saved, output, reader, runs, prompts, raised, result>>

\* The caller has the result: what belonged to the call is gone.
Forget ==
    /\ pc = "done"
    /\ pc' = "idle" /\ call' = NoCall /\ step' = 1 /\ saved' = FALSE
    /\ config' = "empty" /\ error' = "none"
    /\ source' = NoSource /\ got' = 0 /\ sent' = 0 /\ array' = "none" /\ reader' = TRUE
    /\ runs' = 0 /\ prompts' = 0 /\ raised' = "none" /\ code' = NoCode /\ cause' = "none"
    /\ UNCHANGED <<world, logvars, cached, cachedOwn, log, prefs>>

CloseReader ==
    /\ pc \notin {"idle", "done"} /\ reader /\ reader' = FALSE
    /\ UNCHANGED <<pc, call, step, world, loaded, output, runs, prompts, raised, result>>

\* Somebody edits the configuration or .env between two calls.
EditFiles ==
    /\ pc = "idle"
    /\ files' \in {"good", "broken", "badlog"} /\ dotenv' \in {"none", "bad"}
    /\ UNCHANGED <<pc, call, step, platform, loaded, output, reader, runs, prompts, raised, result>>

Step ==
    \/ Resolve \/ LoadConfig \/ StartLogging \/ StoreContext
    \/ RefuseDirectory \/ ShellExecute \/ FindSudo \/ AskSudo \/ Relaunch
    \/ Options \/ Refuse \/ NeedConfig \/ CallOperation \/ Deploy \/ Logdemo \/ Found
    \/ Echo \/ Write \/ Answer \/ Return
    \/ OpenSource \/ Pull \/ SourceFails \/ SourceEnds \/ PrintTable
    \/ Handle \/ Finally \/ Forget

Next == Step \/ CloseReader \/ EditFiles \/ \E c \in Calls : Call(c)

Spec == Init /\ [][Next]_vars

-----------------------------------------------------------------------------

Over == pc = "done"

\* Success is complete: a listing that ends with 0 while stdout was read to
\* the end has written every record of a source that did not fail, and closed
\* its array; or it is a table, and shows as many rows as it may.
SuccessIsComplete ==
    Over /\ code = 0 /\ reader =>
        /\ sent = got /\ array \in {"none", "whole"}
        /\ source = NoSource \/ (got = MaxRows /\ call.flags \cap {"json", "jsonl"} = {})

\* The commands that show the configuration or the logging it sets up.
Shows == Body[1] \in {"config", "logdemo"} \/ "deploy" \in {Body[i] : i \in 1..Len(Body)}

\* A configuration that cannot be read, or that logging refuses, stops only
\* the commands that show it, with 78, whatever a program exits with; and
\* config, run here, never passes an unreadable one off as empty.
BrokenConfigStopsOnlyItsReaders ==
    Over =>
        /\ cause = "config" => Shows /\ code = 78
        /\ code = 0 /\ Body[1] = "config" /\ ~Flag("profile") /\ ~MustElevate => error = "none"

\* A command is run at most once, by this process or by the elevated one, and
\* by nobody when elevation is refused: 77 and 70 say so, but not they alone.
RunsOnce ==
    /\ runs <= 1
    /\ Over /\ cause = "declined" => runs = 0 /\ code = 77
    /\ Over /\ cause = "directory" => runs = 0 /\ code = 70 /\ prompts = 0

\* Whatever happens in a call of the main thread, the next one finds the
\* traceback preferences of before and no logging runtime.
NothingLeftBehind == Over => prefs = FALSE /\ (log => Flag("worker"))
-----------------------------------------------------------------------------
(* The inductive invariant of the proofs.                                  *)

Before == {"idle", "resolve", "load", "logging", "store", "elevate", "ask", "relaunch", "options"}
Ending == {"finally", "done"}

\* The types the proofs use, and which step of the body is under way.
CallInv ==
    /\ pc \in Before \cup Ending \cup {"body", "emit", "handle"}
    /\ step \in Nat \ {0} /\ runs \in Nat /\ got \in Nat /\ sent \in Nat
    /\ source \in [left : Nat, fails : BOOLEAN]
    /\ pc # "idle" => call \in Calls
    /\ pc = "emit" => step <= Len(Body) /\ Body[step] \in {"emit", "lines"}

\* Nobody's preferences but the caller's, which has none of its own.
PrefsInv ==
    /\ saved = FALSE
    /\ pc = "idle" => prefs = FALSE
    /\ pc = "done" => prefs = FALSE /\ (log => Flag("worker"))

\* The step at which a command is run: a lazy one when its records are read.
RunsAt(i) ==
    \/ Body[i] = "deploy"
    \/ Body[i] = "call" /\ call.cmd \notin Lazy
    \/ Body[i] \in {"emit", "lines"} /\ call.cmd \in Lazy

\* The steps still to do: the one that emits has begun.
StepsLeft == {i \in 1..Len(Body) : i >= step /\ (pc = "emit" => i # step)}

RunsInv ==
    /\ runs <= 1
    /\ pc \in Before => runs = 0
    /\ pc \in {"body", "emit"} /\ (\E i \in StepsLeft : RunsAt(i)) => runs = 0

\* Why a call ends, and that config goes on with a configuration only.
CodeInv ==
    /\ pc \in Before => step = 1 /\ (prompts = 0 \/ pc \in {"ask", "relaunch"})
    /\ pc \in Ending =>
        /\ cause = "declined" => runs = 0 /\ code = 77
        /\ cause = "directory" => runs = 0 /\ code = 70 /\ prompts = 0
        /\ cause = "config" => Shows /\ code = 78
        /\ code = 0 /\ Body[1] = "config" /\ ~Flag("profile") /\ ~MustElevate => error = "none"
    /\ pc \in {"elevate", "ask", "relaunch"} => MustElevate
    /\ pc \in {"body", "emit"} /\ step > 1 /\ Body[1] = "config" /\ ~Flag("profile") => error = "none"

\* Nothing of a listing is read yet; all of it is written; what is read is written.
NothingRead == source = NoSource /\ got = 0 /\ sent = 0 /\ array = "none"

AllWritten ==
    /\ sent = got /\ array \in {"none", "whole"}
    /\ source = NoSource \/ (got = MaxRows /\ call.flags \cap {"json", "jsonl"} = {})

OutputInv ==
    /\ pc \in Before => NothingRead
    /\ pc = "body" /\ (\E i \in StepsLeft : Body[i] \in {"emit", "lines"}) => NothingRead
    /\ reader /\ pc = "body" => AllWritten
    /\ reader /\ pc = "emit" =>
        IF Human THEN sent = 0 /\ array = "none" /\ got <= MaxRows
        ELSE sent = got /\ array \in IF Array THEN {"none", "open"} ELSE {"none"}
    /\ reader /\ pc \in Ending /\ code = 0 => AllWritten

CliInv == CallInv /\ PrefsInv /\ RunsInv /\ CodeInv /\ OutputInv
=============================================================================
