---------------------------- MODULE RunnerStart -----------------------------
(***************************************************************************)
(* One start of a packed POSIX runner, from its arguments to the script:   *)
(* the switches, the relaunch under sudo, the cache, the search for uv and *)
(* its installation, what a root run does to the environment before uv and *)
(* git see it, and the shim that gives the script the caller's back.       *)
(*                                                                         *)
(* The judgements of a root run are those of TrustWalk and are outcomes    *)
(* here; the shared cache is PackCache's and is verified or unpacked in    *)
(* one step.                                                               *)
(***************************************************************************)
EXTENDS Naturals, Sequences, FiniteSets, SequencesExt

CONSTANTS
    ArgVectors,         \* the argument vectors the runner can be given
    CallerSets,         \* the variables the caller may have set
    OnPath, Fixed       \* places a uv is searched: so many on PATH, then these

ASSUME StartAssumption ==
    /\ OnPath \in Nat /\ Fixed \in Nat \ {0}
    /\ \A a \in ArgVectors : a \in Seq(STRING)

(* Environment variables: one for each treatment the code gives them.      *)
Dropped == {"UV_PYTHON", "GIT_SSH_COMMAND"}
Pinned  == {"GIT_CONFIG_GLOBAL", "UV_PYTHON_INSTALL_DIR", "UV_CACHE_DIR"}
Home    == {"HOME", "NETRC", "TMPDIR"}
Marker  == "PWSHPY_PACK_CALLER"
Saved   == [HOME |-> "PWSHPY_PACK_CALLER_HOME", NETRC |-> "PWSHPY_PACK_CALLER_NETRC",
            TMPDIR |-> "PWSHPY_PACK_CALLER_TMPDIR"]
HandedPath == "PWSHPY_PACK_PATH"
HandedArgv == "PWSHPY_PACK_ARGV"
Variables ==
    Dropped \cup Pinned \cup Home \cup {Saved[v] : v \in Home}
      \cup {"PATH", Marker, HandedPath, HandedArgv}

\* A value is known by who chose it and for which variable.
Unset        == <<"unset", "">>
Caller(v)    == <<"caller", v>>
Account(v)   == <<"account", v>>     \* the running account's own, or a constant
FixedPath    == <<"system", "PATH">> \* the system directories
TrustedPath  == <<"trusted", "PATH">>\* those of the caller's nobody else can write

Switches == [clean : BOOLEAN, noInstall : BOOLEAN, elevate : BOOLEAN,
             info : BOOLEAN, pin : {"", "pin"}]
NoSwitches == [clean |-> FALSE, noInstall |-> FALSE, elevate |-> FALSE,
               info |-> FALSE, pin |-> ""]

VARIABLES
    root,       \* PWSHPY_AS_ROOT
    asked,      \* the argument vector of the user
    args,       \* "$@"
    sw,         \* the switches parsed so far
    before,     \* the environment this run was started with
    env,        \* the environment
    callerPath, \* PWSHPY_CALLER_PATH
    umask,      \* "caller" or "022"
    uvs,        \* each place: "none", a uv root may "trust", one "others" can modify
    uv,         \* the place of PWSHPY_UV, 0 for the pin
    installed,  \* pwshpy_install_uv has run
    cache,      \* the cache directory: "absent", root's "own", writable by "others"
    tree,       \* pwshpy_verify_tree holds
    accepted,   \* what a judgement has accepted
    ran,        \* what has been run or removed
    saw,        \* variables uv, git or the installer saw a wrong value of, as root
    prompts,    \* password prompts of sudo
    at,         \* the section of the runner
    why         \* why it ended

envVars  == <<env, callerPath, umask>>
pastVars == <<accepted, ran, saw>>
argVars  == <<asked, args, sw>>
uvVars   == <<uvs, uv, installed>>
treeVars == <<cache, tree>>
vars == <<root, argVars, before, envVars, uvVars, treeVars, pastVars, prompts, at, why>>

Places == 1..OnPath + Fixed

\* The caller's variables are dropped when the run's own are set already.
RootStagesPinFirst ==
    <<"home", "pin", "drop", "handOver", "tmp", "pythonDir", "path", "git", "python", "exec">>

\* The order of a root run's sections before uv runs the script.
RootStages ==
    <<"home", "drop", "pin", "handOver", "tmp", "pythonDir", "path", "git", "python", "exec">>

After(stage) ==
    RootStages[1 + CHOOSE i \in 1..Len(RootStages) : RootStages[i] = stage]

CallerEnv(set) == [v \in Variables |-> IF v \in set \cup {"PATH"} THEN Caller(v) ELSE Unset]

Init ==
    /\ root \in BOOLEAN
    /\ asked \in ArgVectors /\ args = asked /\ sw = NoSwitches
    /\ \E set \in CallerSets : before = CallerEnv(set)
    /\ env = before /\ callerPath = Unset /\ umask = "caller"
    /\ uvs \in [Places -> {"none", "trust", "others"}] /\ uv = 0 /\ installed = FALSE
    /\ cache \in {"absent", "own", "others"}
    /\ tree \in BOOLEAN /\ (cache = "absent" => ~tree)
    /\ accepted = {} /\ ran = {} /\ saw = {}
    /\ prompts = 0 /\ at = "begin" /\ why = ""

\* pwshpy_die and every other exit before the script.
Exit(reason) == at' = "exit" /\ why' = reason

\* A judgement of thing: on to the next section, or exit 127.
Judge(thing, next) ==
    \/ at' = next /\ accepted' = accepted \cup {thing} /\ UNCHANGED why
    \/ Exit(thing) /\ UNCHANGED accepted

\* What uv and git are to find in the environment of a root run.
Right(v) ==
    CASE v \in Dropped \cup {"NETRC"}          -> {Unset}
      [] v \in Pinned \cup {"HOME", "TMPDIR"}  -> {Account(v)}
      [] v = "PATH"                            -> {FixedPath, TrustedPath}

\* The variables uv and git read that are not right in the environment e.
Sees(e) ==
    IF root THEN {v \in Dropped \cup Pinned \cup Home \cup {"PATH"} : e[v] \notin Right(v)}
    ELSE {}

\* A program runs with the environment as it is.
Runs(program) ==
    /\ ran' = ran \cup {program}
    /\ saw' = saw \cup Sees(env)

-----------------------------------------------------------------------------
(* Arguments and elevation                                                 *)

\* The helpers of a root run come from the system directories.
Begin ==
    /\ at = "begin"
    /\ callerPath' = env["PATH"]
    /\ env' = IF root THEN [env EXCEPT !["PATH"] = FixedPath] ELSE env
    /\ at' = "args"
    /\ UNCHANGED <<root, argVars, before, umask, uvVars, treeVars, pastVars, prompts, why>>

\* No base64 decoder, or nothing that computes a sha256.
ToolMissing ==
    /\ at = "begin"
    /\ Exit("tool")
    /\ UNCHANGED <<root, argVars, before, envVars, uvVars, treeVars, pastVars, prompts>>

\* One round of the argument loop.
ParseArg ==
    /\ at = "args" /\ args # <<>>
    /\ LET a == Head(args)
           Take(switches) == sw' = switches /\ args' = Tail(args) /\ UNCHANGED <<at, why>>
           Break(vector)  == args' = vector /\ at' = "parsed" /\ UNCHANGED <<sw, why>>
       IN  CASE a = "--pwshpy-help"          -> Exit("help") /\ UNCHANGED <<args, sw>>
             [] a = "--pwshpy-info"          -> Take([sw EXCEPT !.info = TRUE])
             [] a = "--pwshpy-clean"         -> Take([sw EXCEPT !.clean = TRUE])
             [] a = "--pwshpy-no-install-uv" -> Take([sw EXCEPT !.noInstall = TRUE])
             [] a = "--pwshpy-elevate"       -> Take([sw EXCEPT !.elevate = TRUE])
             [] a = "--pwshpy-uv" ->
                  IF Len(args) < 2 \/ args[2] # "pin"
                    THEN Exit("usage") /\ UNCHANGED <<args, sw>>
                    ELSE /\ sw' = [sw EXCEPT !.pin = "pin"]
                         /\ args' = Tail(Tail(args))
                         /\ UNCHANGED <<at, why>>
             [] a = "--"                     -> Break(Tail(args))
             [] OTHER                        -> Break(args)
    /\ UNCHANGED <<root, asked, before, envVars, uvVars, treeVars, pastVars, prompts>>

NoMoreArgs ==
    /\ at = "args" /\ args = <<>>
    /\ at' = "parsed"
    /\ UNCHANGED <<root, argVars, before, envVars, uvVars, treeVars, pastVars, prompts, why>>

\* A root run reads its home from the passwd database.  The manifest needs no
\* root; then the elevation, if it is asked and needed.
Parsed ==
    /\ at = "parsed"
    /\ \/ root /\ Exit("home")
       \/ sw.info /\ Exit("info")
       \/ /\ ~sw.info
          /\ at' = IF sw.elevate /\ ~root THEN "elevate"
                   ELSE IF root THEN "judgeCache" ELSE "clean"
          /\ UNCHANGED why
    /\ UNCHANGED <<root, argVars, before, envVars, uvVars, treeVars, pastVars, prompts>>

\* sudo is missing; the prompt is refused, or sudo keeps no credential.
ElevationDeclined ==
    /\ at = "elevate"
    /\ Exit("declined")
    /\ \E asks \in {0, 1} : prompts' = prompts + asks
    /\ UNCHANGED <<root, argVars, before, envVars, uvVars, treeVars, pastVars>>

\* The switches to pass on, without the end of the switches behind them.
RelaunchArgsOpen ==
    (IF sw.clean THEN <<"--pwshpy-clean">> ELSE <<>>)
      \o (IF sw.noInstall THEN <<"--pwshpy-no-install-uv">> ELSE <<>>)
      \o (IF sw.pin # "" THEN <<"--pwshpy-uv", sw.pin>> ELSE <<>>)
      \o args

RelaunchArgs ==
    (IF sw.clean THEN <<"--pwshpy-clean">> ELSE <<>>)
      \o (IF sw.noInstall THEN <<"--pwshpy-no-install-uv">> ELSE <<>>)
      \o (IF sw.pin # "" THEN <<"--pwshpy-uv", sw.pin>> ELSE <<>>)
      \o <<"--">> \o args

\* By a rule without a password, or after one prompt; the relaunch never asks.
\* sudo keeps the caller's environment (-E, env_keep) or resets it.
Elevate ==
    /\ at = "elevate"
    /\ root' = TRUE /\ args' = RelaunchArgs /\ sw' = NoSwitches
    /\ \E asks \in {0, 1} : prompts' = prompts + asks
    /\ \E e \in {before, CallerEnv({"HOME"})} : before' = e /\ env' = e
    /\ at' = "begin"
    /\ UNCHANGED <<asked, callerPath, umask, uvVars, treeVars, pastVars, why>>

-----------------------------------------------------------------------------
(* The cache                                                               *)

\* pwshpy_require_trusted_cache before anything is removed or written; an
\* absent one is judged by the directory it will be in.
JudgeCache ==
    /\ at = "judgeCache"
    /\ \/ /\ cache # "others" /\ at' = "clean"
          /\ accepted' = accepted \cup {"cache"} /\ UNCHANGED why
       \/ cache # "own" /\ Exit("cache") /\ UNCHANGED accepted
    /\ UNCHANGED <<root, argVars, before, envVars, uvVars, treeVars, ran, saw, prompts>>

Clean ==
    /\ at = "clean"
    /\ IF sw.clean
         THEN ran' = ran \cup {"rm"} /\ cache' = "absent" /\ tree' = FALSE
         ELSE UNCHANGED <<ran, treeVars>>
    /\ at' = "verify"
    /\ UNCHANGED <<root, argVars, before, envVars, uvVars, accepted, saw, prompts, why>>

\* A tree that verifies is used as it is; else the unpacking, as root under
\* umask 022.
VerifyKeepsUmask ==
    /\ at = "verify"
    /\ at' = IF tree THEN "uv" ELSE "unpack"
    /\ UNCHANGED <<root, argVars, before, envVars, uvVars, treeVars, pastVars, prompts, why>>

Verify ==
    /\ at = "verify"
    /\ at' = IF tree THEN "uv" ELSE "unpack"
    /\ umask' = IF ~tree /\ root THEN "022" ELSE umask
    /\ UNCHANGED <<root, argVars, before, env, callerPath, uvVars, treeVars, pastVars, prompts, why>>

\* pwshpy_unpack_locked (PackCache); the caller's umask may let the group write.
Unpack ==
    /\ at = "unpack"
    /\ \/ /\ cache' = IF umask = "caller" /\ root THEN "others" ELSE "own"
          /\ tree' = TRUE /\ at' = "unpacked" /\ UNCHANGED why
       \/ Exit("unpack") /\ UNCHANGED treeVars
    /\ UNCHANGED <<root, argVars, before, envVars, uvVars, pastVars, prompts>>

\* The caller's umask is back; a root run judges what it has written.
Unpacked ==
    /\ at = "unpacked"
    /\ umask' = "caller"
    /\ IF root /\ cache # "own" THEN Exit("cacheAfter") ELSE at' = "uv" /\ UNCHANGED why
    /\ UNCHANGED <<root, argVars, before, env, callerPath, uvVars, treeVars, pastVars, prompts>>

-----------------------------------------------------------------------------
(* uv                                                                      *)

\* Not root: whatever is there.  As root: what pwshpy_uv_acceptable accepts.
Usable(p) == uvs[p] # "none" /\ (root => uvs[p] = "trust")

\* The pin is the whole answer; it is not there, or root does not trust it.
UsePin ==
    /\ at = "uv" /\ sw.pin # ""
    /\ uv' = 0
    /\ Judge("uv", IF root THEN "home" ELSE "exec")
    /\ UNCHANGED <<root, argVars, before, envVars, uvs, installed, treeVars, ran, saw, prompts>>

\* pwshpy_find_uv: the first usable one.
FindUv ==
    /\ at = "uv" /\ sw.pin = ""
    /\ \E p \in Places :
         /\ Usable(p) /\ \A q \in 1..p - 1 : ~Usable(q)
         /\ uv' = p
    /\ accepted' = accepted \cup {"uv"}
    /\ at' = IF root THEN "home" ELSE "exec"
    /\ UNCHANGED <<root, argVars, before, envVars, uvs, installed, treeVars, ran, saw, prompts, why>>

NoUv ==
    /\ at = "uv" /\ sw.pin = "" /\ \A p \in Places : ~Usable(p)
    /\ IF sw.noInstall \/ installed THEN Exit("noUv")
       ELSE /\ at' = IF root THEN "installTmp" ELSE "install"
            /\ UNCHANGED why
    /\ UNCHANGED <<root, argVars, before, envVars, uvVars, treeVars, pastVars, prompts>>

\* The installer of a root run is downloaded into the private directory.
JudgeInstallTmp ==
    /\ at = "installTmp"
    /\ Judge("tmp", "install")
    /\ UNCHANGED <<root, argVars, before, envVars, uvVars, treeVars, ran, saw, prompts>>

\* pwshpy_installer_env: nothing of the caller's environment as root.  A new
\* uv is in the account's ~/.local/bin, the first of the fixed places.
Install ==
    /\ at = "install"
    /\ ran' = ran \cup {"installer"}
    /\ \/ /\ installed' = TRUE /\ at' = "uv" /\ UNCHANGED why
          /\ \E u \in {"trust", "others"} : uvs' = [uvs EXCEPT ![OnPath + 1] = u]
       \/ Exit("install") /\ UNCHANGED <<uvs, installed>>
    /\ UNCHANGED <<root, argVars, before, envVars, uv, treeVars, accepted, saw, prompts>>

-----------------------------------------------------------------------------
(* What a root run does before uv runs                                     *)

\* The data directory, from the passwd database, and the working directory.
AccountHome ==
    /\ at = "home"
    /\ \/ at' = After("home") /\ UNCHANGED why
       \/ Exit("home")
    /\ UNCHANGED <<root, argVars, before, envVars, uvVars, treeVars, pastVars, prompts>>

\* pwshpy_drop_interpreter_variables, and the argument vector of another run.
DropVariables ==
    /\ at = "drop"
    /\ env' = [v \in Variables |->
                 IF v \in Dropped \cup Pinned \cup {HandedArgv} THEN Unset ELSE env[v]]
    /\ at' = After("drop")
    /\ UNCHANGED <<root, argVars, before, callerPath, umask, uvVars, treeVars, pastVars, prompts, why>>

PinVariables ==
    /\ at = "pin"
    /\ env' = [v \in Variables |-> IF v \in Pinned THEN Account(v) ELSE env[v]]
    /\ at' = After("pin")
    /\ UNCHANGED <<root, argVars, before, callerPath, umask, uvVars, treeVars, pastVars, prompts, why>>

\* A variable that is not set leaves what another run has handed over.
HandOverSetOnly ==
    /\ at = "handOver"
    /\ env' = [v \in Variables |->
                 IF \E h \in Home : v = Saved[h] /\ env[h] # Unset
                   THEN env[CHOOSE h \in Home : v = Saved[h]]
                 ELSE CASE v = Marker -> Account(Marker)
                        [] v = "HOME" -> Account(v)
                        [] v = "NETRC" -> Unset
                        [] OTHER -> env[v]]
    /\ at' = After("handOver")
    /\ UNCHANGED <<root, argVars, before, callerPath, umask, uvVars, treeVars, pastVars, prompts, why>>

\* The home variables are saved for the script, set or not, then replaced.
HandOver ==
    /\ at = "handOver"
    /\ env' = [v \in Variables |->
                 IF \E h \in Home : v = Saved[h]
                   THEN env[CHOOSE h \in Home : v = Saved[h]]
                 ELSE CASE v = Marker -> Account(Marker)
                        [] v = "HOME" -> Account(v)
                        [] v = "NETRC" -> Unset
                        [] OTHER -> env[v]]
    /\ at' = After("handOver")
    /\ UNCHANGED <<root, argVars, before, callerPath, umask, uvVars, treeVars, pastVars, prompts, why>>

\* pwshpy_private_tmp
PrivateTmp ==
    /\ at = "tmp"
    /\ env' = [env EXCEPT !["TMPDIR"] = Account("TMPDIR")]
    /\ Judge("tmp", After("tmp"))
    /\ UNCHANGED <<root, argVars, before, callerPath, umask, uvVars, treeVars, ran, saw, prompts>>

\* The directory is not judged: the Python found there is, later.
JudgePythonDirLater ==
    /\ at = "pythonDir"
    /\ at' = After("pythonDir")
    /\ UNCHANGED <<root, argVars, before, envVars, uvVars, treeVars, pastVars, prompts, why>>

JudgePythonDir ==
    /\ at = "pythonDir"
    /\ Judge("pythonDir", After("pythonDir"))
    /\ UNCHANGED <<root, argVars, before, envVars, uvVars, treeVars, ran, saw, prompts>>

\* pwshpy_trusted_path judges each directory and leaves the others out.
JudgePath ==
    /\ at = "path"
    /\ at' = After("path")
    /\ UNCHANGED <<root, argVars, before, envVars, uvVars, treeVars, pastVars, prompts, why>>

\* No git source, or no git on the trusted PATH; else the file is judged.
JudgeGit ==
    /\ at = "git"
    /\ \/ at' = After("git") /\ UNCHANGED <<accepted, why>>
       \/ Judge("git", "gitVersion")
    /\ UNCHANGED <<root, argVars, before, envVars, uvVars, treeVars, ran, saw, prompts>>

\* pwshpy_require_git_config_global runs it.
GitVersion ==
    /\ at = "gitVersion"
    /\ Runs("git")
    /\ \/ at' = After("git") /\ UNCHANGED why
       \/ Exit("git")
    /\ UNCHANGED <<root, argVars, before, envVars, uvVars, treeVars, accepted, prompts>>

\* pwshpy_resolve_managed_python: find, or install (unless downloads are off)
\* and find again; uv's own failures are the exit code.
FindPython ==
    /\ at = "python"
    /\ Runs("uv")
    /\ \/ at' = "judgePython" /\ UNCHANGED why
       \/ Exit("uvFailed")
    /\ UNCHANGED <<root, argVars, before, envVars, uvVars, treeVars, accepted, prompts>>

JudgePython ==
    /\ at = "judgePython"
    /\ Judge("python", After("python"))
    /\ UNCHANGED <<root, argVars, before, envVars, uvVars, treeVars, ran, saw, prompts>>

\* exec uv run: as root on the trusted PATH, the caller's handed over.
Exec ==
    /\ at = "exec"
    /\ env' = IF root THEN [env EXCEPT !["PATH"] = TrustedPath, ![HandedPath] = callerPath]
              ELSE env
    /\ ran' = ran \cup {"uv"} /\ saw' = saw \cup Sees(env')
    /\ at' = IF root THEN "shim" ELSE "script"
    /\ UNCHANGED <<root, argVars, before, callerPath, umask, uvVars, treeVars, accepted, prompts, why>>

\* The shim: the working directory, PATH, the home variables; every variable
\* of the hand-over is consumed.
Shim ==
    /\ at = "shim"
    /\ \/ /\ env' = [v \in Variables |->
                       IF v = "PATH" THEN env[HandedPath]
                       ELSE IF v \in Home THEN env[Saved[v]]
                       ELSE IF v \in {HandedPath, HandedArgv, Marker} \cup {Saved[h] : h \in Home}
                       THEN Unset ELSE env[v]]
          /\ at' = "script" /\ UNCHANGED why
       \/ Exit("cwd") /\ UNCHANGED env
    /\ UNCHANGED <<root, argVars, before, callerPath, umask, uvVars, treeVars, pastVars, prompts>>

-----------------------------------------------------------------------------
Next ==
    \/ Begin \/ ToolMissing \/ ParseArg \/ NoMoreArgs \/ Parsed
    \/ ElevationDeclined \/ Elevate
    \/ JudgeCache \/ Clean \/ Verify \/ Unpack \/ Unpacked
    \/ UsePin \/ FindUv \/ NoUv \/ JudgeInstallTmp \/ Install
    \/ AccountHome \/ DropVariables \/ PinVariables \/ HandOver \/ PrivateTmp
    \/ JudgePythonDir \/ JudgePath \/ JudgeGit \/ GitVersion
    \/ FindPython \/ JudgePython \/ Exec \/ Shim

Spec == Init /\ [][Next]_vars

-----------------------------------------------------------------------------
(* Properties                                                              *)

AfterUnpack == {"uv", "installTmp", "install", "gitVersion", "judgePython", "shim", "script"}
                 \cup ToSet(RootStages)

\* Types; sudo asks for a password at most once, whatever its configuration.
TypeOK ==
    /\ root \in BOOLEAN /\ sw \in Switches
    /\ uvs \in [Places -> {"none", "trust", "others"}] /\ uv \in 0..OnPath + Fixed
    /\ accepted \subseteq {"cache", "uv", "tmp", "pythonDir", "git", "python"}
    /\ ran \subseteq {"rm", "installer", "git", "uv"}
    /\ prompts \in 0..1
    /\ at \in AfterUnpack \cup {"begin", "args", "parsed", "elevate", "judgeCache",
                                "clean", "verify", "unpack", "unpacked", "exit"}

\* As root nothing is removed, run or searched that has not been judged
\* before: the cache before --pwshpy-clean removes it, the directory of
\* Pythons before uv runs each of them, git before it is asked its version.
\* A run that is refused for what it would use calls no uv, which could
\* download a Python first; and no uv is downloaded while one is to be trusted.
RootRunsOnlyJudged ==
    root =>
        /\ "rm" \in ran => "cache" \in accepted
        /\ "installer" \in ran => {"cache", "tmp"} \subseteq accepted
        /\ "git" \in ran => {"cache", "uv", "tmp", "git"} \subseteq accepted
        /\ "uv" \in ran => {"cache", "uv", "tmp", "pythonDir"} \subseteq accepted
        /\ at \in {"shim", "script"} => "python" \in accepted
        /\ uv # 0 => uvs[uv] = "trust"
        /\ at \in {"installTmp", "install"} => \A p \in Places : uvs[p] # "trust"
        /\ why \in {"cache", "uv", "noUv", "home", "tmp", "pythonDir", "git"} => "uv" \notin ran

\* Whenever uv or git runs as root, every variable it reads is the running
\* account's own, unset or a constant: none is the caller's, and what the
\* runner sets is not dropped again behind it.
UvSeesOwnSettings == saw = {}

\* The script of a root run gets the caller's home variables, temporary
\* directory and PATH back, those the caller had not set removed again, also
\* when this run itself was started by another packed script and found that
\* one's hand-over in its environment, none of which is left.  Not root, the
\* environment is untouched.
ScriptSeesCallers ==
    at = "script" =>
        /\ \A v \in Home \cup {"PATH"} : env[v] = before[v]
        /\ root => \A v \in {Marker, HandedPath, HandedArgv} \cup {Saved[h] : h \in Home} :
                      env[v] = Unset
        /\ ~root => env = before

\* A root run never refuses the cache it has just written, whatever the
\* caller's umask; and the caller's umask is back before anything else runs.
UnpackIsRootsOwn ==
    /\ why # "cacheAfter"
    /\ at \in AfterUnpack => umask = "caller"

SwitchWords == {"--pwshpy-help", "--pwshpy-info", "--pwshpy-clean", "--pwshpy-no-install-uv",
                "--pwshpy-elevate", "--pwshpy-uv"}

InFront(n) == {asked[i] : i \in 1..n}
Behind(n)  == SubSeq(asked, n + 1, Len(asked))

\* The first n arguments are switches of the runner's, with their values, and the
\* next is none.
AreSwitches(n) ==
    /\ InFront(n) \subseteq SwitchWords \cup {"pin"}
    /\ \A i \in 1..n : asked[i] = "pin" <=> i > 1 /\ asked[i - 1] = "--pwshpy-uv"
    /\ n > 0 => asked[n] # "--pwshpy-uv"

AreTheSwitches(n) ==
    AreSwitches(n) /\ (Behind(n) # <<>> => Head(Behind(n)) \notin SwitchWords)

ForTheScript(n) ==
    IF Behind(n) # <<>> /\ Head(Behind(n)) = "--" THEN Tail(Behind(n)) ELSE Behind(n)

\* The switches in front count, the elevated process included, and everything
\* behind them, also what looks like a switch, reaches the script as typed.
RequestSurvives ==
    at \in {"judgeCache", "clean"} \cup AfterUnpack =>
        \E n \in 0..Len(asked) :
            /\ AreTheSwitches(n)
            /\ args = ForTheScript(n)
            /\ sw.clean <=> "--pwshpy-clean" \in InFront(n)
            /\ sw.noInstall <=> "--pwshpy-no-install-uv" \in InFront(n)
            /\ (sw.pin = "pin") <=> "--pwshpy-uv" \in InFront(n)
            /\ "--pwshpy-elevate" \in InFront(n) => root

-----------------------------------------------------------------------------
(* The inductive invariant of the proofs.                                  *)

Parsing   == {"begin", "args", "parsed", "elevate"}
Unpacking == {"clean", "verify", "unpack", "unpacked"}
UvSearch  == {"uv", "installTmp", "install"}
Preparing == {"home", "drop", "pin", "handOver", "tmp"}
Prepared  == {"pythonDir", "path", "git", "gitVersion", "python", "judgePython", "exec", "shim"}

\* What a section has behind it: nothing is accepted or run while the arguments
\* are parsed, so that a relaunch starts from nothing, and a root run reaches a
\* section only through the judgements before it.
SectionInv ==
    /\ at \in Parsing \cup {"judgeCache"} => accepted = {} /\ ran = {}
    /\ at \in Parsing \cup {"judgeCache"} \cup Unpacking \cup UvSearch => uv = 0
    /\ at # "exit" => why = ""
    /\ at = "elevate" => ~root
    /\ ~root /\ at # "exit" => prompts = 0
    /\ at \in {"judgeCache", "installTmp"} \cup Preparing \cup (Prepared \ {"exec"}) => root
    /\ root =>
        /\ at \in Unpacking \cup UvSearch \cup Preparing \cup Prepared \cup {"script"} =>
             "cache" \in accepted
        /\ at = "install" => "tmp" \in accepted
        /\ at \in Preparing \cup Prepared \cup {"script"} => "uv" \in accepted
        /\ at \in Prepared \cup {"script"} => "tmp" \in accepted
        /\ at \in (Prepared \cup {"script"}) \ {"pythonDir"} => "pythonDir" \in accepted
        /\ at = "gitVersion" => "git" \in accepted
        /\ at \in {"exec", "shim", "script"} => "python" \in accepted
        /\ "uv" \in ran => at \in {"judgePython", "exec", "shim", "script", "exit"}

\* The caller's umask is replaced for the unpacking of a root run only, which then
\* leaves a cache of root's own.
UmaskInv ==
    /\ at \notin {"unpack", "unpacked", "exit"} => umask = "caller"
    /\ at = "unpack" /\ root => umask = "022"
    /\ at = "unpacked" /\ root => cache = "own"

\* What the environment of a root run holds, section by section: the caller's home
\* variables until they are handed over, then what uv and git may see.
EnvInv ==
    /\ env = [v \in Variables |-> env[v]] /\ before = [v \in Variables |-> before[v]]
    /\ ~root \/ at = "begin" => env = before
    /\ root =>
        /\ at \notin {"begin", "exit", "script"} => callerPath = before["PATH"]
        /\ at \notin {"begin", "exit", "shim", "script"} => env["PATH"] = FixedPath
        /\ at \in Parsing \cup {"judgeCache"} \cup Unpacking \cup UvSearch
                  \cup {"home", "drop", "pin", "handOver"} =>
             \A h \in Home : env[h] = before[h]
        /\ at \in {"pin", "handOver", "tmp"} \cup Prepared =>
             \A v \in Dropped \cup {HandedArgv} : env[v] = Unset
        /\ at \in {"handOver", "tmp"} \cup Prepared =>
             \A v \in Pinned : env[v] = Account(v)
        /\ at \in {"tmp"} \cup Prepared =>
             /\ env["HOME"] = Account("HOME") /\ env["NETRC"] = Unset
             /\ \A h \in Home : env[Saved[h]] = before[h]
        /\ at \in Prepared => env["TMPDIR"] = Account("TMPDIR")
        /\ at = "shim" => env[HandedPath] = before["PATH"]

StartInv ==
    /\ TypeOK /\ SectionInv /\ UmaskInv /\ EnvInv
    /\ RootRunsOnlyJudged /\ UvSeesOwnSettings /\ ScriptSeesCallers /\ UnpackIsRootsOwn

\* What an argument can be: of the caller's vector or of a relaunch's.
Words == SwitchWords \cup {"pin", "--"} \cup UNION {ToSet(a) : a \in ArgVectors}

\* The vector is parsed as far as n.
ParsedTo(n) ==
    /\ AreSwitches(n) /\ args = Behind(n)
    /\ sw.clean <=> "--pwshpy-clean" \in InFront(n)
    /\ sw.noInstall <=> "--pwshpy-no-install-uv" \in InFront(n)
    /\ (sw.pin = "pin") <=> "--pwshpy-uv" \in InFront(n)
    /\ sw.elevate <=> "--pwshpy-elevate" \in InFront(n)

\* What a relaunch has still to parse: the switches c, i and p and what is for the
\* script.
Passed(c, i, p, rest) ==
    (IF c THEN <<"--pwshpy-clean">> ELSE <<>>)
      \o ((IF i THEN <<"--pwshpy-no-install-uv">> ELSE <<>>)
      \o ((IF p THEN <<"--pwshpy-uv", "pin">> ELSE <<>>)
      \o (<<"--">> \o rest)))

\* The elevated process has parsed all but these of what it was passed.
RelaunchedWith(n, c, i, p) ==
    /\ AreTheSwitches(n) /\ root
    /\ args = Passed(c, i, p, ForTheScript(n))
    /\ sw.clean \/ c <=> "--pwshpy-clean" \in InFront(n)
    /\ sw.noInstall \/ i <=> "--pwshpy-no-install-uv" \in InFront(n)
    /\ (sw.pin = "pin" \/ p) <=> "--pwshpy-uv" \in InFront(n)

\* All is parsed.
RequestParsed(n) ==
    /\ AreTheSwitches(n) /\ args = ForTheScript(n)
    /\ sw.clean <=> "--pwshpy-clean" \in InFront(n)
    /\ sw.noInstall <=> "--pwshpy-no-install-uv" \in InFront(n)
    /\ (sw.pin = "pin") <=> "--pwshpy-uv" \in InFront(n)
    /\ "--pwshpy-elevate" \in InFront(n) => root \/ sw.elevate

\* How far the request is parsed in each section.
RequestInv ==
    /\ asked \in Seq(Words)
    /\ at \in {"begin", "args"} =>
         \E n \in 0..Len(asked) :
            ParsedTo(n) \/ \E c, i, p \in BOOLEAN : RelaunchedWith(n, c, i, p)
    /\ at \in {"parsed", "elevate"} => \E n \in 0..Len(asked) : RequestParsed(n)
    /\ at \in {"judgeCache"} \cup Unpacking \cup UvSearch \cup Preparing \cup Prepared \cup {"script"} =>
         \E n \in 0..Len(asked) :
            RequestParsed(n) /\ ("--pwshpy-elevate" \in InFront(n) => root)
=============================================================================
