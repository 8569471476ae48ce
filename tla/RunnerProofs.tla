---------------------------- MODULE RunnerProofs ----------------------------
(***************************************************************************)
(* Proofs about making, fetching and starting a script, for trees, argument *)
(* vectors, environments and bodies of any size: what MCRunner states of   *)
(* RunnerSpec.                                                             *)
(***************************************************************************)
EXTENDS MCRunner, Induction

-----------------------------------------------------------------------------
(* Downloads.                                                              *)

\* A client that has made no call satisfies the download invariant.
LEMMA WebInit == W!Init => W!WebInv
<1> SUFFICES ASSUME W!Init PROVE W!WebInv
  OBVIOUS
<1> MaxRedirects \in Nat /\ MaxChunks \in Nat \ {0}
  BY RunnerAssumption DEF RunnerAssumption, W!WebAssumption
<1>1. W!TypeOK
  <2>1. x3 \in BOOLEAN /\ x8 \in BOOLEAN /\ x13 \in BOOLEAN
    BY DEF W!Init
  <2> QED BY <2>1 DEF W!Init, W!TypeOK, W!Http
<1>2. W!CallInv /\ W!OnlyHttpIsOpened /\ W!DownloadIsWholeOrGone
  BY DEF W!Init, W!CallInv, W!OnlyHttpIsOpened, W!DownloadIsWholeOrGone
<1> QED BY <1>1, <1>2 DEF W!WebInv

\* Every step of a request or a download keeps it, whatever the server, the network
\* and the disk do.
LEMMA WebNext == W!WebInv /\ [W!Next]_(W!vars) => W!WebInv'
<1> SUFFICES ASSUME W!WebInv, [W!Next]_(W!vars) PROVE W!WebInv'
  OBVIOUS
<1> MaxRedirects \in Nat /\ MaxChunks \in Nat \ {0}
  BY RunnerAssumption DEF RunnerAssumption, W!WebAssumption
<1> USE DEF W!WebInv, W!TypeOK, W!CallInv, W!OnlyHttpIsOpened, W!DownloadIsWholeOrGone,
            W!Http, W!call, W!reply, W!disk, W!End, W!Goto, W!TransportFails
<1>1. CASE UNCHANGED W!vars
  BY <1>1 DEF W!vars
<1>2. ASSUME NEW o \in {"request", "download"}, NEW s \in W!Http \cup {"file"},
             NEW check \in BOOLEAN, W!Request(o, s, check)
      PROVE  W!WebInv'
  <2>1. W!TypeOK'
    BY <1>2 DEF W!Request
  <2>2. W!CallInv'
    BY <1>2 DEF W!Request
  <2>3. W!OnlyHttpIsOpened' /\ W!DownloadIsWholeOrGone'
    BY <1>2 DEF W!Request
  <2> QED BY <2>1, <2>2, <2>3
<1>3. CASE W!OpenUrl
  <2>1. W!TypeOK'
    BY <1>3 DEF W!OpenUrl
  <2>2. W!CallInv'
    BY <1>3 DEF W!OpenUrl
  <2>3. W!OnlyHttpIsOpened' /\ W!DownloadIsWholeOrGone'
    BY <1>3 DEF W!OpenUrl
  <2> QED BY <2>1, <2>2, <2>3
<1>4. CASE W!Redirect
  <2>1. W!TypeOK'
    BY <1>4 DEF W!Redirect
  <2>2. W!CallInv'
    BY <1>4 DEF W!Redirect
  <2>3. W!OnlyHttpIsOpened' /\ W!DownloadIsWholeOrGone'
    BY <1>4 DEF W!Redirect
  <2> QED BY <2>1, <2>2, <2>3
<1>5. CASE W!Head
  <2>1. W!TypeOK'
    <3>1. x1' \in {"read", "copy", "done"} /\ x11' \in {x11, "part"} /\ x13' \in BOOLEAN
      BY <1>5 DEF W!Head
    <3>2. x14' \in {x14, "http", "transport"}
      BY <1>5 DEF W!Head
    <3>3. UNCHANGED <<x2, x3, x4, x5, x6, x7, x8, x9, x10, x12>>
      BY <1>5 DEF W!Head
    <3>4. W!TypeOK
      OBVIOUS
    <3> QED BY ONLY <3>1, <3>2, <3>3, <3>4 DEF W!TypeOK
  <2>2. W!CallInv'
    BY <1>5 DEF W!Head
  <2>3. W!OnlyHttpIsOpened' /\ W!DownloadIsWholeOrGone'
    BY <1>5 DEF W!Head
  <2> QED BY <2>1, <2>2, <2>3
<1>6. CASE W!ReadBody
  <2>1. W!TypeOK'
    BY <1>6 DEF W!ReadBody
  <2>2. W!CallInv'
    BY <1>6 DEF W!ReadBody
  <2>3. W!OnlyHttpIsOpened' /\ W!DownloadIsWholeOrGone'
    BY <1>6 DEF W!ReadBody
  <2> QED BY <2>1, <2>2, <2>3
<1>7. CASE W!CopyChunk
  <2>1. W!TypeOK'
    BY <1>7 DEF W!CopyChunk
  <2>2. W!CallInv'
    BY <1>7 DEF W!CopyChunk
  <2>3. W!OnlyHttpIsOpened' /\ W!DownloadIsWholeOrGone'
    BY <1>7 DEF W!CopyChunk
  <2> QED BY <2>1, <2>2, <2>3
<1>8. CASE W!ConnectionCloses
  <2>1. W!TypeOK'
    BY <1>8 DEF W!ConnectionCloses
  <2>2. W!CallInv'
    BY <1>8 DEF W!ConnectionCloses
  <2>3. W!OnlyHttpIsOpened' /\ W!DownloadIsWholeOrGone'
    BY <1>8 DEF W!ConnectionCloses
  <2> QED BY <2>1, <2>2, <2>3
<1>9. CASE W!Unlink
  <2>1. W!TypeOK'
    BY <1>9 DEF W!Unlink
  <2>2. W!CallInv'
    BY <1>9 DEF W!Unlink
  <2>3. W!OnlyHttpIsOpened' /\ W!DownloadIsWholeOrGone'
    BY <1>9 DEF W!Unlink
  <2> QED BY <2>1, <2>2, <2>3
<1>10. CASE W!Forget
  <2>1. W!TypeOK'
    <3>1. (x3 \in BOOLEAN /\ x8 \in BOOLEAN /\ x13 \in BOOLEAN)'
      BY <1>10 DEF W!Forget
    <3> QED BY <1>10, <3>1 DEF W!Forget
  <2>2. W!CallInv'
    BY <1>10 DEF W!Forget
  <2>3. W!OnlyHttpIsOpened' /\ W!DownloadIsWholeOrGone'
    BY <1>10 DEF W!Forget
  <2> QED BY <2>1, <2>2, <2>3
<1> QED
  BY <1>1, <1>2, <1>3, <1>4, <1>5, <1>6, <1>7, <1>8, <1>9, <1>10 DEF W!Next

-----------------------------------------------------------------------------
(* The start of a packed runner.                                           *)

\* Where a root run goes from each of its sections.
LEMMA Stages ==
    /\ After("home") = "drop" /\ After("drop") = "pin" /\ After("pin") = "handOver"
    /\ After("handOver") = "tmp" /\ After("tmp") = "pythonDir"
    /\ After("pythonDir") = "path" /\ After("path") = "git"
    /\ After("git") = "python" /\ After("python") = "exec"
BY DEF After, RootStages

\* The sections from the search for uv on.
LEMMA SectionsAfterUnpack ==
    AfterUnpack = UvSearch \cup Preparing \cup Prepared \cup {"script"}
<1>1. ToSet(RootStages) = {"home", "drop", "pin", "handOver", "tmp", "pythonDir", "path",
                           "git", "python", "exec"}
  BY DEF ToSet, RootStages
<1> QED BY <1>1 DEF AfterUnpack, UvSearch, Preparing, Prepared

\* How many places a uv is searched in.
LEMMA PlaceCount ==
    /\ OnPath \in Nat /\ Fixed \in Nat
    /\ OnPath + 1 \in Places /\ Places \subseteq 0..OnPath + Fixed
    /\ 0 \in 0..OnPath + Fixed
BY StartAssumption DEF StartAssumption, Places

\* The variables that hold the caller's home variables for the script.
LEMMA SavedNames ==
    /\ Saved["HOME"] = "PWSHPY_PACK_CALLER_HOME"
    /\ Saved["NETRC"] = "PWSHPY_PACK_CALLER_NETRC"
    /\ Saved["TMPDIR"] = "PWSHPY_PACK_CALLER_TMPDIR"
BY DEF Saved

\* The same as a set.
LEMMA SavedSet ==
    {Saved[h] : h \in Home} = {"PWSHPY_PACK_CALLER_HOME", "PWSHPY_PACK_CALLER_NETRC",
                               "PWSHPY_PACK_CALLER_TMPDIR"}
BY SavedNames DEF Home

\* The variables, one by one.
LEMMA VariableNames ==
    Variables = {"UV_PYTHON", "GIT_SSH_COMMAND", "GIT_CONFIG_GLOBAL", "UV_PYTHON_INSTALL_DIR",
                 "UV_CACHE_DIR", "HOME", "NETRC", "TMPDIR", "PATH", "PWSHPY_PACK_CALLER",
                 "PWSHPY_PACK_CALLER_HOME", "PWSHPY_PACK_CALLER_NETRC",
                 "PWSHPY_PACK_CALLER_TMPDIR", "PWSHPY_PACK_PATH", "PWSHPY_PACK_ARGV"}
BY SavedNames DEF Variables, Home, Dropped, Pinned, Marker, HandedPath, HandedArgv

\* Every section keeps the types.
LEMMA TypeNext == StartInv /\ [Next]_vars => TypeOK'
<1> SUFFICES ASSUME StartInv, [Next]_vars PROVE TypeOK'
  OBVIOUS
<1> USE Stages, SectionsAfterUnpack, PlaceCount
    DEF StartInv, TypeOK, SectionInv, Switches, NoSwitches, Places, argVars, envVars, uvVars, treeVars, pastVars, Parsing, Unpacking, UvSearch, Preparing, Prepared
<1>1. CASE UNCHANGED vars
  BY <1>1 DEF vars
<1>2. CASE Begin
  BY <1>2 DEF Begin
<1>3. CASE ToolMissing
  BY <1>3 DEF ToolMissing, Exit
<1>4. CASE ParseArg
  <2>1. sw' \in Switches
    <3>1. \/ sw' = sw
          \/ sw' = [sw EXCEPT !.info = TRUE] \/ sw' = [sw EXCEPT !.clean = TRUE]
          \/ sw' = [sw EXCEPT !.noInstall = TRUE] \/ sw' = [sw EXCEPT !.elevate = TRUE]
          \/ sw' = [sw EXCEPT !.pin = "pin"]
      BY <1>4 DEF ParseArg
    <3>2. sw \in Switches
      OBVIOUS
    <3> QED BY ONLY <3>1, <3>2 DEF Switches
  <2>2. at' \in {"args", "parsed", "exit"}
    BY <1>4 DEF ParseArg, Exit
  <2> QED BY <1>4, <2>1, <2>2 DEF ParseArg
<1>5. CASE NoMoreArgs
  BY <1>5 DEF NoMoreArgs
<1>6. CASE Parsed
  BY <1>6 DEF Parsed, Exit
<1>7. CASE ElevationDeclined
  <2>1. prompts' \in 0..1
    <3>1. prompts = 0
      BY <1>7 DEF ElevationDeclined
    <3>2. PICK asks \in {0, 1} : prompts' = prompts + asks
      BY <1>7 DEF ElevationDeclined
    <3> HIDE DEF StartInv
    <3> QED BY <3>1, <3>2
  <2> QED BY <1>7, <2>1 DEF ElevationDeclined, Exit
<1>8. CASE Elevate
  <2>1. prompts' \in 0..1
    <3>1. prompts = 0
      BY <1>8 DEF Elevate
    <3>2. PICK asks \in {0, 1} : prompts' = prompts + asks
      BY <1>8 DEF Elevate
    <3> HIDE DEF StartInv
    <3> QED BY <3>1, <3>2
  <2>2. sw' \in Switches
    BY <1>8 DEF Elevate
  <2> QED BY <1>8, <2>1, <2>2 DEF Elevate
<1>9. CASE JudgeCache
  BY <1>9 DEF JudgeCache, Exit
<1>10. CASE Clean
  <2>1. ran' = ran \/ ran' = ran \cup {"rm"}
    BY <1>10 DEF Clean
  <2> QED BY <1>10, <2>1 DEF Clean
<1>11. CASE Verify
  BY <1>11 DEF Verify
<1>12. CASE Unpack
  BY <1>12 DEF Unpack, Exit
<1>13. CASE Unpacked
  BY <1>13 DEF Unpacked, Exit
<1>14. CASE UsePin
  BY <1>14 DEF UsePin, Judge, Exit
<1>15. CASE FindUv
  <2>1. PICK p \in Places : uv' = p
    BY <1>15 DEF FindUv
  <2>2. uv' \in 0..OnPath + Fixed
    BY <2>1, PlaceCount
  <2>3. at' \in {"home", "exec"} /\ accepted' = accepted \cup {"uv"}
    BY <1>15 DEF FindUv
  <2> QED BY <1>15, <2>2, <2>3 DEF FindUv
<1>16. CASE NoUv
  BY <1>16 DEF NoUv, Usable, Exit
<1>17. CASE JudgeInstallTmp
  BY <1>17 DEF JudgeInstallTmp, Judge, Exit
<1>18. CASE Install
  <2>1. uvs' \in [Places -> {"none", "trust", "others"}]
    BY <1>18 DEF Install
  <2>2. at' \in {"uv", "exit"}
    BY <1>18 DEF Install, Exit
  <2> QED BY <1>18, <2>1, <2>2 DEF Install
<1>19. CASE AccountHome
  BY <1>19 DEF AccountHome, Exit
<1>20. CASE DropVariables
  BY <1>20 DEF DropVariables
<1>21. CASE PinVariables
  BY <1>21 DEF PinVariables
<1>22. CASE HandOver
  BY <1>22 DEF HandOver
<1>23. CASE PrivateTmp
  BY <1>23 DEF PrivateTmp, Judge, Exit
<1>24. CASE JudgePythonDir
  BY <1>24 DEF JudgePythonDir, Judge, Exit
<1>25. CASE JudgePath
  BY <1>25 DEF JudgePath
<1>26. CASE JudgeGit
  BY <1>26 DEF JudgeGit, Judge, Exit
<1>27. CASE GitVersion
  BY <1>27 DEF GitVersion, Runs, Exit
<1>28. CASE FindPython
  BY <1>28 DEF FindPython, Runs, Exit
<1>29. CASE JudgePython
  BY <1>29 DEF JudgePython, Judge, Exit
<1>30. CASE Exec
  BY <1>30 DEF Exec
<1>31. CASE Shim
  BY <1>31 DEF Shim, Exit
<1> QED
  BY <1>1, <1>2, <1>3, <1>4, <1>5, <1>6, <1>7, <1>8, <1>9, <1>10, <1>11, <1>12,
     <1>13, <1>14, <1>15, <1>16, <1>17, <1>18, <1>19, <1>20, <1>21, <1>22,
     <1>23, <1>24, <1>25, <1>26, <1>27, <1>28, <1>29, <1>30, <1>31 DEF Next

\* Every section keeps the order of the judgements.
LEMMA SectionNext == StartInv /\ [Next]_vars => SectionInv' /\ RootRunsOnlyJudged'
<1> SUFFICES ASSUME StartInv, [Next]_vars PROVE SectionInv' /\ RootRunsOnlyJudged'
  OBVIOUS
<1> USE Stages, SectionsAfterUnpack
    DEF StartInv, SectionInv, RootRunsOnlyJudged, TypeOK, Places, argVars, envVars, uvVars, treeVars, pastVars, Parsing, Unpacking, UvSearch, Preparing, Prepared
<1>1. CASE UNCHANGED vars
  BY <1>1 DEF vars
<1>2. CASE Begin
  BY <1>2 DEF Begin
<1>3. CASE ToolMissing
  BY <1>3 DEF ToolMissing, Exit
<1>4. CASE ParseArg
  BY <1>4 DEF ParseArg, Exit
<1>5. CASE NoMoreArgs
  BY <1>5 DEF NoMoreArgs
<1>6. CASE Parsed
  BY <1>6 DEF Parsed, Exit
<1>7. CASE ElevationDeclined
  BY <1>7 DEF ElevationDeclined, Exit
<1>8. CASE Elevate
  BY <1>8 DEF Elevate
<1>9. CASE JudgeCache
  BY <1>9 DEF JudgeCache, Exit
<1>10. CASE Clean
  <2>1. ran' = ran \/ ran' = ran \cup {"rm"}
    BY <1>10 DEF Clean
  <2> QED BY <1>10, <2>1 DEF Clean
<1>11. CASE Verify
  BY <1>11 DEF Verify
<1>12. CASE Unpack
  BY <1>12 DEF Unpack, Exit
<1>13. CASE Unpacked
  BY <1>13 DEF Unpacked, Exit
<1>14. CASE UsePin
  BY <1>14 DEF UsePin, Judge, Exit
<1>15. CASE FindUv
  BY <1>15 DEF FindUv, Usable
<1>16. CASE NoUv
  BY <1>16 DEF NoUv, Usable, Exit
<1>17. CASE JudgeInstallTmp
  BY <1>17 DEF JudgeInstallTmp, Judge, Exit
<1>18. CASE Install
  BY <1>18 DEF Install, Exit
<1>19. CASE AccountHome
  BY <1>19 DEF AccountHome, Exit
<1>20. CASE DropVariables
  BY <1>20 DEF DropVariables
<1>21. CASE PinVariables
  BY <1>21 DEF PinVariables
<1>22. CASE HandOver
  BY <1>22 DEF HandOver
<1>23. CASE PrivateTmp
  BY <1>23 DEF PrivateTmp, Judge, Exit
<1>24. CASE JudgePythonDir
  BY <1>24 DEF JudgePythonDir, Judge, Exit
<1>25. CASE JudgePath
  BY <1>25 DEF JudgePath
<1>26. CASE JudgeGit
  BY <1>26 DEF JudgeGit, Judge, Exit
<1>27. CASE GitVersion
  BY <1>27 DEF GitVersion, Runs, Exit
<1>28. CASE FindPython
  BY <1>28 DEF FindPython, Runs, Exit
<1>29. CASE JudgePython
  BY <1>29 DEF JudgePython, Judge, Exit
<1>30. CASE Exec
  BY <1>30 DEF Exec
<1>31. CASE Shim
  BY <1>31 DEF Shim, Exit
<1> QED
  BY <1>1, <1>2, <1>3, <1>4, <1>5, <1>6, <1>7, <1>8, <1>9, <1>10, <1>11, <1>12,
     <1>13, <1>14, <1>15, <1>16, <1>17, <1>18, <1>19, <1>20, <1>21, <1>22,
     <1>23, <1>24, <1>25, <1>26, <1>27, <1>28, <1>29, <1>30, <1>31 DEF Next

\* Every section keeps the umask's.
LEMMA UmaskNext == StartInv /\ [Next]_vars => UmaskInv' /\ UnpackIsRootsOwn'
<1> SUFFICES ASSUME StartInv, [Next]_vars PROVE UmaskInv' /\ UnpackIsRootsOwn'
  OBVIOUS
<1> USE Stages, SectionsAfterUnpack
    DEF StartInv, SectionInv, UmaskInv, UnpackIsRootsOwn, argVars, envVars, uvVars, treeVars, pastVars, Parsing, Unpacking, UvSearch, Preparing, Prepared
<1>1. CASE UNCHANGED vars
  BY <1>1 DEF vars
<1>2. CASE Begin
  BY <1>2 DEF Begin
<1>3. CASE ToolMissing
  BY <1>3 DEF ToolMissing, Exit
<1>4. CASE ParseArg
  BY <1>4 DEF ParseArg, Exit
<1>5. CASE NoMoreArgs
  BY <1>5 DEF NoMoreArgs
<1>6. CASE Parsed
  BY <1>6 DEF Parsed, Exit
<1>7. CASE ElevationDeclined
  BY <1>7 DEF ElevationDeclined, Exit
<1>8. CASE Elevate
  BY <1>8 DEF Elevate
<1>9. CASE JudgeCache
  BY <1>9 DEF JudgeCache, Exit
<1>10. CASE Clean
  BY <1>10 DEF Clean
<1>11. CASE Verify
  BY <1>11 DEF Verify
<1>12. CASE Unpack
  BY <1>12 DEF Unpack, Exit
<1>13. CASE Unpacked
  BY <1>13 DEF Unpacked, Exit
<1>14. CASE UsePin
  BY <1>14 DEF UsePin, Judge, Exit
<1>15. CASE FindUv
  BY <1>15 DEF FindUv, Usable
<1>16. CASE NoUv
  BY <1>16 DEF NoUv, Usable, Exit
<1>17. CASE JudgeInstallTmp
  BY <1>17 DEF JudgeInstallTmp, Judge, Exit
<1>18. CASE Install
  BY <1>18 DEF Install, Exit
<1>19. CASE AccountHome
  BY <1>19 DEF AccountHome, Exit
<1>20. CASE DropVariables
  BY <1>20 DEF DropVariables
<1>21. CASE PinVariables
  BY <1>21 DEF PinVariables
<1>22. CASE HandOver
  BY <1>22 DEF HandOver
<1>23. CASE PrivateTmp
  BY <1>23 DEF PrivateTmp, Judge, Exit
<1>24. CASE JudgePythonDir
  BY <1>24 DEF JudgePythonDir, Judge, Exit
<1>25. CASE JudgePath
  BY <1>25 DEF JudgePath
<1>26. CASE JudgeGit
  BY <1>26 DEF JudgeGit, Judge, Exit
<1>27. CASE GitVersion
  BY <1>27 DEF GitVersion, Runs, Exit
<1>28. CASE FindPython
  BY <1>28 DEF FindPython, Runs, Exit
<1>29. CASE JudgePython
  BY <1>29 DEF JudgePython, Judge, Exit
<1>30. CASE Exec
  BY <1>30 DEF Exec
<1>31. CASE Shim
  BY <1>31 DEF Shim, Exit
<1> QED
  BY <1>1, <1>2, <1>3, <1>4, <1>5, <1>6, <1>7, <1>8, <1>9, <1>10, <1>11, <1>12,
     <1>13, <1>14, <1>15, <1>16, <1>17, <1>18, <1>19, <1>20, <1>21, <1>22,
     <1>23, <1>24, <1>25, <1>26, <1>27, <1>28, <1>29, <1>30, <1>31 DEF Next

\* The shim leaves none of the hand-over.
LEMMA ShimClears ==
    ASSUME Shim, at' = "script"
    PROVE  \A v \in {Marker, HandedPath, HandedArgv} \cup {Saved[h] : h \in Home} :
             env'[v] = Unset
<1> SUFFICES ASSUME NEW v \in {HandedPath, HandedArgv, Marker} \cup {Saved[h] : h \in Home}
             PROVE  env'[v] = Unset
  OBVIOUS
<1>1. v \in Variables /\ v # "PATH" /\ v \notin Home
  BY VariableNames, SavedSet DEF Marker, HandedPath, HandedArgv, Home
<1>2. env' = [w \in Variables |->
                IF w = "PATH" THEN env[HandedPath]
                ELSE IF w \in Home THEN env[Saved[w]]
                ELSE IF w \in {HandedPath, HandedArgv, Marker} \cup {Saved[h] : h \in Home}
                THEN Unset ELSE env[w]]
  BY SMTT(30) DEF Shim, Exit
<1> QED BY <1>1, <1>2

\* Every section keeps what the environment holds, for uv, git and the script.
LEMMA EnvNext == StartInv /\ [Next]_vars => EnvInv' /\ UvSeesOwnSettings' /\ ScriptSeesCallers'
<1> SUFFICES ASSUME StartInv, [Next]_vars PROVE EnvInv' /\ UvSeesOwnSettings' /\ ScriptSeesCallers'
  OBVIOUS
<1> USE Stages, SavedNames, VariableNames
    DEF StartInv, SectionInv, EnvInv, UvSeesOwnSettings, ScriptSeesCallers,
            Home, Dropped, Pinned, Marker, HandedPath, HandedArgv, Sees, Right, Unset, Account, FixedPath, TrustedPath,
    argVars, envVars, uvVars, treeVars, pastVars, Parsing, Unpacking, UvSearch, Preparing, Prepared
<1>1. CASE UNCHANGED vars
  BY <1>1 DEF vars
<1>2. CASE Begin
  BY <1>2 DEF Begin
<1>3. CASE ToolMissing
  BY <1>3 DEF ToolMissing, Exit
<1>4. CASE ParseArg
  BY <1>4 DEF ParseArg, Exit
<1>5. CASE NoMoreArgs
  BY <1>5 DEF NoMoreArgs
<1>6. CASE Parsed
  BY <1>6 DEF Parsed, Exit
<1>7. CASE ElevationDeclined
  BY <1>7 DEF ElevationDeclined, Exit
<1>8. CASE Elevate
  <2>1. PICK e \in {before, CallerEnv({"HOME"})} : before' = e /\ env' = e
    BY <1>8 DEF Elevate
  <2>2. e = [v \in Variables |-> e[v]]
    BY <2>1 DEF CallerEnv
  <2> QED BY <1>8, <2>1, <2>2 DEF Elevate
<1>9. CASE JudgeCache
  BY <1>9 DEF JudgeCache, Exit
<1>10. CASE Clean
  BY <1>10 DEF Clean
<1>11. CASE Verify
  BY <1>11 DEF Verify
<1>12. CASE Unpack
  BY <1>12 DEF Unpack, Exit
<1>13. CASE Unpacked
  BY <1>13 DEF Unpacked, Exit
<1>14. CASE UsePin
  BY <1>14 DEF UsePin, Judge, Exit
<1>15. CASE FindUv
  BY <1>15 DEF FindUv, Usable
<1>16. CASE NoUv
  BY <1>16 DEF NoUv, Usable, Exit
<1>17. CASE JudgeInstallTmp
  BY <1>17 DEF JudgeInstallTmp, Judge, Exit
<1>18. CASE Install
  BY <1>18 DEF Install, Exit
<1>19. CASE AccountHome
  BY <1>19 DEF AccountHome, Exit
<1>20. CASE DropVariables
  BY <1>20 DEF DropVariables
<1>21. CASE PinVariables
  BY <1>21 DEF PinVariables
<1>22. CASE HandOver
  <2>1. env' = [v \in Variables |-> env'[v]]
    BY <1>22 DEF HandOver
  <2>2. \A h \in Home : env'[Saved[h]] = env[h]
    <3> SUFFICES ASSUME NEW h \in Home PROVE env'[Saved[h]] = env[h]
      OBVIOUS
    <3>1. Saved[h] \in Variables /\ \A g \in Home : Saved[h] = Saved[g] => g = h
      BY ONLY h \in Home, SavedNames DEF Variables, Home
    <3>2. (CHOOSE g \in Home : Saved[h] = Saved[g]) = h
      BY ONLY h \in Home, <3>1
    <3>3. env'[Saved[h]] = env[CHOOSE g \in Home : Saved[h] = Saved[g]]
      <4>1. env' = [v \in Variables |->
                      IF \E g \in Home : v = Saved[g]
                        THEN env[CHOOSE g \in Home : v = Saved[g]]
                      ELSE CASE v = Marker -> Account(Marker)
                             [] v = "HOME" -> Account(v)
                             [] v = "NETRC" -> Unset
                             [] OTHER -> env[v]]
        BY <1>22, Zenon DEF HandOver
      <4> QED BY ONLY h \in Home, <3>1, <4>1
    <3> QED BY ONLY <3>2, <3>3
  <2>3. /\ env'["HOME"] = Account("HOME") /\ env'["NETRC"] = Unset
        /\ \A v \in Dropped \cup Pinned \cup {HandedArgv, "PATH"} : env'[v] = env[v]
    BY <1>22 DEF HandOver
  <2>4. at' = "tmp" /\ UNCHANGED <<root, before, callerPath, saw>>
    BY <1>22 DEF HandOver
  <2>5. at = "handOver" /\ root
    BY <1>22 DEF HandOver
  <2>6. /\ before = [v \in Variables |-> before[v]] /\ callerPath = before["PATH"]
        /\ env["PATH"] = FixedPath /\ \A h \in Home : env[h] = before[h]
        /\ \A v \in Dropped \cup {HandedArgv} : env[v] = Unset
        /\ \A v \in Pinned : env[v] = Account(v)
    BY <2>5
  <2>7. UvSeesOwnSettings' /\ ScriptSeesCallers'
    BY <2>4
  <2>8. EnvInv'
    <3> DEFINE e == env'
    <3>1. /\ before' = [v \in Variables |-> before'[v]] /\ callerPath' = before'["PATH"]
          /\ root' /\ at' = "tmp"
      BY ONLY <2>4, <2>5, <2>6
    <3>2. /\ e["PATH"] = FixedPath /\ e["HOME"] = Account("HOME") /\ e["NETRC"] = Unset
          /\ \A v \in Dropped \cup {HandedArgv} : e[v] = Unset
          /\ \A v \in Pinned : e[v] = Account(v)
      BY ONLY <2>3, <2>6
    <3>3. \A h \in Home : e[Saved[h]] = before'[h]
      BY ONLY <2>2, <2>4, <2>6
    <3>4. e = [v \in Variables |-> e[v]]
      BY <2>1
    <3> HIDE DEF e
    <3> QED
      BY ONLY <3>1, <3>2, <3>3, <3>4
      DEF EnvInv, e, Parsing, Unpacking, UvSearch, Prepared
  <2> QED BY <2>7, <2>8
<1>23. CASE PrivateTmp
  BY <1>23 DEF PrivateTmp, Judge, Exit
<1>24. CASE JudgePythonDir
  BY <1>24 DEF JudgePythonDir, Judge, Exit
<1>25. CASE JudgePath
  BY <1>25 DEF JudgePath
<1>26. CASE JudgeGit
  BY <1>26 DEF JudgeGit, Judge, Exit
<1>27. CASE GitVersion
  BY <1>27 DEF GitVersion, Runs, Exit
<1>28. CASE FindPython
  BY <1>28 DEF FindPython, Runs, Exit
<1>29. CASE JudgePython
  BY <1>29 DEF JudgePython, Judge, Exit
<1>30. CASE Exec
  BY <1>30, ZenonT(60) DEF Exec
<1>31. CASE Shim
  <2>1. CASE at' = "exit"
    BY <1>31, <2>1 DEF Shim, Exit
  <2>2. CASE at' = "script"
    <3>1. env' = [v \in Variables |-> env'[v]]
      BY <1>31, <2>2 DEF Shim, Exit
    <3>2. env'["PATH"] = env[HandedPath] /\ \A h \in Home : env'[h] = env[Saved[h]]
      BY <1>31, <2>2 DEF Shim, Exit
    <3>3. \A v \in {Marker, HandedPath, HandedArgv} \cup {Saved[h] : h \in Home} : env'[v] = Unset
      BY <1>31, <2>2, ShimClears
    <3>5. at = "shim" /\ root
      BY <1>31 DEF Shim
    <3>4. UNCHANGED <<root, before, callerPath, saw>>
      BY <1>31 DEF Shim
    <3>6. EnvInv' /\ UvSeesOwnSettings'
      BY <2>2, <3>1, <3>4, <3>5
    <3>7. ScriptSeesCallers'
      <4>1. before' = before /\ root' /\ \A h \in Home : env[Saved[h]] = before[h]
        BY <3>4, <3>5
      <4>2. env[HandedPath] = before["PATH"]
        BY <3>5
      <4>3. \A v \in Home \cup {"PATH"} : env'[v] = before'[v]
        BY ONLY <3>2, <4>1, <4>2
      <4> QED BY ONLY <3>3, <4>1, <4>3 DEF ScriptSeesCallers
    <3> QED BY <3>6, <3>7
  <2> QED BY <1>31, <2>1, <2>2 DEF Shim, Exit
<1> QED
  BY <1>1, <1>2, <1>3, <1>4, <1>5, <1>6, <1>7, <1>8, <1>9, <1>10, <1>11, <1>12,
     <1>13, <1>14, <1>15, <1>16, <1>17, <1>18, <1>19, <1>20, <1>21, <1>22,
     <1>23, <1>24, <1>25, <1>26, <1>27, <1>28, <1>29, <1>30, <1>31 DEF Next

\* A runner that has not begun satisfies all of it.
LEMMA StartInit == Init => StartInv
<1> SUFFICES ASSUME Init PROVE StartInv
  OBVIOUS
<1>1. TypeOK
  <2>1. sw \in Switches
    BY DEF Init, Switches, NoSwitches
  <2>2. uvs \in [Places -> {"none", "trust", "others"}] /\ uv \in 0..OnPath + Fixed
    BY PlaceCount, Zenon DEF Init
  <2>3. prompts = 0 /\ root \in BOOLEAN /\ at = "begin" /\ accepted = {} /\ ran = {}
    BY DEF Init
  <2> QED BY <2>1, <2>2, <2>3 DEF TypeOK
<1>2. SectionInv /\ UmaskInv /\ RootRunsOnlyJudged
  BY DEF Init, SectionInv, UmaskInv, RootRunsOnlyJudged, Parsing, Unpacking, UvSearch,
         Preparing, Prepared
<1>3. EnvInv
  BY DEF Init, EnvInv, CallerEnv, Parsing, Unpacking, UvSearch, Preparing, Prepared
<1>4. UvSeesOwnSettings /\ ScriptSeesCallers /\ UnpackIsRootsOwn
  BY SectionsAfterUnpack
     DEF Init, UvSeesOwnSettings, ScriptSeesCallers, UnpackIsRootsOwn, UvSearch, Preparing,
         Prepared
<1> QED BY <1>1, <1>2, <1>3, <1>4 DEF StartInv

-----------------------------------------------------------------------------
(* RunnerStart: the arguments.                                             *)

\* Taking arguments off what is left of the vector.
LEMMA Behinds ==
    ASSUME asked \in Seq(Words), NEW n \in 0..Len(asked)
    PROVE  /\ Behind(n) \in Seq(Words)
           /\ Len(Behind(n)) = Len(asked) - n
           /\ Behind(n) # <<>> <=> n < Len(asked)
           /\ n < Len(asked) => /\ Head(Behind(n)) = asked[n + 1]
                                /\ Tail(Behind(n)) = Behind(n + 1)
           /\ n + 1 < Len(asked) => Behind(n)[2] = asked[n + 2]
<1>1. Behind(n) \in Seq(Words) /\ Len(Behind(n)) = Len(asked) - n
  BY DEF Behind
<1>2. \A i \in 1..(Len(asked) - n) : Behind(n)[i] = asked[n + i]
  BY DEF Behind
<1>3. Behind(n) # <<>> <=> n < Len(asked)
  BY <1>1
<1>4. ASSUME n < Len(asked) PROVE Tail(Behind(n)) = Behind(n + 1)
  <2>1. Behind(n + 1) \in Seq(Words) /\ Len(Behind(n + 1)) = Len(asked) - (n + 1)
    BY <1>4 DEF Behind
  <2>2. Tail(Behind(n)) \in Seq(Words) /\ Len(Tail(Behind(n))) = Len(asked) - (n + 1)
    BY <1>1, <1>4
  <2>3. \A i \in 1..(Len(asked) - (n + 1)) : Tail(Behind(n))[i] = Behind(n + 1)[i]
    BY <1>1, <1>2, <1>4 DEF Behind
  <2> QED BY <2>1, <2>2, <2>3, SeqEqual
<1>5. ASSUME n < Len(asked) PROVE Head(Behind(n)) = asked[n + 1]
  BY <1>1, <1>2, <1>5
<1> QED BY <1>1, <1>2, <1>3, <1>4, <1>5

LEMMA InFrontNext ==
    ASSUME NEW n \in Nat
    PROVE  InFront(n + 1) = InFront(n) \cup {asked[n + 1]}
<1>1. 1..(n + 1) = 1..n \cup {n + 1}
  OBVIOUS
<1> QED BY <1>1 DEF InFront

LEMMA HeadOfConcat ==
    ASSUME NEW S, NEW a \in S, NEW s \in Seq(S)
    PROVE  /\ <<a>> \o s \in Seq(S) /\ <<a>> \o s # <<>>
           /\ Head(<<a>> \o s) = a
           /\ Tail(<<a>> \o s) = s
           /\ Len(<<a>> \o s) = 1 + Len(s) /\ \A i \in 1..Len(s) : (<<a>> \o s)[i + 1] = s[i]
<1> DEFINE t == <<a>> \o s
<1>1. <<a>> \in Seq(S) /\ Len(<<a>>) = 1 /\ <<a>>[1] = a
  OBVIOUS
<1>2. /\ t \in Seq(S) /\ Len(t) = 1 + Len(s)
      /\ \A i \in 1..(1 + Len(s)) : t[i] = IF i <= 1 THEN <<a>>[i] ELSE s[i - 1]
  BY <1>1, ConcatProperties
<1>3. Len(s) \in Nat
  OBVIOUS
<1>4. t[1] = a /\ \A i \in 1..Len(s) : t[i + 1] = s[i]
  BY <1>1, <1>2, <1>3
<1> HIDE DEF t
<1>5. t # <<>>
  BY <1>2, <1>3
<1>6. Head(t) = t[1]
  BY <1>2, <1>3, <1>5
<1>7. Tail(t) \in Seq(S) /\ Len(Tail(t)) = Len(s)
  BY <1>2, <1>3
<1>8. \A i \in 1..Len(s) : Tail(t)[i] = s[i]
  BY <1>2, <1>3, <1>4
<1>9. Tail(t) = s
  BY <1>7, <1>8, SeqEqual
<1> QED BY <1>2, <1>4, <1>5, <1>6, <1>9 DEF t

LEMMA PassedParts ==
    ASSUME NEW rest \in Seq(Words), NEW i \in BOOLEAN, NEW p \in BOOLEAN
    PROVE  /\ Passed(FALSE, FALSE, FALSE, rest) = <<"--">> \o rest
           /\ Passed(FALSE, FALSE, TRUE, rest) = <<"--pwshpy-uv">> \o (<<"pin">> \o (<<"--">> \o rest))
           /\ Passed(FALSE, TRUE, p, rest) = <<"--pwshpy-no-install-uv">> \o Passed(FALSE, FALSE, p, rest)
           /\ Passed(TRUE, i, p, rest) = <<"--pwshpy-clean">> \o Passed(FALSE, i, p, rest)
           /\ Passed(FALSE, i, p, rest) \in Seq(Words)
<1>0. /\ <<"--">> \in Seq(Words) /\ <<"--pwshpy-uv">> \in Seq(Words) /\ <<"pin">> \in Seq(Words)
      /\ <<"--pwshpy-no-install-uv">> \in Seq(Words)
      /\ <<"--pwshpy-uv", "pin">> \in Seq(Words)
  <2>1. {"--", "--pwshpy-uv", "pin", "--pwshpy-no-install-uv"} \subseteq Words
    BY DEF Words, SwitchWords
  <2> QED BY <2>1
<1>1. \A s \in Seq(Words) : <<>> \o s = s
  BY ConcatEmptySeq
<1>2. \A s, t \in Seq(Words) : s \o t \in Seq(Words)
  BY ConcatProperties
<1>3. <<"--pwshpy-uv", "pin">> = <<"--pwshpy-uv">> \o <<"pin">>
  OBVIOUS
<1> DEFINE d == <<"--">> \o rest
<1>4. d \in Seq(Words)
  BY <1>0, <1>2
<1>5. <<"--pwshpy-uv", "pin">> \o d = <<"--pwshpy-uv">> \o (<<"pin">> \o d)
  BY <1>0, <1>3, <1>4, ConcatAssociative
<1>6. <<"--pwshpy-uv", "pin">> \o d \in Seq(Words)
  BY <1>0, <1>2, <1>4
<1> DEFINE Pin(b) == (IF b THEN <<"--pwshpy-uv", "pin">> ELSE <<>>) \o d
           Keep(a, b) == (IF a THEN <<"--pwshpy-no-install-uv">> ELSE <<>>) \o Pin(b)
<1>7. \A a, b : /\ Passed(FALSE, a, b, rest) = <<>> \o Keep(a, b)
                /\ Passed(TRUE, a, b, rest) = <<"--pwshpy-clean">> \o Keep(a, b)
  BY Zenon DEF Passed
<1> HIDE DEF d
<1>8. Pin(FALSE) = d
  BY <1>1, <1>4
<1>9. Pin(TRUE) = <<"--pwshpy-uv", "pin">> \o d
  OBVIOUS
<1>10. Pin(p) \in Seq(Words)
  BY <1>4, <1>6, <1>8, <1>9
<1> HIDE DEF Pin
<1>11. Keep(FALSE, p) = Pin(p) /\ Keep(FALSE, FALSE) = Pin(FALSE) /\ Keep(FALSE, TRUE) = Pin(TRUE)
  BY <1>1, <1>4, <1>6, <1>8, <1>9, <1>10
<1>12. Keep(TRUE, p) = <<"--pwshpy-no-install-uv">> \o Pin(p)
  OBVIOUS
<1>13. Keep(TRUE, p) \in Seq(Words)
  BY <1>0, <1>2, <1>10, <1>12
<1>14. Keep(i, p) \in Seq(Words)
  BY <1>10, <1>11, <1>13
<1> HIDE DEF Keep
<1>15. \A a \in BOOLEAN : Keep(a, p) \in Seq(Words)
  BY <1>10, <1>11, <1>13
<1>16. \A a \in BOOLEAN : Passed(FALSE, a, p, rest) = Keep(a, p)
  <2> TAKE a \in BOOLEAN
  <2>1. Passed(FALSE, a, p, rest) = <<>> \o Keep(a, p)
    BY <1>7, Zenon
  <2> QED BY <1>1, <1>15, <2>1
<1>17. Passed(FALSE, FALSE, FALSE, rest) = d
  <2>1. Passed(FALSE, FALSE, FALSE, rest) = <<>> \o Keep(FALSE, FALSE)
    BY <1>7, Zenon
  <2> QED BY <1>1, <1>4, <1>8, <1>11, <2>1
<1>18. Passed(FALSE, FALSE, TRUE, rest) = <<"--pwshpy-uv">> \o (<<"pin">> \o d)
  <2>1. Passed(FALSE, FALSE, TRUE, rest) = <<>> \o Keep(FALSE, TRUE)
    BY <1>7, Zenon
  <2> QED BY <1>1, <1>5, <1>6, <1>9, <1>11, <2>1
<1>19. Passed(TRUE, i, p, rest) = <<"--pwshpy-clean">> \o Keep(i, p)
  BY <1>7, Zenon
<1> QED BY <1>11, <1>12, <1>14, <1>16, <1>17, <1>18, <1>19 DEF d
\* A vector of the caller's is one of words.
LEMMA VectorWords ==
    ASSUME StartAssumption, NEW a \in ArgVectors
    PROVE  a \in Seq(Words)
<1>1. a \in Seq(STRING)
  BY DEF StartAssumption
<1>2. Len(a) \in Nat /\ DOMAIN a = 1..Len(a) /\ a = [i \in 1..Len(a) |-> a[i]]
  BY <1>1
<1>3. \A i \in 1..Len(a) : a[i] \in Words
  BY <1>2 DEF Words, ToSet
<1>4. a \in [1..Len(a) -> Words]
  BY <1>2, <1>3
<1> QED BY <1>2, <1>4, SeqDef

\* What is said of the vector stays while the vector does.
LEMMA SameVector ==
    ASSUME asked' = asked, NEW n
    PROVE  /\ InFront(n)' = InFront(n) /\ Behind(n)' = Behind(n)
           /\ AreSwitches(n)' <=> AreSwitches(n)
           /\ AreTheSwitches(n)' <=> AreTheSwitches(n)
           /\ ForTheScript(n)' = ForTheScript(n)
<1>1. InFront(n)' = InFront(n) /\ Behind(n)' = Behind(n)
  BY DEF InFront, Behind
<1>2. AreSwitches(n)' <=> AreSwitches(n)
  BY <1>1 DEF AreSwitches
<1> QED BY <1>1, <1>2 DEF AreTheSwitches, ForTheScript

\* The next argument is a switch.
LEMMA NextSwitch ==
    ASSUME asked \in Seq(Words), NEW n \in 0..Len(asked), n < Len(asked),
           AreSwitches(n), asked[n + 1] \in SwitchWords \ {"--pwshpy-uv"}
    PROVE  AreSwitches(n + 1)
<1>1. InFront(n + 1) \subseteq SwitchWords \cup {"pin"}
  BY InFrontNext DEF AreSwitches
<1>2. asked[n + 1] # "pin"
  BY DEF SwitchWords
<1>3. ~(n + 1 > 1 /\ asked[n + 1 - 1] = "--pwshpy-uv")
  BY DEF AreSwitches
<1>4. \A i \in 1..(n + 1) : asked[i] = "pin" <=> i > 1 /\ asked[i - 1] = "--pwshpy-uv"
  <2> TAKE i \in 1..(n + 1)
  <2>1. CASE i = n + 1
    BY <1>2, <1>3, <2>1
  <2>2. CASE i # n + 1
    <3>1. i \in 1..n
      BY <2>2
    <3> QED BY <3>1 DEF AreSwitches
  <2> QED BY <2>1, <2>2
<1> QED BY <1>1, <1>4 DEF AreSwitches

\* The next two are the switch with a value and its value.
LEMMA NextPin ==
    ASSUME asked \in Seq(Words), NEW n \in 0..Len(asked), n + 1 < Len(asked),
           AreSwitches(n), asked[n + 1] = "--pwshpy-uv", asked[n + 2] = "pin"
    PROVE  AreSwitches(n + 2) /\ InFront(n + 2) = InFront(n) \cup {"--pwshpy-uv", "pin"}
<1>1. InFront(n + 2) = InFront(n) \cup {"--pwshpy-uv", "pin"}
  <2>1. InFront(n + 1) = InFront(n) \cup {asked[n + 1]}
    BY InFrontNext
  <2>2. InFront((n + 1) + 1) = InFront(n + 1) \cup {asked[(n + 1) + 1]}
    BY InFrontNext
  <2>3. (n + 1) + 1 = n + 2
    OBVIOUS
  <2> QED BY <2>1, <2>2, <2>3
<1>2. InFront(n + 2) \subseteq SwitchWords \cup {"pin"}
  BY <1>1 DEF AreSwitches, SwitchWords
<1>3. \A i \in 1..(n + 2) : asked[i] = "pin" <=> i > 1 /\ asked[i - 1] = "--pwshpy-uv"
  <2> TAKE i \in 1..(n + 2)
  <2>1. CASE i = n + 2
    BY <2>1
  <2>2. CASE i = n + 1
    BY <2>2 DEF AreSwitches
  <2>3. CASE i # n + 1 /\ i # n + 2
    <3>1. i \in 1..n
      BY <2>3
    <3> QED BY <3>1 DEF AreSwitches
  <2> QED BY <2>1, <2>2, <2>3
<1> QED BY <1>1, <1>2, <1>3 DEF AreSwitches
\* One round of the argument loop, by what it does.
LEMMA ParseSteps ==
    ASSUME ParseArg, sw \in Switches, NEW a, a = Head(args)
    PROVE  /\ at = "args" /\ args # <<>> /\ asked' = asked /\ root' = root
           /\ \/ at' = "exit"
              \/ a = "--pwshpy-info" /\ at' = "args" /\ args' = Tail(args)
                   /\ sw' = [sw EXCEPT !.info = TRUE]
              \/ a = "--pwshpy-clean" /\ at' = "args" /\ args' = Tail(args)
                   /\ sw' = [sw EXCEPT !.clean = TRUE]
              \/ a = "--pwshpy-no-install-uv" /\ at' = "args" /\ args' = Tail(args)
                   /\ sw' = [sw EXCEPT !.noInstall = TRUE]
              \/ a = "--pwshpy-elevate" /\ at' = "args" /\ args' = Tail(args)
                   /\ sw' = [sw EXCEPT !.elevate = TRUE]
              \/ a = "--pwshpy-uv" /\ Len(args) >= 2 /\ args[2] = "pin" /\ at' = "args"
                   /\ args' = Tail(Tail(args)) /\ sw' = [sw EXCEPT !.pin = "pin"]
              \/ a = "--" /\ at' = "parsed" /\ args' = Tail(args) /\ sw' = sw
              \/ a \notin SwitchWords \cup {"--"} /\ at' = "parsed" /\ args' = args /\ sw' = sw
<1> QED BY DEF ParseArg, Exit, SwitchWords

\* The caller's vector, one round further.
LEMMA ParseCallers ==
    ASSUME StartInv, asked \in Seq(Words), ParseArg, NEW n \in 0..Len(asked), ParsedTo(n)
    PROVE  \/ at' = "exit"
           \/ at' = "args" /\ \E m \in 0..Len(asked) : ParsedTo(m)'
           \/ at' = "parsed" /\ RequestParsed(n)'
<1> DEFINE a == asked[n + 1]
<1>1. sw \in Switches
  BY DEF StartInv, TypeOK
<1>2. /\ n < Len(asked) /\ a = Head(args) /\ Tail(args) = Behind(n + 1) /\ args # <<>>
      /\ Len(args) = Len(asked) - n
      /\ Behind(n) # <<>> /\ Head(Behind(n)) = a
  BY Behinds DEF ParsedTo, ParseArg
<1>3. asked' = asked /\ root' = root
  BY DEF ParseArg
<1>4. n + 1 \in 0..Len(asked) /\ InFront(n + 1) = InFront(n) \cup {a}
  BY <1>2, InFrontNext
<1>5. \A m : /\ InFront(m)' = InFront(m) /\ Behind(m)' = Behind(m)
             /\ AreSwitches(m)' <=> AreSwitches(m)
             /\ AreTheSwitches(m)' <=> AreTheSwitches(m)
             /\ ForTheScript(m)' = ForTheScript(m)
  BY <1>3, SameVector
<1> HIDE DEF a
<1>6. a \in SwitchWords \ {"--pwshpy-uv"} => AreSwitches(n + 1)
  BY <1>2, NextSwitch DEF ParsedTo, a
<1> USE DEF ParsedTo
<1>7. CASE a = "--pwshpy-info" /\ at' = "args" /\ args' = Tail(args) /\ sw' = [sw EXCEPT !.info = TRUE]
  <2>1. ParsedTo(n + 1)'
    BY <1>1, <1>2, <1>4, <1>5, <1>6, <1>7 DEF Switches, SwitchWords
  <2> QED BY <1>4, <1>7, <2>1
<1>8. CASE a = "--pwshpy-clean" /\ at' = "args" /\ args' = Tail(args) /\ sw' = [sw EXCEPT !.clean = TRUE]
  <2>1. ParsedTo(n + 1)'
    BY <1>1, <1>2, <1>4, <1>5, <1>6, <1>8 DEF Switches, SwitchWords
  <2> QED BY <1>4, <1>8, <2>1
<1>9. CASE a = "--pwshpy-no-install-uv" /\ at' = "args" /\ args' = Tail(args)
             /\ sw' = [sw EXCEPT !.noInstall = TRUE]
  <2>1. ParsedTo(n + 1)'
    BY <1>1, <1>2, <1>4, <1>5, <1>6, <1>9 DEF Switches, SwitchWords
  <2> QED BY <1>4, <1>9, <2>1
<1>10. CASE a = "--pwshpy-elevate" /\ at' = "args" /\ args' = Tail(args)
             /\ sw' = [sw EXCEPT !.elevate = TRUE]
  <2>1. ParsedTo(n + 1)'
    BY <1>1, <1>2, <1>4, <1>5, <1>6, <1>10 DEF Switches, SwitchWords
  <2> QED BY <1>4, <1>10, <2>1
<1>11. CASE /\ a = "--pwshpy-uv" /\ Len(args) >= 2 /\ args[2] = "pin" /\ at' = "args"
            /\ args' = Tail(Tail(args)) /\ sw' = [sw EXCEPT !.pin = "pin"]
  <2>1. n + 1 < Len(asked) /\ asked[n + 2] = "pin" /\ n + 2 \in 0..Len(asked)
    BY <1>2, <1>11, Behinds
  <2>2. AreSwitches(n + 2) /\ InFront(n + 2) = InFront(n) \cup {"--pwshpy-uv", "pin"}
    BY <1>11, <2>1, NextPin DEF a
  <2>3. args' = Behind(n + 2)
    <3>1. Tail(Behind(n + 1)) = Behind((n + 1) + 1)
      BY <1>4, <2>1, Behinds
    <3>2. (n + 1) + 1 = n + 2
      OBVIOUS
    <3> QED BY <1>2, <1>11, <3>1, <3>2
  <2>4. ParsedTo(n + 2)'
    BY <1>1, <1>5, <1>11, <2>2, <2>3 DEF Switches
  <2> QED BY <1>11, <2>1, <2>4
<1>12. CASE a = "--" /\ at' = "parsed" /\ args' = Tail(args) /\ sw' = sw
  <2>1. AreTheSwitches(n)
    BY <1>2, <1>12 DEF AreTheSwitches, SwitchWords
  <2>2. args' = ForTheScript(n)
    BY <1>2, <1>12 DEF ForTheScript
  <2> QED BY <1>3, <1>5, <1>12, <2>1, <2>2 DEF RequestParsed
<1>13. CASE a \notin SwitchWords \cup {"--"} /\ at' = "parsed" /\ args' = args /\ sw' = sw
  <2>1. AreTheSwitches(n)
    BY <1>2, <1>13 DEF AreTheSwitches
  <2>2. args' = ForTheScript(n)
    BY <1>2, <1>13 DEF ForTheScript
  <2> QED BY <1>3, <1>5, <1>13, <2>1, <2>2 DEF RequestParsed
<1> HIDE DEF ParsedTo
<1> QED BY <1>1, <1>2, <1>7, <1>8, <1>9, <1>10, <1>11, <1>12, <1>13, ParseSteps
\* What is for the script is a sequence of words.
LEMMA ScriptWords ==
    ASSUME asked \in Seq(Words), NEW n \in 0..Len(asked)
    PROVE  ForTheScript(n) \in Seq(Words)
<1>1. Behind(n) \in Seq(Words)
  BY Behinds
<1>2. CASE Behind(n) # <<>>
  BY <1>1, <1>2 DEF ForTheScript
<1>3. CASE Behind(n) = <<>>
  BY <1>1, <1>3 DEF ForTheScript
<1> QED BY <1>2, <1>3

\* The vector of a relaunch, one round further: first the switches passed on, in
\* their order, then the end of the switches.
LEMMA ParseRelaunched ==
    ASSUME StartInv, asked \in Seq(Words), ParseArg, NEW n \in 0..Len(asked),
           NEW c \in BOOLEAN, NEW i \in BOOLEAN, NEW p \in BOOLEAN, RelaunchedWith(n, c, i, p)
    PROVE  \/ at' = "args" /\ \E d, j, q \in BOOLEAN : RelaunchedWith(n, d, j, q)'
           \/ at' = "parsed" /\ RequestParsed(n)'
<1> DEFINE rest == ForTheScript(n)
           a == Head(args)
<1>1. rest \in Seq(Words)
  BY ScriptWords
<1>2. sw \in Switches
  BY DEF StartInv, TypeOK
<1>3. asked' = asked /\ root' = root
  BY DEF ParseArg
<1>4. /\ InFront(n)' = InFront(n) /\ ForTheScript(n)' = ForTheScript(n)
      /\ AreTheSwitches(n)' <=> AreTheSwitches(n)
  BY <1>3, SameVector
<1>5. /\ args = Passed(c, i, p, rest)
      /\ {"--", "pin", "--pwshpy-uv", "--pwshpy-no-install-uv", "--pwshpy-clean"} \subseteq Words
  BY DEF RelaunchedWith, Words, SwitchWords
<1>6. CASE c = TRUE
  <2>1. args = <<"--pwshpy-clean">> \o Passed(FALSE, i, p, rest) /\ Passed(FALSE, i, p, rest) \in Seq(Words)
    BY <1>1, <1>5, <1>6, PassedParts
  <2>2. a = "--pwshpy-clean" /\ Tail(args) = Passed(FALSE, i, p, rest)
    <3> DEFINE r == Passed(FALSE, i, p, rest)
    <3> HIDE DEF r
    <3>1. args = <<"--pwshpy-clean">> \o r /\ r \in Seq(Words)
      BY <2>1 DEF r
    <3>2. a = "--pwshpy-clean" /\ Tail(args) = r
      BY <1>5, <3>1, HeadOfConcat
    <3> QED BY <3>2 DEF r
  <2> HIDE DEF a
  <2>3. at' = "args" /\ args' = Passed(FALSE, i, p, rest) /\ sw' = [sw EXCEPT !.clean = TRUE]
    BY <1>2, <2>2, ParseSteps DEF a, ParseArg
  <2>4. RelaunchedWith(n, FALSE, i, p)'
    BY <1>2, <1>3, <1>4, <1>6, <2>3 DEF RelaunchedWith, Switches
  <2> QED BY <2>3, <2>4
<1>7. CASE c = FALSE /\ i = TRUE
  <2>1. args = <<"--pwshpy-no-install-uv">> \o Passed(FALSE, FALSE, p, rest)
        /\ Passed(FALSE, FALSE, p, rest) \in Seq(Words)
    BY <1>1, <1>5, <1>7, PassedParts
  <2>2. a = "--pwshpy-no-install-uv" /\ Tail(args) = Passed(FALSE, FALSE, p, rest)
    <3> DEFINE r == Passed(FALSE, FALSE, p, rest)
    <3> HIDE DEF r
    <3>1. args = <<"--pwshpy-no-install-uv">> \o r /\ r \in Seq(Words)
      BY <2>1 DEF r
    <3>2. a = "--pwshpy-no-install-uv" /\ Tail(args) = r
      BY <1>5, <3>1, HeadOfConcat
    <3> QED BY <3>2 DEF r
  <2> HIDE DEF a
  <2>3. at' = "args" /\ args' = Passed(FALSE, FALSE, p, rest) /\ sw' = [sw EXCEPT !.noInstall = TRUE]
    BY <1>2, <2>2, ParseSteps DEF a, ParseArg
  <2>4. RelaunchedWith(n, FALSE, FALSE, p)'
    BY <1>2, <1>3, <1>4, <1>7, <2>3 DEF RelaunchedWith, Switches
  <2> QED BY <2>3, <2>4
<1>8. CASE c = FALSE /\ i = FALSE /\ p = TRUE
  <2> DEFINE d == <<"--">> \o rest
             e == <<"pin">> \o d
  <2>1. args = <<"--pwshpy-uv">> \o e
    BY <1>1, <1>5, <1>8, PassedParts
  <2>2. d \in Seq(Words)
    BY <1>1, <1>5, HeadOfConcat
  <2> HIDE DEF d
  <2>3. e \in Seq(Words) /\ Head(e) = "pin" /\ Tail(e) = d /\ Len(e) = 1 + Len(d) /\ e # <<>>
    BY <1>5, <2>2, HeadOfConcat
  <2> HIDE DEF e
  <2>4. /\ a = "--pwshpy-uv" /\ Tail(args) = e /\ Len(args) = 1 + Len(e)
        /\ \A k \in 1..Len(e) : args[k + 1] = e[k]
    BY <1>5, <2>1, <2>3, HeadOfConcat
  <2>5. e[1] = "pin" /\ Len(d) \in Nat
    BY <2>2, <2>3
  <2>6. Len(args) >= 2 /\ args[2] = "pin"
    BY <2>3, <2>4, <2>5
  <2>7. Passed(FALSE, FALSE, FALSE, rest) = d
    BY <1>1, PassedParts DEF d
  <2> HIDE DEF a
  <2>8. at' = "args" /\ args' = d /\ sw' = [sw EXCEPT !.pin = "pin"]
    <3>1. a = "--pwshpy-uv" /\ ~(Len(args) < 2 \/ args[2] # "pin")
      BY <2>4, <2>6
    <3>2. at' = at /\ args' = Tail(Tail(args)) /\ sw' = [sw EXCEPT !.pin = "pin"]
      BY <3>1 DEF ParseArg, a
    <3> QED BY <2>3, <2>4, <3>2 DEF ParseArg
  <2>9. RelaunchedWith(n, FALSE, FALSE, FALSE)'
    BY <1>2, <1>3, <1>4, <1>8, <2>7, <2>8 DEF RelaunchedWith, Switches
  <2> QED BY <2>8, <2>9
<1>9. CASE c = FALSE /\ i = FALSE /\ p = FALSE
  <2>1. args = <<"--">> \o rest
    BY <1>1, <1>5, <1>9, PassedParts
  <2>2. a = "--" /\ Tail(args) = rest
    BY <1>1, <1>5, <2>1, HeadOfConcat
  <2> HIDE DEF a
  <2>3. at' = "parsed" /\ args' = rest /\ sw' = sw
    BY <1>2, <2>2, ParseSteps DEF a, ParseArg
  <2>4. RequestParsed(n)'
    BY <1>2, <1>3, <1>4, <1>9, <2>3 DEF RelaunchedWith, RequestParsed, Switches
  <2> QED BY <2>3, <2>4
<1> QED BY <1>6, <1>7, <1>8, <1>9

\* Concatenation from the left is concatenation from the right.
LEMMA Regroup ==
    \A a, b, c, d, e \in Seq(Words) :
        (((a \o b) \o c) \o d) \o e = a \o (b \o (c \o (d \o e)))
<1> DEFINE Cat(s, t) == s \o t
<1>1. \A s, t \in Seq(Words) : Cat(s, t) \in Seq(Words)
  BY ConcatProperties
<1>2. \A s, t, u \in Seq(Words) : Cat(Cat(s, t), u) = Cat(s, Cat(t, u))
  BY ConcatAssociative
<1> HIDE DEF Cat
<1>3. \A s, t, u, v \in Seq(Words) : Cat(Cat(Cat(s, t), u), v) = Cat(s, Cat(t, Cat(u, v)))
  BY <1>1, <1>2
<1>4. \A s, t, u, v, w \in Seq(Words) :
        Cat(Cat(Cat(Cat(s, t), u), v), w) = Cat(s, Cat(t, Cat(u, Cat(v, w))))
  <2> TAKE s, t, u, v, w \in Seq(Words)
  <2>1. Cat(Cat(s, t), u) \in Seq(Words) /\ Cat(v, w) \in Seq(Words)
    BY <1>1
  <2>2. Cat(Cat(Cat(Cat(s, t), u), v), w) = Cat(Cat(Cat(s, t), u), Cat(v, w))
    BY <1>2, <2>1
  <2> QED BY <1>3, <2>1, <2>2
<1> QED BY <1>4 DEF Cat

\* What a relaunch is given is what has been parsed.
LEMMA Relaunched ==
    ASSUME StartInv, asked \in Seq(Words), Elevate, NEW n \in 0..Len(asked), RequestParsed(n),
           NEW c \in BOOLEAN, NEW i \in BOOLEAN, NEW p \in BOOLEAN,
           c = sw.clean, i = sw.noInstall, p = (sw.pin = "pin")
    PROVE  RelaunchedWith(n, c, i, p)'
<1> DEFINE rest == ForTheScript(n)
           cleanWords == IF c THEN <<"--pwshpy-clean">> ELSE <<>>
           keepWords == IF i THEN <<"--pwshpy-no-install-uv">> ELSE <<>>
           pinWords == IF p THEN <<"--pwshpy-uv", "pin">> ELSE <<>>
           endWords == <<"--">>
<1>1. rest \in Seq(Words) /\ args = rest
  BY ScriptWords DEF RequestParsed
<1>2. sw \in Switches /\ sw.pin \in {"", "pin"} /\ sw.clean \in BOOLEAN /\ sw.noInstall \in BOOLEAN
  BY DEF StartInv, TypeOK, Switches
<1>3. {"--", "pin", "--pwshpy-uv", "--pwshpy-no-install-uv", "--pwshpy-clean"} \subseteq Words
  BY DEF Words, SwitchWords
<1>4. cleanWords \in Seq(Words) /\ keepWords \in Seq(Words) /\ pinWords \in Seq(Words) /\ endWords \in Seq(Words)
  BY <1>3
<1> DEFINE Cat(s, t) == s \o t
<1>5. RelaunchArgs = Cat(Cat(Cat(Cat(cleanWords, keepWords), pinWords), endWords), rest)
  BY <1>1, <1>2 DEF RelaunchArgs
<1>6. Passed(c, i, p, rest) = Cat(cleanWords, Cat(keepWords, Cat(pinWords, Cat(endWords, rest))))
  BY DEF Passed
<1>7. \A a, b, d, e, f \in Seq(Words) :
        Cat(Cat(Cat(Cat(a, b), d), e), f) = Cat(a, Cat(b, Cat(d, Cat(e, f))))
  BY Regroup
<1>8. RelaunchArgs = Passed(c, i, p, rest)
  <2> HIDE DEF Cat, cleanWords, keepWords, pinWords, endWords, rest
  <2> QED BY <1>1, <1>4, <1>5, <1>6, <1>7
<1> HIDE DEF Cat, cleanWords, keepWords, pinWords, endWords, rest
<1>9. asked' = asked /\ root' = TRUE /\ args' = RelaunchArgs /\ sw' = NoSwitches
  BY DEF Elevate
<1>10. /\ InFront(n)' = InFront(n) /\ ForTheScript(n)' = rest
       /\ AreTheSwitches(n)' <=> AreTheSwitches(n)
  BY <1>9, SameVector DEF rest
<1>11. args' = Passed(c, i, p, ForTheScript(n)')
  BY <1>8, <1>9, <1>10
<1> QED BY <1>2, <1>9, <1>10, <1>11 DEF RelaunchedWith, RequestParsed, NoSwitches

\* A relaunch always has the end of the switches to parse.
LEMMA PassedNotEmpty ==
    ASSUME NEW rest \in Seq(Words), NEW c \in BOOLEAN, NEW i \in BOOLEAN, NEW p \in BOOLEAN
    PROVE  Passed(c, i, p, rest) # <<>>
<1>1. {"--", "pin", "--pwshpy-uv", "--pwshpy-no-install-uv", "--pwshpy-clean"} \subseteq Words
  BY DEF Words, SwitchWords
<1>2. \A a \in Words : \A s \in Seq(Words) : <<a>> \o s \in Seq(Words) /\ <<a>> \o s # <<>>
  BY HeadOfConcat
<1>3. CASE c = TRUE
  <2>1. Passed(c, i, p, rest) = <<"--pwshpy-clean">> \o Passed(FALSE, i, p, rest)
        /\ Passed(FALSE, i, p, rest) \in Seq(Words)
    BY <1>3, PassedParts
  <2> QED BY <1>1, <1>2, <2>1
<1>4. CASE c = FALSE /\ i = TRUE
  <2>1. Passed(c, i, p, rest) = <<"--pwshpy-no-install-uv">> \o Passed(FALSE, FALSE, p, rest)
        /\ Passed(FALSE, FALSE, p, rest) \in Seq(Words)
    BY <1>4, PassedParts
  <2> QED BY <1>1, <1>2, <2>1
<1>5. CASE c = FALSE /\ i = FALSE
  <2>1. <<"--">> \o rest \in Seq(Words) /\ <<"--">> \o rest # <<>>
    BY <1>1, <1>2
  <2>2. <<"pin">> \o (<<"--">> \o rest) \in Seq(Words)
    BY <1>1, <1>2, <2>1
  <2>3. <<"--pwshpy-uv">> \o (<<"pin">> \o (<<"--">> \o rest)) # <<>>
    BY <1>1, <1>2, <2>2
  <2> QED BY <1>5, <2>1, <2>3, PassedParts
<1> QED BY <1>3, <1>4, <1>5

\* A step that leaves the vectors, the switches and the account alone keeps what is
\* parsed parsed.
LEMMA SameRequest ==
    ASSUME UNCHANGED <<asked, args, sw, root>>, NEW n
    PROVE  /\ RequestParsed(n)' <=> RequestParsed(n)
           /\ ParsedTo(n)' <=> ParsedTo(n)
           /\ \A c, i, p \in BOOLEAN : RelaunchedWith(n, c, i, p)' <=> RelaunchedWith(n, c, i, p)
           /\ InFront(n)' = InFront(n)
<1>1. /\ InFront(n)' = InFront(n) /\ ForTheScript(n)' = ForTheScript(n)
      /\ AreTheSwitches(n)' <=> AreTheSwitches(n)
      /\ AreSwitches(n)' <=> AreSwitches(n)
      /\ Behind(n)' = Behind(n)
  BY SameVector
<1>2. sw' = sw /\ args' = args /\ root' = root
  OBVIOUS
<1>3. ParsedTo(n)' <=> ParsedTo(n)
  BY <1>1, <1>2 DEF ParsedTo
<1>4. \A c, i, p \in BOOLEAN : RelaunchedWith(n, c, i, p)' <=> RelaunchedWith(n, c, i, p)
  BY <1>1, <1>2 DEF RelaunchedWith
<1> QED BY <1>1, <1>2, <1>3, <1>4 DEF RequestParsed

LEMMA RequestInit == Init => RequestInv
<1> SUFFICES ASSUME Init PROVE RequestInv
  OBVIOUS
<1>1. asked \in Seq(Words) /\ args = asked /\ sw = NoSwitches /\ at = "begin"
  BY StartAssumption, VectorWords DEF Init
<1>2. Len(asked) \in Nat /\ 0 \in 0..Len(asked)
  BY <1>1
<1>3. InFront(0) = {} /\ AreSwitches(0)
  BY DEF InFront, AreSwitches
<1>4. Behind(0) = asked
  BY <1>1 DEF Behind
<1>5. ParsedTo(0)
  BY <1>1, <1>3, <1>4 DEF ParsedTo, NoSwitches
<1> QED BY <1>1, <1>2, <1>5 DEF RequestInv, Unpacking, UvSearch, Preparing, Prepared

\* Each step keeps how far the request is parsed.
LEMMA RequestNext == StartInv /\ RequestInv /\ [Next]_vars => RequestInv'
<1> SUFFICES ASSUME StartInv, RequestInv, [Next]_vars PROVE RequestInv'
  OBVIOUS
<1> DEFINE Later == {"judgeCache"} \cup Unpacking \cup UvSearch \cup Preparing \cup Prepared \cup {"script"}
           Half(n) == ParsedTo(n) \/ \E c, i, p \in BOOLEAN : RelaunchedWith(n, c, i, p)
           Whole(n) == RequestParsed(n) /\ ("--pwshpy-elevate" \in InFront(n) => root)
<1>1. /\ asked \in Seq(Words)
      /\ at \in {"begin", "args"} => \E n \in 0..Len(asked) : Half(n)
      /\ at \in {"parsed", "elevate"} => \E n \in 0..Len(asked) : RequestParsed(n)
      /\ at \in Later => \E n \in 0..Len(asked) : Whole(n)
  BY DEF RequestInv
<1>2. asked' = asked
  BY DEF Next, vars, argVars, Begin, ToolMissing, ParseArg, NoMoreArgs, Parsed, ElevationDeclined, Elevate,
         JudgeCache, Clean, Verify, Unpack, Unpacked, UsePin, FindUv, NoUv, JudgeInstallTmp,
         Install, AccountHome, DropVariables, PinVariables, HandOver, PrivateTmp, JudgePythonDir,
         JudgePath, JudgeGit, GitVersion, FindPython, JudgePython, Exec, Shim
<1>3. SUFFICES /\ at' \in {"begin", "args"} => \E n \in 0..Len(asked) : Half(n)'
               /\ at' \in {"parsed", "elevate"} => \E n \in 0..Len(asked) : RequestParsed(n)'
               /\ at' \in Later => \E n \in 0..Len(asked) : Whole(n)'
  BY <1>1, <1>2 DEF RequestInv, Unpacking, UvSearch, Preparing, Prepared
<1>4. Later \cap {"begin", "args", "parsed", "elevate", "exit"} = {}
  BY DEF Unpacking, UvSearch, Preparing, Prepared
<1> HIDE DEF Later
<1>5. CASE UNCHANGED <<asked, args, sw, root>> /\ (at \in Later /\ at' \in Later \cup {"exit"})
  <2>1. PICK n \in 0..Len(asked) : Whole(n)
    BY <1>1, <1>5
  <2>2. Whole(n)'
    BY <1>5, <2>1, SameRequest, SameVector
  <2> QED BY <1>4, <1>5, <2>2
<1>6. CASE at' = "exit"
  BY <1>4, <1>6
<1>7. CASE Begin
  <2>1. at = "begin" /\ at' = "args" /\ UNCHANGED <<asked, args, sw, root>>
    BY <1>7 DEF Begin, argVars
  <2>2. PICK n \in 0..Len(asked) : Half(n)
    BY <1>1, <2>1
  <2>3. Half(n)'
    BY <2>1, <2>2, SameRequest
  <2> QED BY <1>4, <2>1, <2>3
<1>8. CASE ParseArg
  <2>1. PICK n \in 0..Len(asked) : Half(n)
    BY <1>1, <1>8 DEF ParseArg
  <2>2. CASE ParsedTo(n)
    <3>1. \/ at' = "exit"
          \/ at' = "args" /\ \E m \in 0..Len(asked) : ParsedTo(m)'
          \/ at' = "parsed" /\ RequestParsed(n)'
      BY <1>1, <1>8, <2>2, ParseCallers
    <3> QED BY <1>4, <3>1
  <2>3. CASE \E c, i, p \in BOOLEAN : RelaunchedWith(n, c, i, p)
    <3>1. PICK c, i, p \in BOOLEAN : RelaunchedWith(n, c, i, p)
      BY <2>3
    <3>2. \/ at' = "args" /\ \E d, j, q \in BOOLEAN : RelaunchedWith(n, d, j, q)'
          \/ at' = "parsed" /\ RequestParsed(n)'
      BY <1>1, <1>8, <3>1, ParseRelaunched
    <3> QED BY <1>4, <3>2
  <2> QED BY <2>1, <2>2, <2>3
<1>9. CASE NoMoreArgs
  <2>1. at = "args" /\ at' = "parsed" /\ UNCHANGED <<asked, args, sw, root>> /\ args = <<>>
    BY <1>9 DEF NoMoreArgs, argVars
  <2>2. PICK n \in 0..Len(asked) : Half(n)
    BY <1>1, <2>1
  <2>3. \A c, i, p \in BOOLEAN : ~RelaunchedWith(n, c, i, p)
    <3> SUFFICES ASSUME NEW c \in BOOLEAN, NEW i \in BOOLEAN, NEW p \in BOOLEAN,
                        RelaunchedWith(n, c, i, p)
                 PROVE  FALSE
      OBVIOUS
    <3> DEFINE rest == ForTheScript(n)
    <3>1. rest \in Seq(Words) /\ args = Passed(c, i, p, rest)
      BY <1>1, ScriptWords DEF RelaunchedWith
    <3>2. Passed(c, i, p, rest) # <<>>
      BY <1>1, <3>1, PassedNotEmpty
    <3> QED BY <2>1, <3>1, <3>2
  <2>4. ParsedTo(n)
    BY <2>2, <2>3
  <2>5. Behind(n) = <<>>
    BY <2>1, <2>4 DEF ParsedTo
  <2>6. RequestParsed(n)
    BY <2>1, <2>4, <2>5 DEF ParsedTo, RequestParsed, AreTheSwitches, ForTheScript
  <2>7. RequestParsed(n)'
    BY <2>1, <2>6, SameRequest
  <2> QED BY <1>4, <2>1, <2>7
<1>10. CASE Parsed
  <2>1. UNCHANGED <<asked, args, sw, root>> /\ at = "parsed"
    BY <1>10 DEF Parsed, argVars
  <2>2. PICK n \in 0..Len(asked) : RequestParsed(n)
    BY <1>1, <2>1
  <2>3. RequestParsed(n)' /\ InFront(n)' = InFront(n)
    BY <2>1, <2>2, SameRequest, SameVector
  <2>4. \/ at' = "exit"
        \/ at' = "elevate"
        \/ at' \in {"judgeCache", "clean"} /\ ~(sw.elevate /\ ~root)
    BY <1>10 DEF Parsed, Exit
  <2>5. at' \in {"judgeCache", "clean"} => Whole(n)'
    BY <2>1, <2>2, <2>3, <2>4 DEF RequestParsed
  <2> QED BY <1>4, <2>3, <2>4, <2>5
<1>11. CASE Elevate
  <2>1. PICK n \in 0..Len(asked) : RequestParsed(n)
    BY <1>1, <1>11 DEF Elevate
  <2>2. sw.clean \in BOOLEAN /\ sw.noInstall \in BOOLEAN /\ at' = "begin"
    BY <1>11 DEF StartInv, TypeOK, Switches, Elevate
  <2>3. PICK c, i, p \in BOOLEAN : c = sw.clean /\ i = sw.noInstall /\ p = (sw.pin = "pin")
    BY <2>2
  <2>4. RelaunchedWith(n, c, i, p)'
    BY <1>1, <1>11, <2>1, <2>3, Relaunched
  <2> QED BY <1>4, <2>2, <2>4
<1>12. CASE UNCHANGED vars
  <2>1. UNCHANGED <<asked, args, sw, root>> /\ at' = at
    BY <1>12 DEF vars, argVars
  <2>2. \A n : (Half(n) => Half(n)') /\ (Whole(n) => Whole(n)')
               /\ (RequestParsed(n) => RequestParsed(n)')
    <3> TAKE n
    <3> QED BY <2>1, SameRequest
  <2> HIDE DEF Half, Whole
  <2> QED BY <1>1, <2>1, <2>2
<1> USE Stages DEF Exit, Judge, argVars
<1>13. ToolMissing \/ ElevationDeclined => at' = "exit"
  BY DEF ToolMissing, ElevationDeclined
<1>14. CASE JudgeCache
  <2>1. UNCHANGED <<asked, args, sw, root>> /\ at \in Later /\ at' \in Later \cup {"exit"}
    BY <1>14 DEF JudgeCache, Later, Unpacking, UvSearch, Preparing, Prepared
  <2> QED BY <1>5, <2>1
<1>15. CASE Clean
  <2>1. UNCHANGED <<asked, args, sw, root>> /\ at \in Later /\ at' \in Later \cup {"exit"}
    BY <1>15 DEF Clean, Later, Unpacking, UvSearch, Preparing, Prepared
  <2> QED BY <1>5, <2>1
<1>16. CASE Verify
  <2>1. UNCHANGED <<asked, args, sw, root>> /\ at \in Later /\ at' \in Later \cup {"exit"}
    BY <1>16 DEF Verify, Later, Unpacking, UvSearch, Preparing, Prepared
  <2> QED BY <1>5, <2>1
<1>17. CASE Unpack
  <2>1. UNCHANGED <<asked, args, sw, root>> /\ at \in Later /\ at' \in Later \cup {"exit"}
    BY <1>17 DEF Unpack, Later, Unpacking, UvSearch, Preparing, Prepared
  <2> QED BY <1>5, <2>1
<1>18. CASE Unpacked
  <2>1. UNCHANGED <<asked, args, sw, root>> /\ at \in Later /\ at' \in Later \cup {"exit"}
    BY <1>18 DEF Unpacked, Later, Unpacking, UvSearch, Preparing, Prepared
  <2> QED BY <1>5, <2>1
<1>19. CASE UsePin
  <2>1. UNCHANGED <<asked, args, sw, root>> /\ at \in Later /\ at' \in Later \cup {"exit"}
    BY <1>19 DEF UsePin, Later, Unpacking, UvSearch, Preparing, Prepared
  <2> QED BY <1>5, <2>1
<1>20. CASE FindUv
  <2>1. UNCHANGED <<asked, args, sw, root>> /\ at \in Later /\ at' \in Later \cup {"exit"}
    BY <1>20 DEF FindUv, Later, Unpacking, UvSearch, Preparing, Prepared
  <2> QED BY <1>5, <2>1
<1>21. CASE NoUv
  <2>1. UNCHANGED <<asked, args, sw, root>> /\ at \in Later /\ at' \in Later \cup {"exit"}
    BY <1>21 DEF NoUv, Later, Unpacking, UvSearch, Preparing, Prepared
  <2> QED BY <1>5, <2>1
<1>22. CASE JudgeInstallTmp
  <2>1. UNCHANGED <<asked, args, sw, root>> /\ at \in Later /\ at' \in Later \cup {"exit"}
    BY <1>22 DEF JudgeInstallTmp, Later, Unpacking, UvSearch, Preparing, Prepared
  <2> QED BY <1>5, <2>1
<1>23. CASE Install
  <2>1. UNCHANGED <<asked, args, sw, root>> /\ at \in Later /\ at' \in Later \cup {"exit"}
    BY <1>23 DEF Install, Later, Unpacking, UvSearch, Preparing, Prepared
  <2> QED BY <1>5, <2>1
<1>24. CASE AccountHome
  <2>1. UNCHANGED <<asked, args, sw, root>> /\ at \in Later /\ at' \in Later \cup {"exit"}
    BY <1>24 DEF AccountHome, Later, Unpacking, UvSearch, Preparing, Prepared
  <2> QED BY <1>5, <2>1
<1>25. CASE DropVariables
  <2>1. UNCHANGED <<asked, args, sw, root>> /\ at \in Later /\ at' \in Later \cup {"exit"}
    BY <1>25 DEF DropVariables, Later, Unpacking, UvSearch, Preparing, Prepared
  <2> QED BY <1>5, <2>1
<1>26. CASE PinVariables
  <2>1. UNCHANGED <<asked, args, sw, root>> /\ at \in Later /\ at' \in Later \cup {"exit"}
    BY <1>26 DEF PinVariables, Later, Unpacking, UvSearch, Preparing, Prepared
  <2> QED BY <1>5, <2>1
<1>27. CASE HandOver
  <2>1. UNCHANGED <<asked, args, sw, root>> /\ at \in Later /\ at' \in Later \cup {"exit"}
    BY <1>27 DEF HandOver, Later, Unpacking, UvSearch, Preparing, Prepared
  <2> QED BY <1>5, <2>1
<1>28. CASE PrivateTmp
  <2>1. UNCHANGED <<asked, args, sw, root>> /\ at \in Later /\ at' \in Later \cup {"exit"}
    BY <1>28 DEF PrivateTmp, Later, Unpacking, UvSearch, Preparing, Prepared
  <2> QED BY <1>5, <2>1
<1>29. CASE JudgePythonDir
  <2>1. UNCHANGED <<asked, args, sw, root>> /\ at \in Later /\ at' \in Later \cup {"exit"}
    BY <1>29 DEF JudgePythonDir, Later, Unpacking, UvSearch, Preparing, Prepared
  <2> QED BY <1>5, <2>1
<1>30. CASE JudgePath
  <2>1. UNCHANGED <<asked, args, sw, root>> /\ at \in Later /\ at' \in Later \cup {"exit"}
    BY <1>30 DEF JudgePath, Later, Unpacking, UvSearch, Preparing, Prepared
  <2> QED BY <1>5, <2>1
<1>31. CASE JudgeGit
  <2>1. UNCHANGED <<asked, args, sw, root>> /\ at \in Later /\ at' \in Later \cup {"exit"}
    BY <1>31 DEF JudgeGit, Later, Unpacking, UvSearch, Preparing, Prepared
  <2> QED BY <1>5, <2>1
<1>32. CASE GitVersion
  <2>1. UNCHANGED <<asked, args, sw, root>> /\ at \in Later /\ at' \in Later \cup {"exit"}
    BY <1>32 DEF GitVersion, Later, Unpacking, UvSearch, Preparing, Prepared
  <2> QED BY <1>5, <2>1
<1>33. CASE FindPython
  <2>1. UNCHANGED <<asked, args, sw, root>> /\ at \in Later /\ at' \in Later \cup {"exit"}
    BY <1>33 DEF FindPython, Later, Unpacking, UvSearch, Preparing, Prepared
  <2> QED BY <1>5, <2>1
<1>34. CASE JudgePython
  <2>1. UNCHANGED <<asked, args, sw, root>> /\ at \in Later /\ at' \in Later \cup {"exit"}
    BY <1>34 DEF JudgePython, Later, Unpacking, UvSearch, Preparing, Prepared
  <2> QED BY <1>5, <2>1
<1>35. CASE Exec
  <2>1. UNCHANGED <<asked, args, sw, root>> /\ at \in Later /\ at' \in Later \cup {"exit"}
    BY <1>35 DEF Exec, Later, Unpacking, UvSearch, Preparing, Prepared
  <2> QED BY <1>5, <2>1
<1>36. CASE Shim
  <2>1. UNCHANGED <<asked, args, sw, root>> /\ at \in Later /\ at' \in Later \cup {"exit"}
    BY <1>36 DEF Shim, Later, Unpacking, UvSearch, Preparing, Prepared
  <2> QED BY <1>5, <2>1
<1> HIDE DEF Exit, Judge, argVars
<1> QED
  BY <1>6, <1>7, <1>8, <1>9, <1>10, <1>11, <1>12, <1>13, <1>14, <1>15, <1>16, <1>17, <1>18, <1>19, <1>20, <1>21, <1>22, <1>23, <1>24,
     <1>25, <1>26, <1>27, <1>28, <1>29, <1>30, <1>31, <1>32, <1>33, <1>34, <1>35,
     <1>36 DEF Next

-----------------------------------------------------------------------------
(* The packer.                                                             *)

\* The package of a file is a sequence of names, and so is what an import that
\* does not climb out of it names.
LEMMA BaseIsName ==
    ASSUME NEW f \in P!PyFiles, NEW i \in [level : Nat, module : Seq(STRING), names : SUBSET STRING],
           ~P!ClimbsTooFar(i, P!package_parts(f))
    PROVE  P!resolve_from_base(i, P!package_parts(f)) \in Seq(STRING)
<1>1. f.name \in Seq(STRING) /\ (f.init \/ f.name # <<>>) /\ f.init \in BOOLEAN
  BY DEF P!PyFiles
<1>2. P!package_parts(f) \in Seq(STRING)
  <2>1. CASE f.init
    BY <1>1, <2>1 DEF P!package_parts
  <2>2. CASE ~f.init
    BY <1>1, <2>2 DEF P!package_parts, P!Front
  <2> QED BY <2>1, <2>2
<1> DEFINE pkg == P!package_parts(f)
<1> HIDE DEF pkg
<1>3. pkg \in Seq(STRING) /\ i.level \in Nat /\ i.module \in Seq(STRING) /\ ~P!ClimbsTooFar(i, pkg)
  BY <1>2 DEF pkg
<1>4. CASE i.level = 0
  BY <1>3, <1>4 DEF P!resolve_from_base, pkg
<1>5. CASE i.level # 0
  <2>1. Len(pkg) - (i.level - 1) \in 0..Len(pkg)
    BY <1>3, <1>5 DEF P!ClimbsTooFar
  <2>2. SubSeq(pkg, 1, Len(pkg) - (i.level - 1)) \in Seq(STRING)
    BY <1>3, <2>1
  <2> QED BY <1>3, <1>5, <2>2 DEF P!resolve_from_base, pkg
<1> QED BY <1>4, <1>5

\* A sequence begins with its head.
LEMMA FirstOf ==
    ASSUME NEW base \in Seq(STRING), NEW k \in 1..Len(base)
    PROVE  /\ 1 \in 1..Len(base) /\ SubSeq(base, 1, 1) = <<base[1]>>
           /\ \A m \in STRING : Head(Append(base, m)) = base[1]
<1>1. Len(base) \in Nat /\ 1 <= Len(base)
  OBVIOUS
<1>2. SubSeq(base, 1, 1) = <<base[1]>>
  <2>1. base[1] \in STRING /\ <<base[1]>> \in Seq(STRING) /\ Len(<<base[1]>>) = 1
    BY <1>1, ElementOfSeq
  <2> DEFINE s == SubSeq(base, 1, 1)
  <2>2. s \in Seq(STRING) /\ Len(s) = 1 /\ s[1] = base[1]
    BY <1>1, <2>1, SubSeqProperties
  <2> HIDE DEF s
  <2>3. \A i \in 1..1 : s[i] = <<base[1]>>[i]
    BY <2>2
  <2>4. s = <<base[1]>>
    BY <2>1, <2>2, <2>3, SeqEqual
  <2> QED BY <2>4 DEF s
<1>3. ASSUME NEW m \in STRING PROVE Head(Append(base, m)) = base[1]
  <2>1. base # <<>> /\ Head(base) = base[1]
    BY <1>1
  <2> QED BY <2>1, HeadTailAppend
<1> QED BY <1>1, <1>2, <1>3

\* The names below a dotted one are its beginnings; the first is its head.
LEMMA ParentsOf ==
    ASSUME NEW base \in Seq(STRING)
    PROVE  /\ P!with_parents(base) = {SubSeq(base, 1, n) : n \in 1..Len(base)}
           /\ \A n \in P!with_parents(base) :
                <<Head(n)>> \in P!with_parents(base) /\ Head(n) = base[1]
<1>1. SubSeq(base, 1, 0) = <<>>
  OBVIOUS
<1>2. \A n \in 1..Len(base) :
         SubSeq(base, 1, n) # <<>> /\ Head(SubSeq(base, 1, n)) = base[1]
  OBVIOUS
<1>3. P!Prefixes(base) = {SubSeq(base, 1, n) : n \in 0..Len(base)}
  BY DEF P!Prefixes
<1>4. 0..Len(base) = {0} \cup 1..Len(base)
  OBVIOUS
<1>5. P!with_parents(base) = {SubSeq(base, 1, n) : n \in 1..Len(base)}
  BY <1>1, <1>2, <1>3, <1>4 DEF P!with_parents
<1>6. ASSUME NEW n \in P!with_parents(base)
      PROVE  <<Head(n)>> \in P!with_parents(base) /\ Head(n) = base[1]
  <2>1. PICK k \in 1..Len(base) : n = SubSeq(base, 1, k)
    BY <1>5, <1>6
  <2>2. 1 \in 1..Len(base) /\ SubSeq(base, 1, 1) = <<base[1]>>
    BY <2>1, FirstOf
  <2> QED BY <1>2, <1>5, <2>1, <2>2
<1> QED BY <1>5, <1>6

\* An import of a.b.c imports a.
LEMMA HeadIsCandidate ==
    ASSUME NEW f \in P!PyFiles, NEW body \in P!PyBodies,
           NEW n \in P!iter_import_candidates(body, P!package_parts(f))
    PROVE  <<Head(n)>> \in P!iter_import_candidates(body, P!package_parts(f))
<1> DEFINE pkg == P!package_parts(f)
<1>1. PICK i \in body : n \in P!node_candidates(i, pkg)
  BY DEF P!iter_import_candidates
<1>2. i \in [level : Nat, module : Seq(STRING), names : SUBSET STRING] /\ ~P!ClimbsTooFar(i, pkg)
  BY <1>1 DEF P!PyBodies, P!node_candidates
<1> DEFINE base == P!resolve_from_base(i, pkg)
<1>3. base \in Seq(STRING)
  BY <1>2, BaseIsName
<1>4. P!node_candidates(i, pkg) = P!with_parents(base) \cup {Append(base, m) : m \in i.names}
  BY <1>2 DEF P!node_candidates
<1> HIDE DEF base, pkg
<1>5. <<Head(n)>> \in P!node_candidates(i, pkg)
  <2>1. CASE n \in P!with_parents(base)
    BY <1>3, <1>4, <2>1, ParentsOf
  <2>2. ASSUME NEW m \in i.names, n = Append(base, m) PROVE <<Head(n)>> \in P!node_candidates(i, pkg)
    <3>1. CASE base = <<>>
      <4>1. n = <<m>>
        BY <2>2, <3>1
      <4>2. Head(n) = m
        BY <4>1
      <4> QED BY <1>4, <2>2, <4>1, <4>2
    <3>2. CASE base # <<>>
      <4>1. Head(n) = base[1] /\ 1 \in 1..Len(base) /\ SubSeq(base, 1, 1) = <<base[1]>>
        <5>1. Len(base) \in 1..Len(base) /\ m \in STRING
          BY <1>2, <1>3, <3>2
        <5> QED BY <1>3, <2>2, <5>1, FirstOf
      <4>2. <<base[1]>> \in P!with_parents(base)
        BY <1>3, <4>1, ParentsOf
      <4> QED BY <1>4, <4>1, <4>2
    <3> QED BY <3>1, <3>2
  <2> QED BY <1>1, <1>4, <2>1, <2>2
<1> QED BY <1>1, <1>5 DEF P!iter_import_candidates, pkg

\* Every name Python loads for an import is one the packer tries.
LEMMA LoadsCandidates ==
    ASSUME NEW f \in P!PyFiles, NEW body \in P!PyBodies, NEW srcs,
           NEW g \in P!PythonLoads(f, body, srcs)
    PROVE  \E n \in P!iter_import_candidates(body, P!package_parts(f)) : g \in P!Loads(n, srcs)
<1> DEFINE pkg == P!package_parts(f)
           base(i) == P!resolve_from_base(i, pkg)
           names(i) == {SubSeq(base(i), 1, n) : n \in 1..Len(base(i))}
                       \cup {Append(base(i), n) : n \in i.names}
<1>1. PICK i \in body : ~P!ClimbsTooFar(i, pkg) /\ g \in UNION {P!Loads(n, srcs) : n \in names(i)}
  BY DEF P!PythonLoads
<1>2. base(i) \in Seq(STRING)
  BY <1>1, BaseIsName DEF P!PyBodies
<1>3. names(i) = P!node_candidates(i, pkg)
  BY <1>1, <1>2, ParentsOf DEF P!node_candidates
<1>4. PICK n \in names(i) : g \in P!Loads(n, srcs)
  BY <1>1
<1>5. n \in P!iter_import_candidates(body, pkg)
  BY <1>1, <1>3, <1>4 DEF P!iter_import_candidates
<1> QED BY <1>4, <1>5

\* Without twins the packer finds the file Python loads; both have the name.
LEMMA SameFile ==
    ASSUME P!NoTwins, P!DiskInv, NEW n, NEW g \in P!Loads(n, x2)
    PROVE  g \in P!resolve_local(n, x2) /\ g.name = n
<1>1. P!File(n, TRUE).name = n /\ P!File(n, FALSE).name = n /\ P!File(n, TRUE).init
  BY DEF P!File
<1>2. P!File(n, TRUE) \in DOMAIN x2 => P!File(n, FALSE) \notin DOMAIN x2
  BY <1>1 DEF P!NoTwins, P!DiskInv
<1> HIDE DEF P!File
<1> QED BY <1>1, <1>2 DEF P!Loads, P!resolve_local

\* Every file of a tree is one of the files, each a well-formed one.
LEMMA FilesAreTyped ==
    /\ P!Files \subseteq P!PyFiles
    /\ PackEdits \subseteq P!PyBodies
    /\ \A srcs \in PackTrees : DOMAIN srcs \subseteq P!Files /\ \A f \in DOMAIN srcs : srcs[f] \in P!PyBodies
BY RunnerAssumption DEF P!PackerAssumption, P!Files

LEMMA PackInit == P!Init => P!PackInv
<1> SUFFICES ASSUME P!Init PROVE P!PackInv
  OBVIOUS
<1>1. P!DiskInv
  BY FilesAreTyped DEF P!Init, P!DiskInv
<1>2. DOMAIN x7 = {}
  BY DEF P!Init
<1>3. P!WalkInv /\ P!NamesInv
  BY <1>2 DEF P!Init, P!WalkInv, P!NamesInv
<1> QED BY <1>1, <1>3 DEF P!PackInv

\* Reading a file keeps it: its names are resolved on the tree as it is.
LEMMA VisitKeeps ==
    ASSUME P!PackInv, NEW file \in P!Files, P!Visit(file) PROVE P!PackInv'
<1> USE DEF P!world, P!unpack
<1>1. P!DiskInv'
  BY DEF P!PackInv, P!DiskInv, P!Visit
<1>2. CASE file \notin DOMAIN x2 \/ ~P!IsPython(x2[file])
  <2>1. UNCHANGED <<x2, x6, x7, x8, x9, x15>> /\ x1' = "done"
    BY <1>2 DEF P!Visit, P!Fail
  <2> QED BY <1>1, <2>1 DEF P!PackInv, P!WalkInv, P!NamesInv
<1>3. CASE file \in DOMAIN x2 /\ P!IsPython(x2[file])
  <2> DEFINE names == P!iter_import_candidates(x2[file], P!package_parts(file))
             local == UNION {P!resolve_local(n, x2) : n \in names}
  <2>1. /\ x1 = "walk" /\ file \in x6 /\ UNCHANGED <<x1, x2, x15>>
        /\ DOMAIN x7' = DOMAIN x7 \cup {file}
        /\ x7'[file] = x2[file] /\ \A f \in DOMAIN x7 : f # file => x7'[f] = x7[f]
        /\ x8' = x8 \cup {file}
        /\ x9' = x9 \cup {Head(n) : n \in {m \in names : P!classify_import(m, x2) = "external"}}
        /\ x6' = (x6 \cup local) \ DOMAIN x7'
    BY <1>3 DEF P!Visit
  <2>2. /\ x8 \subseteq DOMAIN x7 \cap P!Files /\ x6 \cap DOMAIN x7 = {}
        /\ \A f \in x8 : x7[f] \in P!PyBodies
        /\ x2[file] \in P!PyBodies
        /\ "external" \notin {"local", "stdlib"}
        /\ \A f \in x8 : \A n \in P!iter_import_candidates(x7[f], P!package_parts(f)) :
             P!Steady(n) =>
               /\ P!resolve_local(n, x2) \subseteq x6 \cup DOMAIN x7
               /\ n = <<Head(n)>> /\ P!resolve_local(n, x2) = {} => Head(n) \in {"os"} \cup x9
    BY <1>3, <2>1 DEF P!PackInv, P!WalkInv, P!NamesInv, P!DiskInv
  <2> HIDE DEF names
  <2>3. P!WalkInv'
    BY <2>1, <2>2 DEF P!PackInv, P!WalkInv
  <2>4. x6 \cup DOMAIN x7 \cup local \subseteq x6' \cup DOMAIN x7'
    BY <2>1
  <2>5. ASSUME NEW f \in x8', NEW n \in P!iter_import_candidates(x7'[f], P!package_parts(f)), P!Steady(n)'
        PROVE  /\ P!resolve_local(n, x2') \subseteq x6' \cup DOMAIN x7'
               /\ n = <<Head(n)>> /\ P!resolve_local(n, x2') = {} => Head(n) \in {"os"} \cup x9'
    <3>1. CASE f = file
      <4>1. n \in names
        BY <2>1, <2>5, <3>1 DEF names
      <4>2. P!resolve_local(n, x2) \subseteq local
        BY <4>1
      <4>3. P!resolve_local(n, x2) = {} => P!classify_import(n, x2) = "external" \/ Head(n) \in {"os"}
        BY DEF P!classify_import
      <4> QED BY <2>1, <2>4, <4>1, <4>2, <4>3
    <3>2. CASE f # file
      <4>1. f \in x8 /\ x7'[f] = x7[f]
        BY <2>1, <2>2, <2>5, <3>2
      <4>2. P!Steady(n)
        BY <2>1, <2>5 DEF P!Steady
      <4> QED BY <2>1, <2>2, <2>4, <2>5, <4>1, <4>2
    <3> QED BY <3>1, <3>2
  <2>6. P!NamesInv'
    BY <2>5 DEF P!NamesInv
  <2> QED BY <1>1, <2>3, <2>6 DEF P!PackInv
<1> QED BY <1>2, <1>3

\* The end of the walk embeds what is included and drops the external names that
\* have a file by now.
LEMMA CollectedKeeps ==
    ASSUME P!PackInv, P!Collected PROVE P!PackInv'
<1> USE DEF P!world, P!unpack
<1>1. P!DiskInv'
  BY DEF P!PackInv, P!DiskInv, P!Collected
<1>2. /\ x1 = "walk" /\ x6 = {} /\ UNCHANGED <<x2, x6, x8, x15>>
      /\ DOMAIN x7 \subseteq DOMAIN x7' /\ \A f \in DOMAIN x7 : x7'[f] = x7[f]
      /\ \/ x1' = "done"
         \/ x1' = "guard" /\ x9' = {n \in x9 : P!resolve_local(<<n>>, x2) = {}}
  BY DEF P!Collected, P!Fail
<1>3. /\ x8 \subseteq DOMAIN x7 \cap P!Files /\ PackEntry \in x6 \cup DOMAIN x7
      /\ \A f \in x8 : x7[f] \in P!PyBodies
      /\ \A f \in x8 : \A n \in P!iter_import_candidates(x7[f], P!package_parts(f)) :
           P!Steady(n) =>
             /\ P!resolve_local(n, x2) \subseteq x6 \cup DOMAIN x7
             /\ n = <<Head(n)>> /\ P!resolve_local(n, x2) = {} => Head(n) \in {"os"} \cup x9
  BY <1>2 DEF P!PackInv, P!WalkInv, P!NamesInv
<1>4. P!WalkInv'
  BY <1>2, <1>3 DEF P!WalkInv
<1>5. ASSUME x1' = "guard", NEW f \in x8',
             NEW n \in P!iter_import_candidates(x7'[f], P!package_parts(f)), P!Steady(n)'
      PROVE  /\ P!resolve_local(n, x2') \subseteq x6' \cup DOMAIN x7'
             /\ n = <<Head(n)>> /\ P!resolve_local(n, x2') = {} => Head(n) \in {"os"} \cup x9'
  <2>1. f \in x8 /\ x7'[f] = x7[f] /\ P!Steady(n)
    BY <1>2, <1>3, <1>5 DEF P!Steady
  <2> QED BY <1>2, <1>3, <1>5, <2>1
<1>6. P!NamesInv'
  BY <1>2, <1>5 DEF P!NamesInv
<1> QED BY <1>1, <1>4, <1>6 DEF P!PackInv

\* An edit leaves a name that is still steady to what it was resolved to.
LEMMA EditKeeps ==
    ASSUME P!PackInv, NEW file \in P!Files, NEW body \in PackEdits, P!Edit(file, body)
    PROVE  P!PackInv'
<1> USE DEF P!world, P!unpack
<1>1. /\ UNCHANGED <<x1, x6, x7, x8, x9>> /\ x15' = x15 \ {file}
      /\ \/ DOMAIN x2' = DOMAIN x2 \ {file}
         \/ DOMAIN x2' = DOMAIN x2 \cup {file} /\ x2'[file] = body
      /\ \A f \in DOMAIN x2' : f # file => f \in DOMAIN x2 /\ x2'[f] = x2[f]
      /\ \A f \in DOMAIN x2 : f # file => f \in DOMAIN x2'
  <2>1. CASE file \in DOMAIN x2
    BY <2>1 DEF P!Edit
  <2>2. CASE file \notin DOMAIN x2
    BY <2>2 DEF P!Edit
  <2> QED BY <2>1, <2>2
<1>2. P!DiskInv'
  BY <1>1, FilesAreTyped DEF P!PackInv, P!DiskInv
<1>3. P!WalkInv'
  BY <1>1 DEF P!PackInv, P!WalkInv
<1>4. ASSUME NEW n, P!Steady(n)' PROVE P!Steady(n) /\ P!resolve_local(n, x2') = P!resolve_local(n, x2)
  <2>1. P!File(n, FALSE) # file /\ P!File(n, TRUE) # file
    BY <1>1, <1>4 DEF P!Steady
  <2>2. P!Steady(n)
    BY <1>1, <1>4 DEF P!Steady
  <2>3. /\ P!File(n, FALSE) \in DOMAIN x2' <=> P!File(n, FALSE) \in DOMAIN x2
        /\ P!File(n, TRUE) \in DOMAIN x2' <=> P!File(n, TRUE) \in DOMAIN x2
    BY <1>1, <2>1
  <2> QED BY <2>2, <2>3 DEF P!resolve_local
<1>5. P!NamesInv'
  BY <1>1, <1>4 DEF P!PackInv, P!NamesInv
<1> QED BY <1>2, <1>3, <1>5 DEF P!PackInv

\* A step that leaves the walk's findings alone, and goes on only where it has ended.
LEMMA FindingsKeep ==
    ASSUME P!PackInv, UNCHANGED <<x2, x6, x7, x8, x9, x15>>,
           \/ x1' = x1
           \/ x1 \in {"guard", "write"} /\ x1' \in {"write", "packed"}
           \/ x1' \in {"done", "unpack"}
    PROVE  P!PackInv'
<1>1. P!DiskInv' /\ P!WalkInv'
  BY DEF P!PackInv, P!DiskInv, P!WalkInv
<1>2. P!NamesInv'
  <2>1. \A n : P!Steady(n)' <=> P!Steady(n)
    BY DEF P!Steady
  <2> QED BY <2>1 DEF P!PackInv, P!NamesInv
<1> QED BY <1>1, <1>2 DEF P!PackInv

\* Every step keeps the packer's invariant.
LEMMA PackNext == P!PackInv /\ [P!Next]_(P!vars) => P!PackInv'
<1> SUFFICES ASSUME P!PackInv, [P!Next]_(P!vars) PROVE P!PackInv'
  OBVIOUS
<1> USE DEF P!world, P!unpack, P!Fail
<1>1. CASE UNCHANGED P!vars
  BY <1>1, FindingsKeep DEF P!vars
<1>2. CASE P!Pack
  <2>1. P!DiskInv'
    BY <1>2 DEF P!Pack, P!PackInv, P!DiskInv
  <2>2. x8' = {} /\ DOMAIN x7' = {} /\ x6' = {PackEntry} /\ x1' = "walk"
    BY <1>2 DEF P!Pack, P!PackInv, P!WalkInv
  <2> QED BY <2>1, <2>2 DEF P!PackInv, P!WalkInv, P!NamesInv
<1>3. CASE P!Collected
  BY <1>3, CollectedKeeps
<1>4. CASE P!Guard
  BY <1>4, FindingsKeep DEF P!Guard
<1>5. CASE P!WriteRunner
  BY <1>5, FindingsKeep DEF P!WriteRunner
<1>6. CASE P!Unpack
  BY <1>6, FindingsKeep DEF P!Unpack
<1>7. CASE P!WriteMember
  BY <1>7, FindingsKeep DEF P!WriteMember
<1>8. CASE P!Unpacked
  BY <1>8, FindingsKeep DEF P!Unpacked
<1>9. CASE P!Forget
  <2>1. P!DiskInv'
    BY <1>9 DEF P!Forget, P!PackInv, P!DiskInv
  <2>2. x8' = {} /\ DOMAIN x7' = {} /\ x6' = {} /\ x1' = "idle"
    BY <1>9 DEF P!Forget
  <2> QED BY <2>1, <2>2 DEF P!PackInv, P!WalkInv, P!NamesInv
<1>10. ASSUME NEW f \in P!Files, P!Visit(f) PROVE P!PackInv'
  BY <1>10, VisitKeeps
<1>11. ASSUME NEW f \in P!Files, NEW b \in PackEdits, P!Edit(f, b) PROVE P!PackInv'
  BY <1>11, EditKeeps
<1> QED
  BY <1>1, <1>2, <1>3, <1>4, <1>5, <1>6, <1>7, <1>8, <1>9, <1>10, <1>11 DEF P!Next

\* What the invariant says of a runner that was written.
LEMMA PackedIsComplete ==
    ASSUME P!NoTwins, P!PackInv PROVE P!EmbedsWhatPythonLoads /\ P!NothingIsUnaccounted
<1> SUFFICES ASSUME x1 = "packed" PROVE P!EmbedsWhatPythonLoads /\ P!NothingIsUnaccounted
  BY DEF P!EmbedsWhatPythonLoads, P!NothingIsUnaccounted
<1>1. /\ PackEntry \in DOMAIN x7 /\ x6 = {} /\ P!DiskInv
      /\ \A f \in x8 : f \in P!PyFiles /\ x7[f] \in P!PyBodies
      /\ \A f \in x8 : \A n \in P!iter_import_candidates(x7[f], P!package_parts(f)) :
           P!Steady(n) =>
             /\ P!resolve_local(n, x2) \subseteq x6 \cup DOMAIN x7
             /\ n = <<Head(n)>> /\ P!resolve_local(n, x2) = {} => Head(n) \in {"os"} \cup x9
  BY FilesAreTyped DEF P!PackInv, P!WalkInv, P!NamesInv
<1>2. ASSUME NEW f \in x8, NEW g \in P!PythonLoads(f, x7[f], x2), P!Steady(g.name)
      PROVE  g \in DOMAIN x7
  <2>1. PICK n \in P!iter_import_candidates(x7[f], P!package_parts(f)) : g \in P!Loads(n, x2)
    BY <1>1, <1>2, LoadsCandidates
  <2>2. g \in P!resolve_local(n, x2) /\ g.name = n
    BY <1>1, <2>1, SameFile
  <2> QED BY <1>1, <1>2, <2>1, <2>2
<1>3. ASSUME NEW f \in x8, NEW n \in P!iter_import_candidates(x7[f], P!package_parts(f)),
             P!Steady(<<Head(n)>>), Head(n) \notin {"os"}
      PROVE  Head(n) \in x9 \/ \E g \in DOMAIN x7 : g.name = <<Head(n)>>
  <2> DEFINE h == <<Head(n)>>
  <2>1. h \in P!iter_import_candidates(x7[f], P!package_parts(f)) /\ h = <<Head(h)>> /\ Head(h) = Head(n)
    BY <1>1, <1>3, HeadIsCandidate
  <2>2. /\ P!resolve_local(h, x2) \subseteq DOMAIN x7
        /\ P!resolve_local(h, x2) = {} => Head(n) \in x9
    BY <1>1, <1>3, <2>1
  <2>3. \A g \in P!resolve_local(h, x2) : g.name = h
    BY DEF P!resolve_local, P!File
  <2> QED BY <2>2, <2>3
<1> QED BY <1>1, <1>2, <1>3 DEF P!EmbedsWhatPythonLoads, P!NothingIsUnaccounted

-----------------------------------------------------------------------------
(* Files: the operators.                                                   *)

\* The first name that is free is a name, and free: among one more than are
\* taken there is a free one, and so a first.
LEMMA FreeName ==
    ASSUME NEW taken, IsFiniteSet(taken)
    PROVE  F!free_name(taken) \in Nat \ {0} /\ F!free_name(taken) \notin taken
<1> DEFINE c == Cardinality(taken)
           Free == {n \in 1..(c + 1) : n \notin taken}
<1>1. c \in Nat
  BY FS_CardinalityType
<1>2. Free # {}
  <2> SUFFICES ASSUME 1..(c + 1) \subseteq taken PROVE FALSE
    OBVIOUS
  <2>1. Cardinality(1..(c + 1)) = c + 1
    BY <1>1, FS_Interval
  <2>2. Cardinality(1..(c + 1)) <= c
    BY FS_Subset
  <2> QED BY <1>1, <2>1, <2>2
<1>3. PICK m \in Free : \A k \in Free : m <= k
  <2>1. Free \in SUBSET Nat
    BY <1>1
  <2> HIDE DEF Free
  <2> QED BY <1>2, <2>1, LeastElement
<1> DEFINE First(n) == n \notin taken /\ \A k \in 1..(n - 1) : k \in taken
<1>4. m \in 1..(c + 1) /\ First(m)
  <2>1. m \in 1..(c + 1) /\ m \notin taken
    OBVIOUS
  <2>2. ASSUME NEW k \in 1..(m - 1), k \notin taken PROVE FALSE
    <3>1. k \in 1..(c + 1)
      BY <1>1, <2>1
    <3>2. m <= k
      BY <1>3, <2>2, <3>1
    <3> QED BY <1>1, <2>1, <3>2
  <2> QED BY <2>1, <2>2
<1>5. F!free_name(taken) \in 1..(c + 1) /\ First(F!free_name(taken))
  <2>0. F!Cardinality(taken) = c
    BY DEF F!Cardinality, Cardinality
  <2>1. F!free_name(taken) = CHOOSE n \in 1..(c + 1) : First(n)
    BY <2>0 DEF F!free_name
  <2> HIDE DEF First, c
  <2> QED BY <1>4, <2>1
<1> QED BY <1>1, <1>5

\* A sequence has finitely many elements.
LEMMA ElementsFinite ==
    ASSUME NEW S, NEW s \in Seq(S)
    PROVE  IsFiniteSet(F!ToSet(s)) /\ F!ToSet(s) = {s[i] : i \in 1..Len(s)}
<1>1. F!ToSet(s) = {s[i] : i \in 1..Len(s)}
  BY DEF F!ToSet
<1>2. IsFiniteSet({s[i] : i \in 1..Len(s)})
  <2> DEFINE T == {s[i] : i \in 1..Len(s)}
  <2>1. s \in Seq(T)
    BY LenProperties, IsASeq
  <2>2. \A e \in T : \E n \in 1..Len(s) : s[n] = e
    OBVIOUS
  <2> HIDE DEF T
  <2>3. IsFiniteSet(T)
    BY <2>1, <2>2 DEF IsFiniteSet
  <2> QED BY <2>3 DEF T
<1> QED BY <1>1, <1>2

\* All the keys of a record are there, no two the same, whatever names the
\* repaired ones get.
LEMMA RepairedKeys ==
    ASSUME NEW keys \in Seq(Int), F!IsInjective(keys)
    PROVE  /\ F!repaired_key_names(keys) \in Seq(Int)
           /\ Len(F!repaired_key_names(keys)) = Len(keys)
           /\ F!IsInjective(F!repaired_key_names(keys))
<1> DEFINE L == Len(keys)
           valid == {k \in F!ToSet(keys) : k > 0}
           name(i, v) == IF keys[i] > 0 THEN keys[i] ELSE F!free_name(valid \cup F!ToSet(v))
           Eq(f) == f = [i \in 0..L |-> IF i = 0 THEN <<>> ELSE Append(f[i - 1], name(i, f[i - 1]))]
           done == CHOOSE f : Eq(f)
<1>1. L \in Nat
  OBVIOUS
<1>2. F!repaired_key_names(keys) = done[L]
  BY DEF F!repaired_key_names
<1>3. ASSUME NEW i \in 1..L, NEW v \in Seq(Int)
      PROVE  /\ name(i, v) \in Int
             /\ keys[i] > 0 => name(i, v) = keys[i]
             /\ ~ (keys[i] > 0) => name(i, v) \notin valid /\ name(i, v) \notin F!ToSet(v)
  <2>1. IsFiniteSet(valid \cup F!ToSet(v))
    <3>1. IsFiniteSet(F!ToSet(keys)) /\ IsFiniteSet(F!ToSet(v))
      BY ElementsFinite
    <3>2. IsFiniteSet(valid)
      BY <3>1, FS_Subset
    <3> HIDE DEF valid
    <3> QED BY <3>1, <3>2, FS_Union
  <2> DEFINE n == F!free_name(valid \cup F!ToSet(v))
  <2>2. n \in Nat \ {0} /\ n \notin valid \cup F!ToSet(v)
    <3> HIDE DEF valid
    <3> QED BY <2>1, FreeName
  <2>3. keys[i] \in Int
    OBVIOUS
  <2> HIDE DEF n, valid
  <2> QED BY <2>2, <2>3 DEF n
<1>4. \E f : Eq(f)
  <2> DEFINE step == [p \in Nat \X Seq(Int) |->
                         IF p[1] \in 1..L THEN Append(p[2], name(p[1], p[2])) ELSE p[2]]
  <2> HIDE DEF name
  <2>1. step \in [Nat \X Seq(Int) -> Seq(Int)]
    BY <1>3
  <2>2. ASSUME NEW i \in 1..L, NEW v \in Seq(Int)
        PROVE  step[<<i, v>>] = Append(v, name(i, v))
    <3>1. <<i, v>> \in Nat \X Seq(Int)
      OBVIOUS
    <3> QED BY <3>1
  <2> HIDE DEF step
  <2>3. PICK g : Recursive(g, Seq(Int), <<>>, step)
    <3>1. <<>> \in Seq(Int)
      OBVIOUS
    <3> QED BY <2>1, <3>1, PrimitiveRecursion
  <2>4. g \in [Nat -> Seq(Int)] /\ g[0] = <<>>
    BY <2>3 DEF Recursive
  <2>5. ASSUME NEW i \in 1..L PROVE g[i] = Append(g[i - 1], name(i, g[i - 1]))
    <3>1. i \in Nat \ {0} /\ g[i - 1] \in Seq(Int)
      BY <2>4
    <3> QED BY <2>2, <2>3, <3>1 DEF Recursive
  <2> DEFINE h == [i \in 0..L |-> g[i]]
  <2>6. ASSUME NEW i \in 0..L
        PROVE  g[i] = IF i = 0 THEN <<>> ELSE Append(h[i - 1], name(i, h[i - 1]))
    <3>1. CASE i = 0
      BY <2>4, <3>1
    <3>2. CASE i # 0
      <4>1. i \in 1..L /\ h[i - 1] = g[i - 1]
        BY <3>2
      <4> QED BY <2>5, <3>2, <4>1
    <3> QED BY <3>1, <3>2
  <2>7. Eq(h)
    BY <2>6, Zenon
  <2> QED BY <2>7
<1>5. \A i \in 0..L : done[i] = IF i = 0 THEN <<>> ELSE Append(done[i - 1], name(i, done[i - 1]))
  <2>1. Eq(done)
    <3> HIDE DEF Eq
    <3> QED BY <1>4, Zenon
  <2> HIDE DEF done, name
  <2> QED BY <2>1, Zenon
<1> HIDE DEF done, Eq, name
<1> DEFINE Good(n) ==
             /\ done[n] \in Seq(Int) /\ Len(done[n]) = n
             /\ \A a, b \in 1..n : done[n][a] = done[n][b] => a = b
             /\ \A a \in 1..n : IF keys[a] > 0 THEN done[n][a] = keys[a]
                                ELSE done[n][a] \notin valid
           T == {n \in Nat : n <= L => Good(n)}
<1>6. 0 \in T
  <2>1. done[0] = <<>>
    BY <1>1, <1>5
  <2>2. Good(0)
    BY <2>1
  <2> HIDE DEF Good
  <2> QED BY <2>2
<1>7. ASSUME NEW m \in Nat, m \in T PROVE m + 1 \in T
  <2> SUFFICES ASSUME m + 1 <= L PROVE Good(m + 1)
    <3> HIDE DEF Good
    <3> QED OBVIOUS
  <2> DEFINE n == m + 1
             e == name(n, done[m])
  <2>1. n \in 1..L /\ n \in 0..L /\ n # 0 /\ n - 1 = m
    BY <1>1
  <2>2. Good(m)
    <3> HIDE DEF Good, L
    <3>1. m \in T /\ m + 1 <= L
      BY <1>7
    <3>2. m <= L
      BY ONLY m \in Nat, <1>1, <3>1
    <3> QED BY ONLY <3>1, <3>2 DEF T
  <2> HIDE DEF n
  <2>3. done[n] = Append(done[m], e)
    <3>1. done[n] = Append(done[n - 1], name(n, done[n - 1]))
      BY ONLY <1>5, <2>1
    <3> QED BY ONLY <2>1, <3>1
  <2>4. /\ e \in Int
        /\ keys[n] > 0 => e = keys[n]
        /\ ~ (keys[n] > 0) => e \notin valid /\ e \notin F!ToSet(done[m])
    BY <1>3, <2>1, <2>2
  <2>5. F!ToSet(done[m]) = {done[m][i] : i \in 1..m}
    BY <2>2, ElementsFinite
  <2> HIDE DEF e
  <2>6. done[n] \in Seq(Int) /\ Len(done[n]) = n /\ done[n][n] = e
        /\ \A i \in 1..m : done[n][i] = done[m][i]
    BY <2>1, <2>2, <2>3, <2>4
  <2>7. ASSUME NEW a \in 1..m PROVE done[m][a] # e
    <3>1. CASE keys[n] > 0
      <4>1. CASE keys[a] > 0
        <5>1. a \in DOMAIN keys /\ n \in DOMAIN keys /\ a # n
          BY <2>1
        <5>2. keys[a] # keys[n]
          BY <5>1 DEF F!IsInjective
        <5> QED BY <2>2, <2>4, <3>1, <4>1, <5>2
      <4>2. CASE ~ (keys[a] > 0)
        <5>1. done[m][a] \notin valid
          BY <2>2, <4>2
        <5>2. keys[n] \in valid
          BY <2>1, <3>1 DEF F!ToSet
        <5> QED BY <2>4, <3>1, <5>1, <5>2
      <4> QED BY <4>1, <4>2
    <3>2. CASE ~ (keys[n] > 0)
      BY <2>4, <2>5, <3>2
    <3> QED BY <3>1, <3>2
  <2>8. \A a \in 1..n : a \in 1..m \/ a = n
    BY <2>1
  <2>9. \A a, b \in 1..n : done[n][a] = done[n][b] => a = b
    BY <2>2, <2>6, <2>7, <2>8
  <2>10. \A a \in 1..n : IF keys[a] > 0 THEN done[n][a] = keys[a] ELSE done[n][a] \notin valid
    <3> HIDE DEF valid
    <3> QED BY <2>2, <2>4, <2>6, <2>8
  <2> HIDE DEF valid
  <2> QED BY ONLY <2>6, <2>9, <2>10 DEF n
<1>8. Good(L)
  <2>1. \A n \in Nat : n \in T
    <3> HIDE DEF T
    <3> QED BY <1>6, <1>7, SetInduction
  <2> QED BY <1>1, <2>1
<1> HIDE DEF L, valid, T
<1>9. /\ done[L] \in Seq(Int) /\ Len(done[L]) = L
      /\ \A a, b \in 1..L : done[L][a] = done[L][b] => a = b
  BY ONLY <1>8
<1>10. F!IsInjective(done[L])
  <2>1. DOMAIN done[L] = 1..L
    BY ONLY <1>9
  <2> QED BY ONLY <1>9, <2>1 DEF F!IsInjective
<1> QED BY ONLY <1>2, <1>9, <1>10 DEF L

\* What the reference writes for the i-th character.
Part(text, nl, i) ==
    IF text[i] \notin {"CR", "LF"} THEN <<text[i]>>
    ELSE IF text[i] = "LF" /\ i > 1 /\ text[i - 1] = "CR" THEN <<>> ELSE nl

Parts(text, nl) == [i \in 1..Len(text) |-> Part(text, nl, i)]

LEMMA NewlineTexts == \A nl \in F!Newlines : nl \in Seq(F!Characters)
<1>1. "CR" \in F!Characters /\ "LF" \in F!Characters
  BY DEF F!Characters, F!CR, F!LF
<1>2. <<"LF">> \in Seq(F!Characters) /\ <<"CR", "LF">> \in Seq(F!Characters)
  BY <1>1
<1> QED BY <1>2 DEF F!Newlines, F!CR, F!LF

LEMMA ExpectedParts ==
    ASSUME NEW text \in Seq(F!Characters), NEW nl \in F!Newlines
    PROVE  /\ Parts(text, nl) \in Seq(Seq(F!Characters))
           /\ F!Expected(text, nl) = FlattenSeq(Parts(text, nl))
           /\ F!Expected(text, nl) \in Seq(F!Characters)
<1>1. F!Expected(text, nl) = FlattenSeq(Parts(text, nl))
  BY DEF F!Expected, F!FlattenSeq, FlattenSeq, Parts, Part, F!CR, F!LF
<1>2. ASSUME NEW i \in 1..Len(text) PROVE Part(text, nl, i) \in Seq(F!Characters)
  <2>1. text[i] \in F!Characters
    OBVIOUS
  <2>2. <<>> \in Seq(F!Characters) /\ nl \in Seq(F!Characters) /\ <<text[i]>> \in Seq(F!Characters)
    BY <2>1, NewlineTexts
  <2> QED BY <2>2 DEF Part
<1>3. Parts(text, nl) \in Seq(Seq(F!Characters))
  BY <1>2, LenProperties, IsASeq DEF Parts
<1>4. FlattenSeq(Parts(text, nl)) \in Seq(F!Characters)
  <2>1. <<>> \in Seq(F!Characters)
    OBVIOUS
  <2> QED BY <1>3, <2>1, FlattenAppend
<1> QED BY <1>1, <1>3, <1>4

\* A text in two parts, when no CRLF is cut.
LEMMA ExpectedConcat ==
    ASSUME NEW s \in Seq(F!Characters), NEW t \in Seq(F!Characters), NEW nl \in F!Newlines,
           s # <<>> /\ t # <<>> => ~ (s[Len(s)] = "CR" /\ t[1] = "LF")
    PROVE  F!Expected(s \o t, nl) = F!Expected(s, nl) \o F!Expected(t, nl)
<1> DEFINE st == s \o t
<1>1. st \in Seq(F!Characters) /\ Len(st) = Len(s) + Len(t)
  OBVIOUS
<1>2. /\ \A i \in 1..Len(s) : st[i] = s[i]
      /\ \A i \in 1..Len(t) : st[Len(s) + i] = t[i]
  OBVIOUS
<1> HIDE DEF st
<1>3. Len(s) \in Nat /\ Len(t) \in Nat
  OBVIOUS
<1>4. ASSUME NEW i \in 1..Len(s) PROVE Part(st, nl, i) = Part(s, nl, i)
  <2>1. i > 1 => i - 1 \in 1..Len(s)
    BY <1>3
  <2> QED BY <1>2, <2>1 DEF Part
<1>5. ASSUME NEW i \in 1..Len(t) PROVE Part(st, nl, Len(s) + i) = Part(t, nl, i)
  <2> DEFINE k == Len(s) + i
  <2>1. st[k] = t[i]
    BY <1>2
  <2>2. CASE i > 1
    <3>1. i - 1 \in 1..Len(t) /\ Len(s) + (i - 1) = k - 1 /\ k > 1
      BY <1>3, <2>2
    <3>2. st[k - 1] = t[i - 1]
      BY <1>2, <3>1
    <3> HIDE DEF k
    <3>3. Part(st, nl, k) = Part(t, nl, i)
      BY <2>1, <2>2, <3>1, <3>2 DEF Part
    <3> QED BY <3>3 DEF k
  <2>3. CASE i = 1 /\ s = <<>>
    <3>1. k = 1
      BY <2>3
    <3> HIDE DEF k
    <3>2. Part(st, nl, k) = Part(t, nl, i)
      BY <2>1, <2>3, <3>1 DEF Part
    <3> QED BY <3>2 DEF k
  <2>4. CASE i = 1 /\ s # <<>>
    <3>1. k - 1 = Len(s) /\ Len(s) \in 1..Len(s) /\ t # <<>>
      BY <1>3, <2>4
    <3>2. st[k - 1] = s[Len(s)]
      BY <1>2, <3>1
    <3> HIDE DEF k
    <3>3. ~ (st[k] = "LF" /\ k > 1 /\ st[k - 1] = "CR")
      BY <2>1, <2>4, <3>1, <3>2
    <3>4. Part(st, nl, k) = Part(t, nl, i)
      BY <2>1, <2>4, <3>3 DEF Part
    <3> QED BY <3>4 DEF k
  <2> QED BY <2>2, <2>3, <2>4
<1>6. Parts(st, nl) = Parts(s, nl) \o Parts(t, nl)
  <2> DEFINE C == Seq(F!Characters)
             ps == Parts(s, nl)
             pt == Parts(t, nl)
             pst == Parts(st, nl)
  <2>1. ps \in Seq(C) /\ pt \in Seq(C) /\ pst \in Seq(C)
    BY <1>1, ExpectedParts
  <2>2. Len(ps) = Len(s) /\ Len(pt) = Len(t) /\ Len(pst) = Len(s) + Len(t)
    BY <1>1, <1>3 DEF Parts
  <2>3. \A i \in 1..Len(s) : pst[i] = ps[i]
    BY <1>1, <1>3, <1>4 DEF Parts
  <2>4. \A i \in 1..Len(t) : pst[Len(s) + i] = pt[i]
    BY <1>1, <1>3, <1>5 DEF Parts
  <2> HIDE DEF C, ps, pt, pst
  <2>5. /\ Len(pst) = Len(ps) + Len(pt)
        /\ \A i \in 1..Len(ps) : pst[i] = ps[i]
        /\ \A i \in 1..Len(pt) : pst[Len(ps) + i] = pt[i]
    BY <2>2, <2>3, <2>4
  <2>7. pst = ps \o pt
    BY ONLY <2>1, <2>5, IsConcat
  <2> QED BY <2>7 DEF ps, pt, pst
<1>7. FlattenSeq(Parts(s, nl) \o Parts(t, nl)) = FlattenSeq(Parts(s, nl)) \o FlattenSeq(Parts(t, nl))
  BY ExpectedParts, FlattenConcat
<1> QED BY <1>1, <1>6, <1>7, ExpectedParts DEF st

LEMMA ExpectedOne ==
    ASSUME NEW c \in F!Characters, NEW nl \in F!Newlines
    PROVE  F!Expected(<<c>>, nl) = IF c \in {"CR", "LF"} THEN nl ELSE <<c>>
<1> DEFINE p == IF c \in {"CR", "LF"} THEN nl ELSE <<c>>
<1>1. <<c>> \in Seq(F!Characters) /\ p \in Seq(F!Characters)
  BY NewlineTexts
<1>2. Parts(<<c>>, nl) = <<p>>
  BY DEF Parts, Part
<1>3. FlattenSeq(<<p>>) = p
  BY DEF FlattenSeq
<1> QED BY <1>1, <1>2, <1>3, ExpectedParts

LEMMA CRLFExpected ==
    ASSUME NEW nl \in F!Newlines PROVE F!Expected(<<"CR", "LF">>, nl) = nl
<1>1. <<"CR", "LF">> \in Seq(F!Characters) /\ nl \in Seq(F!Characters)
  BY NewlineTexts DEF F!Characters, F!CR, F!LF
<1>2. Parts(<<"CR", "LF">>, nl) = <<nl, <<>>>>
  <2>1. Part(<<"CR", "LF">>, nl, 1) = nl
    BY DEF Part
  <2>2. Part(<<"CR", "LF">>, nl, 2) = <<>>
    BY DEF Part
  <2>3. Parts(<<"CR", "LF">>, nl) = [i \in 1..2 |-> Part(<<"CR", "LF">>, nl, i)]
    BY DEF Parts
  <2> QED BY <2>1, <2>2, <2>3
<1>3. <<nl, <<>>>> = Append(<<nl>>, <<>>) /\ <<nl>> \in Seq(Seq(F!Characters))
  BY <1>1
<1>4. FlattenSeq(<<nl, <<>>>>) = FlattenSeq(<<nl>>) \o <<>>
  <2>1. <<>> \in Seq(F!Characters)
    OBVIOUS
  <2> QED BY <1>3, <2>1, FlattenAppend
<1>5. FlattenSeq(<<nl>>) = nl
  BY DEF FlattenSeq
<1>6. nl \o <<>> = nl
  BY <1>1
<1> HIDE DEF Parts, Part
<1>7. F!Expected(<<"CR", "LF">>, nl) = FlattenSeq(Parts(<<"CR", "LF">>, nl))
  BY <1>1, ExpectedParts
<1> QED BY <1>2, <1>4, <1>5, <1>6, <1>7

LEMMA ExpectedEmpty == \A nl : F!Expected(<<>>, nl) = <<>>
BY DEF F!Expected, F!FlattenSeq

\* The line from the i-th character on, when a is the line from the next and b
\* the one from the next but one.
Line(text, nl, i, a, b) ==
    CASE text[i] = "CR" -> nl \o (IF i < Len(text) /\ text[i + 1] = "LF" THEN b ELSE a)
      [] text[i] = "LF" -> nl \o a
      [] OTHER -> <<text[i]>> \o a

LEMMA LineIsText ==
    ASSUME NEW text \in Seq(F!Characters), NEW nl \in F!Newlines, NEW i \in 1..Len(text),
           NEW a \in Seq(F!Characters), NEW b \in Seq(F!Characters)
    PROVE  Line(text, nl, i, a, b) \in Seq(F!Characters)
<1>1. <<text[i]>> \in Seq(F!Characters) /\ nl \in Seq(F!Characters)
  BY NewlineTexts
<1>2. <<text[i]>> \o a \in Seq(F!Characters) /\ nl \o a \in Seq(F!Characters)
      /\ nl \o b \in Seq(F!Characters)
  BY <1>1
<1> QED BY <1>2 DEF Line

\* normalize_newlines is defined: from the end to the beginning.
LEMMA NormalizeUnfolds ==
    ASSUME NEW text \in Seq(F!Characters), NEW nl \in F!Newlines
    PROVE  \E line : /\ F!normalize_newlines(text, nl) = line[1]
                     /\ \A i \in 1..(Len(text) + 2) :
                          line[i] = IF i > Len(text) THEN <<>>
                                    ELSE Line(text, nl, i, line[i + 1], line[i + 2])
<1> DEFINE L == Len(text)
           C == Seq(F!Characters)
           Eq(f) == f = [i \in 1..(L + 2) |->
                            IF i > L THEN <<>> ELSE Line(text, nl, i, f[i + 1], f[i + 2])]
           line == CHOOSE f : Eq(f)
<1>1. L \in Nat /\ <<>> \in C
  OBVIOUS
<1>2. F!normalize_newlines(text, nl) = line[1]
  <2> DEFINE old(f, i) ==
                IF i > L THEN <<>>
                ELSE CASE text[i] = "CR" -> nl \o f[IF i < L /\ text[i + 1] = "LF" THEN i + 2 ELSE i + 1]
                       [] text[i] = "LF" -> nl \o f[i + 1]
                       [] OTHER -> <<text[i]>> \o f[i + 1]
             new(f, i) == IF i > L THEN <<>> ELSE Line(text, nl, i, f[i + 1], f[i + 2])
  <2>1. F!normalize_newlines(text, nl) = (CHOOSE f : f = [i \in 1..(L + 2) |-> old(f, i)])[1]
    BY DEF F!normalize_newlines, F!CR, F!LF
  <2>2. ASSUME NEW f, NEW i \in 1..(L + 2) PROVE old(f, i) = new(f, i)
    <3>1. CASE i > L
      BY <3>1
    <3>2. CASE ~ (i > L) /\ text[i] = "CR" /\ i < L /\ text[i + 1] = "LF"
      BY <3>2 DEF Line
    <3>3. CASE ~ (i > L) /\ text[i] = "CR" /\ ~ (i < L /\ text[i + 1] = "LF")
      BY <3>3 DEF Line
    <3>4. CASE ~ (i > L) /\ text[i] # "CR"
      BY <3>4 DEF Line
    <3> QED BY <3>1, <3>2, <3>3, <3>4
  <2> HIDE DEF old, new
  <2>3. ASSUME NEW f PROVE [i \in 1..(L + 2) |-> old(f, i)] = [i \in 1..(L + 2) |-> new(f, i)]
    BY <2>2
  <2>4. (CHOOSE f : f = [i \in 1..(L + 2) |-> old(f, i)])
            = (CHOOSE f : f = [i \in 1..(L + 2) |-> new(f, i)])
    BY <2>3
  <2> QED BY <2>1, <2>4 DEF new
<1>3. \E f : Eq(f)
  <2> DEFINE \* of the k characters at the end, with and without the first of them
             step == [p \in Nat \X (C \X C) |->
                        IF p[1] \in 1..L
                        THEN <<Line(text, nl, (L + 1) - p[1], p[2][1], p[2][2]), p[2][1]>>
                        ELSE p[2]]
  <2>1. ASSUME NEW k \in Nat, NEW v \in C \X C PROVE step[<<k, v>>] \in C \X C
    <3>1. v[1] \in C /\ v[2] \in C
      OBVIOUS
    <3>2. CASE k \in 1..L
      <4>1. (L + 1) - k \in 1..Len(text)
        BY <1>1, <3>2
      <4>2. Line(text, nl, (L + 1) - k, v[1], v[2]) \in C
        BY <3>1, <4>1, LineIsText
      <4> HIDE DEF C, L
      <4>3. step[<<k, v>>] = <<Line(text, nl, (L + 1) - k, v[1], v[2]), v[1]>>
        BY <3>2
      <4> QED BY <3>1, <4>2, <4>3
    <3>3. CASE k \notin 1..L
      <4> HIDE DEF C, L
      <4> QED BY <3>3
    <3> QED BY <3>2, <3>3
  <2>2. step \in [Nat \X (C \X C) -> C \X C]
    <3>1. \A p \in Nat \X (C \X C) : step[p] \in C \X C
      <4>1. \A p \in Nat \X (C \X C) : p[1] \in Nat /\ p[2] \in C \X C /\ p = <<p[1], p[2]>>
        OBVIOUS
      <4> HIDE DEF step, C
      <4> QED BY <2>1, <4>1
    <3> QED BY <3>1
  <2>3. \A k \in 1..L, v \in C \X C :
            step[<<k, v>>] = <<Line(text, nl, (L + 1) - k, v[1], v[2]), v[1]>>
    <3> SUFFICES ASSUME NEW k \in 1..L, NEW v \in C \X C
                 PROVE  step[<<k, v>>] = <<Line(text, nl, (L + 1) - k, v[1], v[2]), v[1]>>
      OBVIOUS
    <3> HIDE DEF C, L
    <3>1. <<k, v>> \in Nat \X (C \X C)
      BY <1>1
    <3> QED BY <3>1
  <2> HIDE DEF step, C
  <2>4. PICK g : Recursive(g, C \X C, << <<>>, <<>> >>, step)
    <3>1. << <<>>, <<>> >> \in C \X C
      BY <1>1
    <3> QED BY <2>2, <3>1, PrimitiveRecursion
  <2>5. g \in [Nat -> C \X C] /\ g[0] = << <<>>, <<>> >>
    BY <2>4 DEF Recursive
  <2>6. ASSUME NEW k \in 1..L
        PROVE  g[k] = <<Line(text, nl, (L + 1) - k, g[k - 1][1], g[k - 1][2]), g[k - 1][1]>>
    <3>1. k \in Nat \ {0} /\ g[k - 1] \in C \X C
      BY <2>5
    <3> QED BY <2>3, <2>4, <3>1 DEF Recursive
  <2> DEFINE h == [i \in 1..(L + 2) |-> IF i > L THEN <<>> ELSE g[(L + 1) - i][1]]
  <2> HIDE DEF L
  <2>7. ASSUME NEW i \in 1..(L + 2)
        PROVE  h[i] = IF i > L THEN <<>> ELSE Line(text, nl, i, h[i + 1], h[i + 2])
    <3>1. CASE i > L
      BY <3>1
    <3>2. CASE ~ (i > L)
      <4> DEFINE k == (L + 1) - i
                 j == k - 1
      <4>1. k \in 1..L /\ (L + 1) - k = i /\ h[i] = g[k][1] /\ j \in Nat
        BY <1>1, <3>2
      <4>2. g[k] = <<Line(text, nl, i, g[j][1], g[j][2]), g[j][1]>>
        BY <2>6, <4>1
      <4>3. h[i + 1] = g[j][1]
        <5>1. CASE j = 0
          <6>1. i + 1 > L /\ i + 1 \in 1..(L + 2)
            BY <1>1, <5>1
          <6> QED BY <2>5, <5>1, <6>1
        <5>2. CASE j # 0
          <6>1. ~ (i + 1 > L) /\ i + 1 \in 1..(L + 2) /\ (L + 1) - (i + 1) = j
            BY <1>1, <4>1, <5>2
          <6> QED BY <6>1
        <5> QED BY <5>1, <5>2
      <4>4. h[i + 2] = g[j][2]
        <5>1. CASE j = 0
          <6>1. i + 2 > L /\ i + 2 \in 1..(L + 2)
            BY <1>1, <3>2, <5>1
          <6> QED BY <2>5, <5>1, <6>1
        <5>2. CASE j # 0
          <6> DEFINE jj == j - 1
          <6>1. j \in 1..L /\ jj \in Nat
            BY <1>1, <4>1, <5>2
          <6>2. g[j][2] = g[jj][1]
            BY <2>6, <6>1
          <6>3. CASE jj = 0
            <7>1. i + 2 > L /\ i + 2 \in 1..(L + 2)
              BY <1>1, <3>2, <6>3
            <7> QED BY <2>5, <6>2, <6>3, <7>1
          <6>4. CASE jj # 0
            <7>1. ~ (i + 2 > L) /\ i + 2 \in 1..(L + 2) /\ (L + 1) - (i + 2) = jj
              BY <1>1, <6>1, <6>4
            <7> QED BY <6>2, <7>1
          <6> QED BY <6>3, <6>4
        <5> QED BY <5>1, <5>2
      <4> HIDE DEF k, j, h
      <4> QED BY <3>2, <4>1, <4>2, <4>3, <4>4
    <3> QED BY <3>1, <3>2
  <2>8. Eq(h)
    <3>1. h = [i \in 1..(L + 2) |-> h[i]]
      OBVIOUS
    <3> DEFINE r == [i \in 1..(L + 2) |->
                       IF i > L THEN <<>> ELSE Line(text, nl, i, h[i + 1], h[i + 2])]
    <3>2. \A i \in 1..(L + 2) : h[i] = r[i]
      <4> HIDE DEF h
      <4> QED BY <2>7
    <3>3. h = r
      <4> HIDE DEF h
      <4> QED BY <3>1, <3>2
    <3> HIDE DEF h
    <3> QED BY <3>3
  <2> QED BY <2>8
<1>4. Eq(line)
  <2> HIDE DEF Eq
  <2> QED BY <1>3, Zenon
<1>5. \A i \in 1..(L + 2) : line[i] = IF i > L THEN <<>> ELSE Line(text, nl, i, line[i + 1], line[i + 2])
  <2> HIDE DEF line
  <2> QED BY <1>4, Zenon
<1> HIDE DEF line
<1> QED BY <1>2, <1>5

LEMMA ExpectedFront ==
    ASSUME NEW c \in F!Characters, NEW w \in Seq(F!Characters), NEW nl \in F!Newlines,
           w # <<>> => ~ (c = "CR" /\ w[1] = "LF")
    PROVE  F!Expected(<<c>> \o w, nl) = (IF c \in {"CR", "LF"} THEN nl ELSE <<c>>) \o F!Expected(w, nl)
<1>1. <<c>> \in Seq(F!Characters) /\ Len(<<c>>) = 1 /\ <<c>>[1] = c
  OBVIOUS
<1>2. F!Expected(<<c>> \o w, nl) = F!Expected(<<c>>, nl) \o F!Expected(w, nl)
  BY <1>1, ExpectedConcat
<1> QED BY <1>2, ExpectedOne

\* Reading from left to right does what the reference says.
LEMMA NormalizeIsExpected ==
    ASSUME NEW text \in Seq(F!Characters), NEW nl \in F!Newlines
    PROVE  F!normalize_newlines(text, nl) = F!Expected(text, nl)
<1> DEFINE L == Len(text)
           rest(i) == SubSeq(text, i, L)
<1>1. L \in Nat
  OBVIOUS
<1>2. PICK line : /\ F!normalize_newlines(text, nl) = line[1]
                  /\ \A i \in 1..(L + 2) :
                       line[i] = IF i > L THEN <<>>
                                 ELSE Line(text, nl, i, line[i + 1], line[i + 2])
  BY NormalizeUnfolds
<1> DEFINE T == {k \in Nat : k <= L + 1 => line[(L + 2) - k] = F!Expected(rest((L + 2) - k), nl)}
<1>3. ASSUME NEW i \in 1..L
      PROVE  /\ rest(i) = <<text[i]>> \o rest(i + 1)
             /\ rest(i + 1) \in Seq(F!Characters)
             /\ i < L => rest(i + 1) # <<>> /\ rest(i + 1)[1] = text[i + 1]
             /\ i = L => rest(i + 1) = <<>>
             /\ text[i] \in F!Characters
  <2>1. text[i] \in F!Characters /\ i + 1 \in 1..(L + 1)
    BY <1>1
  <2>2. rest(i + 1) \in Seq(F!Characters) /\ Len(rest(i + 1)) = L - i
    BY <1>1
  <2>3. \A j \in 1..(L - i) : rest(i + 1)[j] = text[i + j]
    BY <1>1
  <2>4. rest(i) \in Seq(F!Characters) /\ Len(rest(i)) = (L - i) + 1
    BY <1>1
  <2>5. rest(i)[1] = text[i] /\ \A j \in 1..(L - i) : rest(i)[1 + j] = text[i + j]
    BY <1>1
  <2>6. rest(i) = <<text[i]>> \o rest(i + 1)
    <3> DEFINE p == <<text[i]>>
               q == rest(i + 1)
               r == rest(i)
    <3>1. p \in Seq(F!Characters) /\ Len(p) = 1 /\ p[1] = text[i]
      BY <2>1
    <3>2. q \in Seq(F!Characters) /\ r \in Seq(F!Characters) /\ Len(r) = Len(p) + Len(q)
      BY <1>1, <2>2, <2>4, <3>1
    <3>3. \A j \in 1..Len(p) : r[j] = p[j]
      BY <2>5, <3>1
    <3>4. \A j \in 1..Len(q) : r[Len(p) + j] = q[j]
      BY <2>2, <2>3, <2>5, <3>1
    <3> HIDE DEF p, q, r
    <3>5. r = p \o q
      BY ONLY <3>1, <3>2, <3>3, <3>4, IsConcat
    <3> QED BY <3>5 DEF p, q, r
  <2>7. i < L => rest(i + 1) # <<>> /\ rest(i + 1)[1] = text[i + 1]
    <3> HIDE DEF rest
    <3> QED BY <1>1, <2>2, <2>3
  <2>8. i = L => rest(i + 1) = <<>>
    <3> HIDE DEF rest
    <3> QED BY <1>1, <2>2
  <2> HIDE DEF rest
  <2> QED BY <2>1, <2>2, <2>6, <2>7, <2>8
<1>4. ASSUME NEW k \in Nat, \A j \in 0..(k - 1) : j \in T PROVE k \in T
  <2> SUFFICES ASSUME k <= L + 1 PROVE line[(L + 2) - k] = F!Expected(rest((L + 2) - k), nl)
    OBVIOUS
  <2> DEFINE i == (L + 2) - k
  <2>1. i \in 1..(L + 2)
    BY <1>1
  <2>2. CASE i > L
    <3>1. rest(i) = <<>>
      BY <1>1, <2>1, <2>2, SubSeqEmpty
    <3>2. line[i] = <<>>
      BY <1>2, <2>1, <2>2
    <3> HIDE DEF rest, i
    <3>3. line[i] = F!Expected(rest(i), nl)
      BY <3>1, <3>2, ExpectedEmpty
    <3> QED BY <3>3 DEF i
  <2>3. CASE ~ (i > L)
    <3>1. i \in 1..L /\ k - 1 \in 0..(k - 1) /\ k - 2 \in 0..(k - 1)
      BY <1>1, <2>1, <2>3
    <3>2. line[i + 1] = F!Expected(rest(i + 1), nl)
      <4>1. k - 1 \in T /\ (L + 2) - (k - 1) = i + 1 /\ k - 1 <= L + 1
        BY <1>1, <1>4, <3>1
      <4> HIDE DEF rest, i
      <4> QED BY <4>1
    <3>3. line[i + 2] = F!Expected(rest(i + 2), nl)
      <4>1. k - 2 \in T
        <5> HIDE DEF T
        <5> QED BY <1>4, <3>1
      <4>2. (L + 2) - (k - 2) = i + 2 /\ k - 2 <= L + 1
        BY <1>1, <3>1
      <4> HIDE DEF rest, i
      <4> QED BY <4>1, <4>2
    <3>4. line[i] = Line(text, nl, i, line[i + 1], line[i + 2])
      <4> HIDE DEF i
      <4> QED BY <1>2, <2>1, <2>3
    <3> DEFINE c == text[i]
               w == rest(i + 1)
    <3>5. rest(i) = <<c>> \o w /\ w \in Seq(F!Characters) /\ c \in F!Characters
          /\ (i < L => w # <<>> /\ w[1] = text[i + 1]) /\ (i = L => w = <<>>)
      BY <1>3, <3>1
    <3> HIDE DEF i, rest
    <3>6. CASE c = "CR" /\ i < L /\ text[i + 1] = "LF"
      <4>1. i + 1 \in 1..L
        BY <1>1, <3>1, <3>6
      <4> DEFINE v == rest(i + 2)
      <4>2. w = <<"LF">> \o v /\ v \in Seq(F!Characters)
        <5>1. (i + 1) + 1 = i + 2
          BY <3>1
        <5> QED BY <1>3, <3>6, <4>1, <5>1
      <4> HIDE DEF w, v
      <4>3. rest(i) = <<"CR", "LF">> \o v
        <5>1. <<"CR">> \o (<<"LF">> \o v) = <<"CR", "LF">> \o v
          BY <4>2
        <5> QED BY <3>5, <3>6, <4>2, <5>1
      <4>4. F!Expected(<<"CR", "LF">> \o v, nl) = nl \o F!Expected(v, nl)
        <5>1. <<"CR", "LF">> \in Seq(F!Characters)
          BY DEF F!Characters, F!CR, F!LF
        <5>2. F!Expected(<<"CR", "LF">> \o v, nl) = F!Expected(<<"CR", "LF">>, nl) \o F!Expected(v, nl)
          BY <4>2, <5>1, ExpectedConcat
        <5>3. F!Expected(<<"CR", "LF">>, nl) = nl
          BY CRLFExpected
        <5> QED BY <5>2, <5>3
      <4>5. line[i] = nl \o line[i + 2]
        BY <3>4, <3>6 DEF Line, c
      <4>6. line[i] = F!Expected(rest(i), nl)
        BY <3>3, <4>3, <4>4, <4>5 DEF v
      <4> QED BY <4>6 DEF i
    <3>7. CASE ~ (c = "CR" /\ i < L /\ text[i + 1] = "LF")
      <4>1. w # <<>> => ~ (c = "CR" /\ w[1] = "LF")
        <5>1. i < L \/ i = L
          BY <3>1
        <5> QED BY <3>5, <3>7, <5>1
      <4>2. F!Expected(<<c>> \o w, nl) = (IF c \in {"CR", "LF"} THEN nl ELSE <<c>>) \o F!Expected(w, nl)
        <5> HIDE DEF c, w
        <5> QED BY <3>5, <4>1, ExpectedFront
      <4>3. line[i] = (IF c \in {"CR", "LF"} THEN nl ELSE <<c>>) \o line[i + 1]
        BY <3>4, <3>7 DEF Line
      <4>4. line[i] = F!Expected(rest(i), nl)
        <5> HIDE DEF c
        <5> QED BY <3>2, <3>5, <4>2, <4>3 DEF w
      <4> QED BY <4>4 DEF i
    <3> QED BY <3>6, <3>7
  <2> QED BY <2>2, <2>3
<1>5. \A k \in Nat : k \in T
  <2> HIDE DEF T
  <2> QED BY <1>4, StrongSetInduction
<1>6. line[1] = F!Expected(rest(1), nl)
  <2>1. L + 1 \in T /\ (L + 2) - (L + 1) = 1
    BY <1>1, <1>5
  <2> HIDE DEF rest, L
  <2> QED BY <1>1, <2>1
<1>7. rest(1) = text
  BY SubSeqFull
<1> QED BY <1>2, <1>6, <1>7

\* The front of two sequences put together.
LEMMA FrontOfConcat ==
    ASSUME NEW S, NEW a \in Seq(S), NEW b \in Seq(S)
    PROVE  SubSeq(a \o b, 1, Len(a \o b) - Len(b)) = a
<1>1. Len(a \o b) - Len(b) = Len(a) /\ Len(a) \in Nat /\ Len(b) \in Nat /\ a \o b \in Seq(S)
  OBVIOUS
<1>2. \A i \in 1..Len(a) : (a \o b)[i] = a[i]
  OBVIOUS
<1> DEFINE f == SubSeq(a \o b, 1, Len(a))
<1>3. f \in Seq(S) /\ Len(f) = Len(a) /\ \A i \in 1..Len(a) : f[i] = (a \o b)[i]
  BY <1>1
<1>4. f = a
  <2> HIDE DEF f
  <2> QED BY <1>2, <1>3, SeqEqual
<1> QED BY <1>1, <1>4

\* What waits is the end of the text.
HeldBack(t, w, d) == w = F!Waiting(t) /\ d = SubSeq(t, 1, Len(t) - Len(w))

LEMMA WaitingIsTheEnd ==
    ASSUME NEW t \in Seq(F!Characters), NEW w, NEW d, HeldBack(t, w, d)
    PROVE  /\ w \in Seq(F!Characters) /\ d \in Seq(F!Characters) /\ t = d \o w
           /\ w = <<"CR">> \/ (w = <<>> /\ d = t)
           /\ w = <<"CR">> <=> t # <<>> /\ t[Len(t)] = "CR"
<1>0. w = F!Waiting(t) /\ d = SubSeq(t, 1, Len(t) - Len(w))
  BY DEF HeldBack
<1>1. CASE t # <<>> /\ t[Len(t)] = "CR"
  <2>1. w = <<"CR">>
    BY <1>0, <1>1 DEF F!Waiting, F!Last, F!CR
  <2>2. Len(t) \in Nat \ {0} /\ Len(w) = 1 /\ w \in Seq(F!Characters) /\ w[1] = "CR"
    BY <1>1, <2>1 DEF F!Characters, F!CR
  <2>3. d \in Seq(F!Characters) /\ Len(d) = Len(t) - 1 /\ \A i \in 1..Len(d) : d[i] = t[i]
    BY <1>0, <2>2
  <2>4. Len(t) = Len(d) + Len(w) /\ \A i \in 1..Len(w) : t[Len(d) + i] = w[i]
    BY <1>1, <2>2, <2>3
  <2>5. t = d \o w
    BY ONLY t \in Seq(F!Characters), <2>2, <2>3, <2>4, IsConcat
  <2> QED BY <1>1, <2>1, <2>2, <2>3, <2>5
<1>2. CASE ~ (t # <<>> /\ t[Len(t)] = "CR")
  <2>1. w = <<>>
    BY <1>0, <1>2 DEF F!Waiting, F!Last, F!CR
  <2>2. d = t
    BY <1>0, <2>1, SubSeqFull
  <2> QED BY <1>2, <2>1, <2>2
<1> QED BY <1>1, <1>2

LEMMA NothingInBoth ==
    ASSUME NEW S, NEW a \in Seq(S), NEW b \in Seq(S), NEW c, c = a \o b, c = <<>>
    PROVE  a = <<>> /\ b = <<>>
<1>1. Len(a) \in Nat /\ Len(b) \in Nat /\ Len(a \o b) = Len(a) + Len(b)
  BY ONLY a \in Seq(S), b \in Seq(S)
<1>2. Len(a) = 0 /\ Len(b) = 0
  BY <1>1
<1> QED BY <1>2, EmptySeq

\* One chunk more: what waits then, and what has been written then.
OneMore(taken, chunk, waits, text, kept, whole, done, complete) ==
    /\ HeldBack(taken, waits, done) /\ text = waits \o chunk
    /\ HeldBack(text, kept, complete) /\ whole = taken \o chunk

LEMMA StreamChunk ==
    ASSUME NEW nl \in F!Newlines, NEW taken \in Seq(F!Characters), NEW chunk \in Seq(F!Characters),
           NEW waits, NEW text, NEW kept, NEW whole, NEW done, NEW complete,
           OneMore(taken, chunk, waits, text, kept, whole, done, complete)
    PROVE  /\ F!Waiting(whole) = kept
           /\ complete \in Seq(F!Characters)
           /\ F!Expected(SubSeq(whole, 1, Len(whole) - Len(kept)), nl)
                = F!Expected(done, nl) \o F!Expected(complete, nl)
<1> DEFINE Ch == F!Characters
<1>0. /\ HeldBack(taken, waits, done) /\ text = waits \o chunk
      /\ HeldBack(text, kept, complete) /\ whole = taken \o chunk
      /\ taken \in Seq(Ch) /\ chunk \in Seq(Ch)
  BY DEF OneMore
<1>1. /\ waits \in Seq(Ch) /\ done \in Seq(Ch) /\ taken = done \o waits
      /\ waits = <<"CR">> \/ (waits = <<>> /\ done = taken)
      /\ waits = <<"CR">> <=> taken # <<>> /\ taken[Len(taken)] = "CR"
  BY ONLY <1>0, WaitingIsTheEnd
<1>2. text \in Seq(Ch) /\ whole \in Seq(Ch)
  <2>1. /\ waits \in Seq(Ch) /\ chunk \in Seq(Ch) /\ taken \in Seq(Ch)
        /\ text = waits \o chunk /\ whole = taken \o chunk
    BY <1>0, <1>1
  <2> QED BY ONLY <2>1, ConcatProperties
<1>3. /\ kept \in Seq(Ch) /\ complete \in Seq(Ch) /\ text = complete \o kept
      /\ kept = <<"CR">> \/ (kept = <<>> /\ complete = text)
      /\ kept = <<"CR">> <=> text # <<>> /\ text[Len(text)] = "CR"
  BY ONLY <1>0, <1>2, WaitingIsTheEnd
<1> HIDE DEF Ch
<1>4. whole = done \o text
  <2>1. /\ done \in Seq(Ch) /\ waits \in Seq(Ch) /\ chunk \in Seq(Ch)
        /\ taken = done \o waits /\ whole = taken \o chunk /\ text = waits \o chunk
    BY ONLY <1>0, <1>1
  <2> QED BY ONLY <2>1, ConcatInSteps
<1>5. whole = (done \o complete) \o kept
  <2> DEFINE p == done \o complete
             q == p \o kept
  <2>1. p = done \o complete /\ q = p \o kept
    OBVIOUS
  <2> HIDE DEF p, q
  <2>2. q = done \o text
    <3>1. done \in Seq(Ch) /\ complete \in Seq(Ch) /\ kept \in Seq(Ch) /\ text = complete \o kept
      BY <1>1, <1>3
    <3>2. (done \o complete) \o kept = done \o (complete \o kept)
      BY ONLY <3>1, ConcatAssociative
    <3> QED BY ONLY <2>1, <3>1, <3>2
  <2> QED BY <1>4, <2>2 DEF p, q
<1>6. done \o complete \in Seq(Ch)
  BY ONLY <1>1, <1>3
<1>7. SubSeq(whole, 1, Len(whole) - Len(kept)) = done \o complete
  BY ONLY <1>3, <1>5, <1>6, FrontOfConcat
<1>8. F!Waiting(whole) = kept
  <2>1. CASE text = <<>>
    <3>1. waits = <<>> /\ chunk = <<>> /\ kept = <<>>
      <4>1. waits = <<>> /\ chunk = <<>>
        BY ONLY <1>0, <1>1, <2>1, NothingInBoth
      <4> QED BY ONLY <1>3, <2>1, <4>1
    <3>2. whole = taken
      BY ONLY <1>0, <3>1, ConcatEmptySeq
    <3> QED BY <1>0, <3>1, <3>2 DEF HeldBack
  <2>2. CASE text # <<>>
    <3>1. whole # <<>> /\ whole[Len(whole)] = text[Len(text)]
      <4>1. done \in Seq(Ch) /\ text \in Seq(Ch) /\ whole = done \o text
        BY ONLY <1>1, <1>2, <1>4
      <4>2. Len(done) \in Nat /\ Len(text) \in Nat \ {0}
        BY ONLY <2>2, <4>1, EmptySeq
      <4>3. Len(whole) = Len(done) + Len(text) /\ whole[Len(done) + Len(text)] = text[Len(text)]
        BY ONLY <4>1, <4>2, ConcatProperties
      <4> QED BY ONLY <4>2, <4>3, EmptySeq
    <3> QED BY <1>0, <1>3, <2>2, <3>1 DEF HeldBack, F!Waiting, F!Last, F!CR
  <2> QED BY <2>1, <2>2
<1>9. F!Expected(done \o complete, nl) = F!Expected(done, nl) \o F!Expected(complete, nl)
  <2>1. ASSUME done # <<>>, complete # <<>>, done[Len(done)] = "CR", complete[1] = "LF"
        PROVE  FALSE
    <3>1. waits = <<"CR">>
      BY <1>1, <2>1
    <3>2. text[1] = "CR"
      BY ONLY <1>0, <3>1
    <3>3. text[1] = complete[1]
      <4>1. complete \in Seq(Ch) /\ kept \in Seq(Ch) /\ text = complete \o kept /\ Len(complete) >= 1
        BY ONLY <1>3, <2>1, EmptySeq
      <4> QED BY ONLY <4>1, ConcatProperties
    <3> QED BY <2>1, <3>2, <3>3
  <2>2. /\ done \in Seq(F!Characters) /\ complete \in Seq(F!Characters) /\ nl \in F!Newlines
        /\ done # <<>> /\ complete # <<>> => ~ (done[Len(done)] = "CR" /\ complete[1] = "LF")
    BY ONLY <1>1, <1>3, <2>1, nl \in F!Newlines DEF Ch
  <2> QED BY ONLY <2>2, ExpectedConcat
<1> QED BY <1>3, <1>7, <1>8, <1>9 DEF Ch

-----------------------------------------------------------------------------
(* Files, step by step.                                                    *)

LEMMA FilesConstants ==
    /\ MaxParts \in Nat \ {0}
    /\ \A c \in TextChunks : c \in Seq(F!Characters)
    /\ \A r \in SourceRecords : r \in Seq(Int) /\ F!IsInjective(r)
BY RunnerAssumption DEF RunnerAssumption, F!FilesAssumption

\* The text of a chunk sequence.
LEMMA TakenText ==
    ASSUME NEW parts \in Seq(TextChunks)
    PROVE  /\ F!FlattenSeq(parts) = FlattenSeq(parts)
           /\ F!FlattenSeq(parts) \in Seq(F!Characters)
           /\ parts \in Seq(Seq(F!Characters))
<1>1. F!FlattenSeq(parts) = FlattenSeq(parts)
  BY DEF F!FlattenSeq, FlattenSeq
<1>2. parts \in Seq(Seq(F!Characters))
  <2>1. TextChunks \subseteq Seq(F!Characters)
    BY FilesConstants
  <2> QED BY <2>1
<1>3. FlattenSeq(parts) \in Seq(F!Characters)
  <2>1. <<>> \in Seq(F!Characters)
    OBVIOUS
  <2> QED BY <1>2, <2>1, FlattenAppend
<1> QED BY <1>1, <1>2, <1>3

LEMMA OneChunk ==
    ASSUME NEW chunk \in TextChunks PROVE F!FlattenSeq(<<chunk>>) = chunk
BY DEF F!FlattenSeq

\* A piece of a JSON file: a mark, or an object and its keys.
LEMMA MarkIsPiece ==
    ASSUME NEW m \in {"[", ",", "]", "LF"}
    PROVE  F!Mark(m) \in F!Pieces /\ F!Mark(m)[1] = m
<1>1. <<>> \in Seq(Int)
  BY EmptySeq
<1> QED BY <1>1 DEF F!Mark, F!Pieces, F!LF

LEMMA ObjectIsPiece ==
    ASSUME NEW r \in SourceRecords
    PROVE  /\ F!record_json_bytes(r) \in F!Pieces
           /\ F!record_json_bytes(r)[1] = "object"
           /\ Len(F!record_json_bytes(r)[2]) = Len(r)
           /\ F!IsInjective(F!record_json_bytes(r)[2])
<1>1. r \in Seq(Int) /\ F!IsInjective(r)
  BY FilesConstants
<1> DEFINE k == F!repaired_key_names(r)
<1>2. k \in Seq(Int) /\ Len(k) = Len(r) /\ F!IsInjective(k)
  BY <1>1, RepairedKeys
<1>3. F!record_json_bytes(r) = <<"object", k>>
  BY DEF F!record_json_bytes
<1> DEFINE o == <<"object", k>>
<1>4. o \in F!Pieces
  BY <1>2 DEF F!Pieces
<1>5. o[1] = "object" /\ o[2] = k
  OBVIOUS
<1> HIDE DEF k, o
<1> QED BY <1>2, <1>3, <1>4, <1>5 DEF o

LEMMA FrontOfAppend ==
    ASSUME NEW S, NEW s \in Seq(S), NEW e \in S PROVE F!Front(Append(s, e)) = s
<1>1. <<e>> \in Seq(S) /\ Append(s, e) = s \o <<e>> /\ Len(<<e>>) = 1
  OBVIOUS
<1>2. SubSeq(s \o <<e>>, 1, Len(s \o <<e>>) - Len(<<e>>)) = s
  BY ONLY s \in Seq(S), <1>1, FrontOfConcat
<1> QED BY ONLY <1>1, <1>2 DEF F!Front

\* A text with more behind it makes what it makes, with more behind that.
LEMMA ExpectedGrows ==
    ASSUME NEW s \in Seq(F!Characters), NEW t \in Seq(F!Characters), NEW nl \in F!Newlines
    PROVE  \E u \in Seq(F!Characters) : F!Expected(s \o t, nl) = F!Expected(s, nl) \o u
<1> DEFINE C == Seq(F!Characters)
           st == s \o t
           ps == Parts(s, nl)
           pst == Parts(st, nl)
           q == SubSeq(pst, Len(s) + 1, Len(s) + Len(t))
<1>1. st \in Seq(F!Characters) /\ Len(st) = Len(s) + Len(t) /\ Len(s) \in Nat /\ Len(t) \in Nat
      /\ \A i \in 1..Len(s) : st[i] = s[i]
  OBVIOUS
<1> HIDE DEF st
<1>2. ASSUME NEW i \in 1..Len(s) PROVE Part(st, nl, i) = Part(s, nl, i)
  <2>1. i > 1 => i - 1 \in 1..Len(s)
    BY <1>1
  <2> QED BY <1>1, <2>1 DEF Part
<1>3. ps \in Seq(C) /\ pst \in Seq(C)
  BY <1>1, ExpectedParts
<1>4. Len(ps) = Len(s) /\ Len(pst) = Len(s) + Len(t)
  BY <1>1 DEF Parts
<1>5. \A i \in 1..Len(s) : pst[i] = ps[i]
  BY <1>1, <1>2 DEF Parts
<1>6. F!Expected(st, nl) = FlattenSeq(pst) /\ F!Expected(s, nl) = FlattenSeq(ps)
  BY <1>1, ExpectedParts
<1> HIDE DEF C, ps, pst
<1>7. q \in Seq(C) /\ Len(q) = Len(t) /\ \A i \in 1..Len(t) : q[i] = pst[Len(s) + i]
  <2>1. \A i \in (Len(s) + 1)..(Len(s) + Len(t)) : pst[i] \in C
    BY ONLY <1>1, <1>3, <1>4
  <2>2. Len(q) = Len(t) /\ \A i \in 1..Len(t) : q[i] = pst[Len(s) + i]
    BY ONLY <1>1, <1>3, <1>4
  <2>3. q \in Seq(C)
    BY ONLY <1>1, <1>3, <1>4, <2>1
  <2> QED BY <2>2, <2>3
<1> HIDE DEF q
<1>8. pst = ps \o q
  <2>1. /\ Len(pst) = Len(ps) + Len(q)
        /\ \A i \in 1..Len(ps) : pst[i] = ps[i]
        /\ \A i \in 1..Len(q) : pst[Len(ps) + i] = q[i]
    BY ONLY <1>4, <1>5, <1>7
  <2> QED BY ONLY <1>3, <1>7, <2>1, IsConcat
<1>9. FlattenSeq(ps \o q) = FlattenSeq(ps) \o FlattenSeq(q)
  BY <1>3, <1>7, FlattenConcat DEF C
<1>10. FlattenSeq(q) \in Seq(F!Characters)
  <2>1. <<>> \in Seq(F!Characters)
    OBVIOUS
  <2> QED BY <1>7, <2>1, FlattenAppend DEF C
<1> QED BY <1>6, <1>8, <1>9, <1>10 DEF st

\* A sequence starts with itself, with what it was made of first, and with
\* what what it starts with starts with.
LEMMA StartsItself == ASSUME NEW S, NEW a \in Seq(S) PROVE F!Starts(a, a)
<1>1. Len(a) \in 0..Len(a)
  BY LenProperties
<1>2. SubSeq(a, 1, Len(a)) = a
  BY SubSeqFull
<1> QED BY <1>1, <1>2 DEF F!Starts

LEMMA StartsConcat ==
    ASSUME NEW S, NEW a \in Seq(S), NEW b \in Seq(S) PROVE F!Starts(a, a \o b)
<1>1. Len(a) \in Nat /\ Len(b) \in Nat /\ Len(a \o b) = Len(a) + Len(b)
  OBVIOUS
<1>2. SubSeq(a \o b, 1, Len(a \o b) - Len(b)) = a
  BY FrontOfConcat
<1>3. Len(a \o b) - Len(b) = Len(a) /\ Len(a) \in 0..Len(a \o b)
  BY <1>1
<1> QED BY <1>2, <1>3 DEF F!Starts

LEMMA StartsBefore ==
    ASSUME NEW S, NEW w \in Seq(S), NEW a, F!Starts(a, w), NEW n \in 0..Len(a)
    PROVE  F!Starts(SubSeq(a, 1, n), w)
<1>1. PICK m \in 0..Len(w) : a = SubSeq(w, 1, m)
  BY DEF F!Starts
<1>2. Len(w) \in Nat
  OBVIOUS
<1>3. a \in Seq(S) /\ Len(a) = m /\ \A i \in 1..m : a[i] = w[i]
  BY <1>1, <1>2
<1>4. n \in 0..Len(w) /\ n <= m
  BY <1>1, <1>2, <1>3
<1> DEFINE p == SubSeq(a, 1, n)
           q == SubSeq(w, 1, n)
<1>5. p \in Seq(S) /\ Len(p) = n /\ \A i \in 1..n : p[i] = a[i]
  BY ONLY <1>3, <1>4
<1>6. q \in Seq(S) /\ Len(q) = n /\ \A i \in 1..n : q[i] = w[i]
  BY ONLY <1>2, <1>4, w \in Seq(S)
<1> HIDE DEF p, q
<1>7. \A i \in 1..n : p[i] = q[i]
  BY ONLY <1>3, <1>4, <1>5, <1>6
<1>8. p = q
  BY ONLY <1>5, <1>6, <1>7, SeqEqual
<1> QED BY <1>4, <1>8 DEF F!Starts, p, q

Bytes == F!Characters \cup {"BOM"}

LEMMA BomIsText == ASSUME NEW b PROVE F!BOM_BYTES(b) \in Seq(Bytes)
<1>1. <<"BOM">> \in Seq(Bytes) /\ <<>> \in Seq(Bytes)
  BY DEF Bytes
<1> QED BY <1>1 DEF F!BOM_BYTES

\* What a text is in a file.
InFile(text, b, nl) == F!BOM_BYTES(b) \o F!Expected(text, nl)

LEMMA InFileIsText ==
    ASSUME NEW s \in Seq(F!Characters), NEW nl \in F!Newlines, NEW b
    PROVE  InFile(s, b, nl) \in Seq(Bytes) /\ F!Expected(s, nl) \in Seq(Bytes)
<1>1. F!Characters \subseteq Bytes
  BY DEF Bytes
<1>2. F!Expected(s, nl) \in Seq(F!Characters)
  BY ExpectedParts
<1> DEFINE e == F!Expected(s, nl)
           p == F!BOM_BYTES(b)
<1>3. p \in Seq(Bytes)
  BY BomIsText
<1> HIDE DEF e, p
<1>4. e \in Seq(Bytes)
  BY <1>1, <1>2 DEF e
<1>5. p \o e \in Seq(Bytes)
  BY ONLY <1>3, <1>4
<1> QED BY <1>4, <1>5 DEF InFile, e, p

\* The file of a text starts with that of any text it starts with.
LEMMA InFileStarts ==
    ASSUME NEW s \in Seq(F!Characters), NEW t \in Seq(F!Characters), NEW nl \in F!Newlines, NEW b
    PROVE  F!Starts(InFile(s, b, nl), InFile(s \o t, b, nl))
<1>1. PICK u \in Seq(F!Characters) : F!Expected(s \o t, nl) = F!Expected(s, nl) \o u
  BY ExpectedGrows
<1> DEFINE p == F!BOM_BYTES(b)
           e == F!Expected(s, nl)
<1>2. p \in Seq(Bytes) /\ e \in Seq(Bytes)
  BY BomIsText, InFileIsText
<1>3. u \in Seq(Bytes)
  <2>1. F!Characters \subseteq Bytes
    BY DEF Bytes
  <2> QED BY <2>1
<1>4. InFile(s, b, nl) = p \o e /\ InFile(s \o t, b, nl) = p \o (e \o u)
  BY <1>1 DEF InFile
<1> HIDE DEF p, e
<1>5. (p \o e) \o u = p \o (e \o u)
  BY ONLY <1>2, <1>3, ConcatAssociative
<1>6. p \o e \in Seq(Bytes)
  BY ONLY <1>2
<1>7. F!Starts(p \o e, (p \o e) \o u)
  BY ONLY <1>3, <1>6, StartsConcat
<1> QED BY <1>4, <1>5, <1>7

\* A text without the CR that waits is where the text starts.
LEMMA SettledStarts ==
    ASSUME NEW t \in Seq(F!Characters)
    PROVE  /\ F!Settled(t) \in Seq(F!Characters) /\ F!Waiting(t) \in Seq(F!Characters)
           /\ t = F!Settled(t) \o F!Waiting(t)
<1>1. HeldBack(t, F!Waiting(t), F!Settled(t))
  BY DEF HeldBack, F!Settled
<1> QED BY <1>1, WaitingIsTheEnd

\* Closing a file, and writing to it, leave what DiskInv says.
LEMMA FilesClose ==
    ASSUME NEW r, F!Close(r), x10 = FALSE
    PROVE  x1' = "done" /\ x8' \in {r, "io"} /\ x10' \in BOOLEAN /\ F!DiskInv'
<1>1. CASE F!End(r) /\ x9' = x7' /\ UNCHANGED x10
  BY <1>1 DEF F!End, F!DiskInv
<1>2. CASE F!End("io") /\ F!KeepsABeginning(x7')
  BY <1>2 DEF F!End, F!KeepsABeginning, F!DiskInv
<1> QED BY <1>1, <1>2 DEF F!Close

LEMMA FilesWrite ==
    ASSUME NEW d, F!Write(d), x1 = "write", x8 = "none", x10 = FALSE
    PROVE  /\ x7' = x7 \o d /\ x10' \in BOOLEAN /\ F!DiskInv'
           /\ \/ x1' = "write" /\ x8' = "none" /\ x10' = FALSE
              \/ x1' = "done" /\ x8' = "io"
<1>1. CASE UNCHANGED <<x1, x8, F!disk>>
  BY <1>1 DEF F!disk, F!DiskInv, F!Write
<1>2. CASE F!End("io") /\ F!KeepsABeginning(x7')
  BY <1>2 DEF F!End, F!KeepsABeginning, F!DiskInv, F!Write
<1> QED BY <1>1, <1>2 DEF F!Write

\* A call that writes.
LEMMA FilesWriting ==
    ASSUME F!FilesInv, x1 = "write"
    PROVE  /\ x2 \in {"stream", "jsonl", "json"} /\ x8 = "none" /\ x10 = FALSE
           /\ x3 \in F!Newlines /\ x4 \in BOOLEAN /\ x6 \in {<<>>, <<"CR">>}
           /\ x2 = "stream" =>
                /\ x5 \in Seq(TextChunks) /\ x6 = F!Waiting(F!FlattenSeq(x5))
                /\ x7 = InFile(F!Settled(F!FlattenSeq(x5)), x4, x3)
           /\ x2 \in {"jsonl", "json"} => x5 \in Seq(SourceRecords) /\ x6 = <<>>
BY DEF F!FilesInv, F!TypeOK, F!CallInv, F!StreamInv, InFile, F!CR

LEMMA FilesInit == F!Init => F!FilesInv
<1> SUFFICES ASSUME F!Init PROVE F!FilesInv
  OBVIOUS
<1>1. F!TypeOK
  <2>1. Len(<<>>) = 0 /\ MaxParts \in Nat \ {0}
    BY FilesConstants
  <2>2. Len(x5) <= MaxParts
    BY <2>1 DEF F!Init
  <2>3. x3 \in F!Newlines
    BY DEF F!Init, F!Newlines
  <2> QED BY <2>2, <2>3 DEF F!Init, F!TypeOK, F!CR
<1> QED
  BY <1>1 DEF F!Init, F!FilesInv, F!CallInv, F!DiskInv, F!StreamInv, F!TextInv, F!Opened,
              F!RecordsInv, F!LengthInv, F!RefusedTextKeepsTheFile

\* Text at once: refused before the file is touched, or all of it written.
LEMMA FilesWriteText ==
    ASSUME F!FilesInv, NEW c \in TextChunks, NEW nl \in F!Newlines, NEW b \in BOOLEAN,
           F!write_text(c, nl, b)
    PROVE  F!FilesInv'
<1>0. /\ x1 = "idle" /\ x7 = <<>> /\ x8 = "none" /\ x9 = F!Old /\ x10 = FALSE
      /\ x5' = <<c>> /\ x2' = "text" /\ x3' = nl /\ x4' = b /\ x6' = <<>>
  BY DEF F!FilesInv, F!CallInv, F!write_text
<1>1. /\ x1' = "done" /\ x10' \in BOOLEAN /\ F!DiskInv'
      /\ \/ x8' \in {"encode", "io"} /\ x9' = F!Old
         \/ x8' \in {"ok", "io"} /\ x7' = F!BOM_BYTES(b) \o F!normalize_newlines(c, nl)
  <2>1. CASE (F!End("encode") \/ F!End("io")) /\ UNCHANGED <<x7, F!disk>>
    BY <1>0, <2>1 DEF F!End, F!disk, F!DiskInv
  <2>2. CASE x7' = F!BOM_BYTES(b) \o F!normalize_newlines(c, nl) /\ F!Close("ok")
    BY <1>0, <2>2, FilesClose
  <2> QED BY <2>1, <2>2 DEF F!write_text
<1>2. F!TypeOK'
  BY <1>0, <1>1, FilesConstants DEF F!TypeOK
<1>3. F!CallInv'
  BY <1>0, <1>1 DEF F!CallInv
<1>4. F!StreamInv' /\ F!RecordsInv' /\ F!LengthInv'
  BY <1>0 DEF F!StreamInv, F!RecordsInv, F!LengthInv
<1>5. F!TextInv'
  <2> DEFINE w == InFile(c, b, nl)
  <2> SUFFICES ASSUME F!Opened'
               PROVE  F!Starts(x7', w) /\ (x8' = "ok" => x7' = w) /\ x8' \notin {"source", "encode"}
    BY <1>0, OneChunk DEF F!TextInv, InFile
  <2>1. x8' \in {"ok", "io"} /\ x7' = F!BOM_BYTES(b) \o F!normalize_newlines(c, nl)
    BY <1>1 DEF F!Opened
  <2>2. c \in Seq(F!Characters)
    BY FilesConstants
  <2>3. x7' = w
    BY <2>1, <2>2, NormalizeIsExpected DEF InFile
  <2>4. w \in Seq(Bytes)
    BY <2>2, InFileIsText
  <2> HIDE DEF w
  <2> QED BY <2>1, <2>3, <2>4, StartsItself
<1>6. F!RefusedTextKeepsTheFile'
  BY <1>0, <1>1 DEF F!RefusedTextKeepsTheFile
<1> QED BY <1>1, <1>2, <1>3, <1>4, <1>5, <1>6 DEF F!FilesInv

\* Opening a file empties it, or fails and leaves it.
LEMMA FilesOpen ==
    ASSUME F!FilesInv, NEW o \in {"stream", "jsonl", "json"}, NEW nl \in F!Newlines, NEW b \in BOOLEAN,
           F!Open(o, nl, b)
    PROVE  F!FilesInv'
<1>0. /\ x5' = <<>> /\ x6' = <<>> /\ x2' = o /\ x3' = nl /\ x4' = b /\ x10' = FALSE
      /\ \/ /\ x1' = "write" /\ x8' = "none"
            /\ x7' = CASE o = "stream" -> F!BOM_BYTES(b) [] o = "json" -> <<F!Mark("[")>> [] OTHER -> <<>>
         \/ x1' = "done" /\ x8' = "io" /\ x7' = <<>> /\ x9' = F!Old
  BY DEF F!FilesInv, F!CallInv, F!Open, F!End, F!disk
<1>1. F!TypeOK'
  <2>1. Len(x5') <= MaxParts
    <3>1. Len(<<>>) = 0
      OBVIOUS
    <3> QED BY <1>0, <3>1, FilesConstants
  <2>2. x1' \in {"write", "done"} /\ x8' \in {"none", "io"}
    BY <1>0
  <2> QED BY <1>0, <2>1, <2>2 DEF F!TypeOK
<1>2. F!CallInv' /\ F!DiskInv' /\ F!TextInv' /\ F!RefusedTextKeepsTheFile'
  BY <1>0 DEF F!CallInv, F!DiskInv, F!TextInv, F!Opened, F!RefusedTextKeepsTheFile
<1>3. F!StreamInv'
  <2> SUFFICES ASSUME x1' = "write", o = "stream"
               PROVE  /\ <<>> = F!Waiting(F!FlattenSeq(<<>>))
                      /\ x7' = InFile(F!Settled(F!FlattenSeq(<<>>)), b, nl)
    BY <1>0 DEF F!StreamInv, InFile
  <2>1. F!FlattenSeq(<<>>) = <<>> /\ F!Waiting(<<>>) = <<>>
    BY DEF F!FlattenSeq, F!Waiting
  <2>2. F!Settled(<<>>) = <<>>
    <3>1. SubSeq(<<>>, 1, 0) = <<>> /\ Len(<<>>) = 0 /\ 0 - 0 = 0
      OBVIOUS
    <3> QED BY <2>1, <3>1 DEF F!Settled
  <2>3. F!BOM_BYTES(b) \o <<>> = F!BOM_BYTES(b)
    <3>1. F!BOM_BYTES(b) \in Seq(Bytes)
      BY BomIsText
    <3> QED BY <3>1
  <2>4. x7' = F!BOM_BYTES(b) /\ F!Expected(<<>>, nl) = <<>>
    BY <1>0, ExpectedEmpty
  <2> QED BY <2>1, <2>2, <2>3, <2>4, Zenon DEF InFile
<1>4. F!RecordsInv' /\ F!LengthInv'
  <2>0. ASSUME x7' = <<>>, x2' = "json" => x8' = "io" PROVE F!RecordsInv' /\ F!LengthInv'
    <3>1. Len(<<>>) = 0 /\ <<>> \in Seq(F!Pieces) /\ 1..0 = {}
      OBVIOUS
    <3>2. x8' \in {"none", "io"}
      BY <1>0
    <3>3. F!RecordsInv'
      BY <1>0, <2>0, <3>1 DEF F!RecordsInv
    <3>4. F!LengthInv'
      BY <1>0, <2>0, <3>1, <3>2 DEF F!LengthInv, F!Taken
    <3> QED BY <3>3, <3>4
  <2>1. CASE x1' = "done"
    BY <1>0, <2>0, <2>1
  <2>2. CASE x1' = "write" /\ o = "json"
    <3>1. x7' = <<F!Mark("[")>> /\ x8' = "none"
      BY <1>0, <2>2
    <3>2. F!Mark("[") \in F!Pieces
      BY MarkIsPiece
    <3>3. x7' \in Seq(F!Pieces) /\ Len(x7') = 1 /\ x7'[1] = F!Mark("[")
      BY ONLY <3>1, <3>2
    <3>4. F!Marks(1)' = "["
      BY <1>0, <2>2 DEF F!Marks
    <3>5. Len(<<>>) = 0 /\ 1..0 = {} /\ \A j \in 1..1 : j = 1
      OBVIOUS
    <3>6. F!RecordsInv'
      BY ONLY <1>0, <3>3, <3>4, <3>5 DEF F!RecordsInv
    <3>7. F!LengthInv'
      BY ONLY <1>0, <2>2, <3>1, <3>3, <3>5 DEF F!LengthInv, F!Taken
    <3> QED BY <3>6, <3>7
  <2>3. CASE x1' = "write" /\ o = "jsonl"
    <3>1. x7' = <<>>
      BY <1>0, <2>3
    <3> QED BY <1>0, <2>0, <2>3, <3>1
  <2>4. CASE o = "stream"
    BY <1>0, <2>4 DEF F!RecordsInv, F!LengthInv
  <2> QED BY <1>0, <2>1, <2>2, <2>3, <2>4
<1> QED BY <1>1, <1>2, <1>3, <1>4 DEF F!FilesInv

\* A chunk of a stream is written but for a CR at its end.
LEMMA FilesWriteChunk ==
    ASSUME F!FilesInv, NEW chunk \in TextChunks, F!WriteChunk(chunk)
    PROVE  F!FilesInv'
<1> DEFINE taken == F!FlattenSeq(x5)
           whole == F!FlattenSeq(x5')
           text == x6 \o chunk
           kept == F!Waiting(text)
           done == F!Settled(taken)
           complete == SubSeq(text, 1, Len(text) - Len(kept))
           add == F!normalize_newlines(complete, x3)
<1>1. /\ x1 = "write" /\ x2 = "stream" /\ Len(x5) < MaxParts /\ x8 = "none" /\ x10 = FALSE
      /\ x5' = Append(x5, chunk) /\ x2' = x2 /\ x3' = x3 /\ x4' = x4 /\ x6' = kept
      /\ x5 \in Seq(TextChunks) /\ x3 \in F!Newlines /\ x4 \in BOOLEAN
      /\ x6 = F!Waiting(taken) /\ x7 = InFile(done, x4, x3)
  BY FilesWriting DEF F!WriteChunk
<1>2. /\ x10' \in BOOLEAN /\ F!DiskInv'
      /\ \/ x7' = x7 \o add /\ x1' = "write" /\ x8' = "none" /\ x10' = FALSE
         \/ x7' = x7 \o add /\ x1' = "done" /\ x8' = "io"
         \/ x7' = x7 /\ x1' = "done" /\ x8' \in {"encode", "io"}
  <2>1. CASE F!Write(add)
    BY <1>1, <2>1, FilesWrite
  <2>2. CASE UNCHANGED x7 /\ F!Close("encode")
    BY <1>1, <2>2, FilesClose
  <2> QED BY <2>1, <2>2 DEF F!WriteChunk
<1>3. chunk \in Seq(F!Characters) /\ taken \in Seq(F!Characters) /\ x5 \in Seq(Seq(F!Characters))
  BY <1>1, FilesConstants, TakenText
<1>4. x5' \in Seq(TextChunks) /\ whole = taken \o chunk /\ Len(x5') <= MaxParts /\ F!Front(x5') = x5
  <2>1. x5' \in Seq(TextChunks) /\ Len(x5') = Len(x5) + 1
    BY <1>1
  <2>2. FlattenSeq(Append(x5, chunk)) = FlattenSeq(x5) \o chunk
    BY <1>3, FlattenAppend
  <2>3. F!FlattenSeq(x5') = FlattenSeq(x5') /\ F!FlattenSeq(x5) = FlattenSeq(x5)
    BY <1>1, <2>1, TakenText
  <2>4. Len(x5') <= MaxParts
    BY <1>1, <2>1, FilesConstants
  <2>5. F!Front(x5') = x5
    BY <1>1, FrontOfAppend
  <2> QED BY <1>1, <2>1, <2>2, <2>3, <2>4, <2>5
<1>5. /\ F!Waiting(whole) = kept
      /\ complete \in Seq(F!Characters)
      /\ F!Expected(F!Settled(whole), x3) = F!Expected(done, x3) \o F!Expected(complete, x3)
  <2>1. /\ x3 \in F!Newlines /\ taken \in Seq(F!Characters) /\ chunk \in Seq(F!Characters)
        /\ OneMore(taken, chunk, x6, text, kept, whole, done, complete)
    <3> HIDE DEF taken, whole
    <3> QED BY <1>1, <1>3, <1>4 DEF OneMore, HeldBack, F!Settled
  <2> HIDE DEF taken, whole, text, kept, done, complete, add
  <2>2. /\ F!Waiting(whole) = kept /\ complete \in Seq(F!Characters)
        /\ F!Expected(SubSeq(whole, 1, Len(whole) - Len(kept)), x3)
             = F!Expected(done, x3) \o F!Expected(complete, x3)
    BY ONLY <2>1, StreamChunk
  <2> QED BY ONLY <2>2 DEF F!Settled
<1>6. done \in Seq(F!Characters) /\ taken = done \o x6 /\ x6 \in Seq(F!Characters)
  BY <1>1, <1>3, SettledStarts
<1>7. kept \in {<<>>, <<"CR">>}
  BY DEF F!Waiting, F!CR
<1>8. add = F!Expected(complete, x3)
  BY <1>1, <1>5, NormalizeIsExpected
<1>9. whole \in Seq(F!Characters)
  BY <1>4, TakenText
<1> HIDE DEF taken, whole, text, kept, done, complete, add
\* What is in the file with the chunk.
<1>10. ASSUME x7' = x7 \o add PROVE x7' = InFile(F!Settled(whole), x4, x3)
  <2> DEFINE p == F!BOM_BYTES(x4)
             e == F!Expected(done, x3)
             g == F!Expected(complete, x3)
  <2>1. p \in Seq(Bytes) /\ e \in Seq(Bytes) /\ g \in Seq(Bytes)
    BY <1>1, <1>5, <1>6, BomIsText, InFileIsText
  <2>2. x7 = p \o e /\ F!Expected(F!Settled(whole), x3) = e \o g
    BY <1>1, <1>5 DEF InFile
  <2> HIDE DEF e, g
  <2>3. x7' = (p \o e) \o g
    BY <1>8, <1>10, <2>2 DEF g
  <2> HIDE DEF p
  <2>4. x7' = p \o (e \o g)
    BY ONLY <2>1, <2>3, ConcatAssociative
  <2> QED BY <2>2, <2>4 DEF p, InFile
<1>11. F!TypeOK'
  BY <1>1, <1>2, <1>4, <1>7 DEF F!TypeOK, F!FilesInv, F!CR
<1>12. F!CallInv'
  <2>1. x5' # <<>>
    BY <1>1
  <2> QED BY <1>1, <1>2, <1>4, <2>1 DEF F!CallInv
<1>13. F!StreamInv'
  BY <1>1, <1>2, <1>5, <1>10 DEF F!StreamInv, InFile, whole
<1>14. F!TextInv'
  <2> DEFINE w == InFile(whole, x4, x3)
  <2>1. F!Starts(InFile(F!Settled(whole), x4, x3), w)
    BY <1>1, <1>9, SettledStarts, InFileStarts
  <2>2. F!Starts(InFile(done, x4, x3), w)
    <3>1. whole = done \o (x6 \o chunk) /\ x6 \o chunk \in Seq(F!Characters)
      BY <1>3, <1>4, <1>6, ConcatAssociative
    <3> QED BY <1>1, <1>6, <3>1, InFileStarts
  <2>3. F!Starts(x7', w)
    BY <1>1, <1>2, <1>10, <2>1, <2>2
  <2>4. x8' = "encode" => F!Settled(F!FlattenSeq(F!Sound')) = done /\ x7' = x7
    BY <1>2, <1>4 DEF F!Sound, done, taken
  <2>5. x8' \notin {"ok", "source"}
    BY <1>2
  <2> QED BY <1>1, <2>3, <2>4, <2>5 DEF F!TextInv, InFile, whole
<1>15. F!RecordsInv' /\ F!LengthInv' /\ F!RefusedTextKeepsTheFile'
  BY <1>1 DEF F!RecordsInv, F!LengthInv, F!RefusedTextKeepsTheFile
<1> QED BY <1>2, <1>11, <1>12, <1>13, <1>14, <1>15 DEF F!FilesInv

\* What a call that writes records has written.
LEMMA RecordsSoFar ==
    ASSUME F!FilesInv, x1 = "write", x2 \in {"jsonl", "json"}
    PROVE  /\ x7 \in Seq(F!Pieces) /\ Len(x7) \in Nat /\ Len(x5) \in Nat
           /\ x5 = <<>> <=> Len(x5) = 0
           /\ Len(x7) = 2 * Len(x5) + (IF x2 = "json" /\ Len(x5) = 0 THEN 1 ELSE 0)
           /\ \A i \in 1..Len(x5) :
                  F!Place(i) \in 1..Len(x7) /\ x7[F!Place(i)] = F!record_json_bytes(x5[i])
           /\ \A j \in 1..Len(x7) :
                  (\A i \in 1..Len(x5) : j # F!Place(i)) => x7[j] = F!Mark(F!Marks(j))
<1> DEFINE n == Len(x5)
           L == Len(x7)
<1>1. F!RecordsInv /\ F!LengthInv /\ x8 = "none" /\ x5 \in Seq(SourceRecords)
  BY FilesWriting DEF F!FilesInv
<1>2. n \in Nat /\ (x5 = <<>> <=> n = 0)
  BY ONLY <1>1, EmptySeq
<1>3. /\ x7 \in Seq(F!Pieces)
      /\ \A i \in 1..n : F!Place(i) <= L => x7[F!Place(i)] = F!record_json_bytes(x5[i])
      /\ \A j \in 1..L : (\A i \in 1..n : j # F!Place(i)) => x7[j] = F!Mark(F!Marks(j))
  BY ONLY <1>1, x2 \in {"jsonl", "json"} DEF F!RecordsInv
<1>4. L \in Nat
  BY ONLY <1>3
<1>5. L = F!Taken
  BY ONLY <1>1, x2 \in {"jsonl", "json"} DEF F!LengthInv
<1> HIDE DEF L
<1>6. L = 2 * n + (IF x2 = "json" /\ n = 0 THEN 1 ELSE 0)
  BY ONLY <1>2, <1>5 DEF F!Taken
<1> HIDE DEF n
<1>7. ASSUME NEW i \in 1..n PROVE F!Place(i) \in 1..L
  <2>1. i \in Nat /\ 1 <= i /\ i <= n
    BY ONLY <1>2, i \in 1..n
  <2>2. CASE x2 = "json"
    BY ONLY <1>2, <1>6, <2>1, <2>2 DEF F!Place
  <2>3. CASE x2 # "json"
    BY ONLY <1>2, <1>6, <2>1, <2>3 DEF F!Place
  <2> QED BY <2>2, <2>3
<1>8. ASSUME NEW i \in 1..n PROVE F!Place(i) <= L
  BY ONLY <1>4, <1>7, i \in 1..n
<1> QED BY ONLY <1>2, <1>3, <1>4, <1>6, <1>7, <1>8 DEF n, L

\* What is in a sequence with one or two elements more.
LEMMA OneElementMore ==
    ASSUME NEW S, NEW f \in Seq(S), NEW a \in S
    PROVE  /\ f \o <<>> = f
           /\ f \o <<a>> \in Seq(S) /\ Len(f \o <<a>>) = Len(f) + 1
           /\ \A j \in 1..Len(f) : (f \o <<a>>)[j] = f[j]
           /\ (f \o <<a>>)[Len(f) + 1] = a
OBVIOUS

TwoMore(f, a, b, g) == g = f \o <<a, b>>

LEMMA TwoElements ==
    ASSUME NEW S, NEW a \in S, NEW b \in S
    PROVE  (<<>> \o <<a>>) \o <<b>> = <<a, b>> /\ (<<a>> \o <<b>>) \o <<>> = <<a, b>>
<1>1. <<a>> \in Seq(S) /\ <<b>> \in Seq(S) /\ <<a, b>> \in Seq(S) /\ <<>> \in Seq(S)
  OBVIOUS
<1>2. <<>> \o <<a>> = <<a>> /\ <<a, b>> \o <<>> = <<a, b>>
  BY ONLY <1>1, ConcatEmptySeq
<1>3. <<a>> \o <<b>> = <<a, b>>
  <2>1. /\ Len(<<a, b>>) = Len(<<a>>) + Len(<<b>>)
        /\ \A i \in 1..Len(<<a>>) : <<a, b>>[i] = <<a>>[i]
        /\ \A i \in 1..Len(<<b>>) : <<a, b>>[Len(<<a>>) + i] = <<b>>[i]
    <3>1. Len(<<a>>) = 1 /\ Len(<<b>>) = 1 /\ Len(<<a, b>>) = 2
      OBVIOUS
    <3>2. <<a, b>>[1] = a /\ <<a, b>>[2] = b /\ <<a>>[1] = a /\ <<b>>[1] = b
      OBVIOUS
    <3>3. 1..1 = {1} /\ 1 + 1 = 2
      OBVIOUS
    <3>4. Len(<<a, b>>) = Len(<<a>>) + Len(<<b>>)
      BY ONLY <3>1
    <3>5. 1..Len(<<a>>) = {1} /\ 1..Len(<<b>>) = {1} /\ Len(<<a>>) + 1 = 2
      BY ONLY <3>1, <3>3
    <3> QED BY ONLY <3>2, <3>4, <3>5, Zenon
  <2> QED BY ONLY <1>1, <2>1, IsConcat
<1> QED BY ONLY <1>2, <1>3

LEMMA TwoElementsMore ==
    ASSUME NEW S, NEW f \in Seq(S), NEW a \in S, NEW b \in S, NEW g, TwoMore(f, a, b, g)
    PROVE  /\ g \in Seq(S) /\ Len(g) = Len(f) + 2
           /\ \A j \in 1..Len(f) : g[j] = f[j]
           /\ g[Len(f) + 1] = a /\ g[Len(f) + 2] = b
<1>0. g = f \o <<a, b>>
  BY DEF TwoMore
<1>1. <<a, b>> \in Seq(S) /\ Len(<<a, b>>) = 2 /\ Len(f) \in Nat
  OBVIOUS
<1>2. g \in Seq(S) /\ Len(g) = Len(f) + 2
  BY ONLY <1>0, <1>1, f \in Seq(S)
<1>3. \A j \in 1..Len(f) : g[j] = f[j]
  BY ONLY <1>0, <1>1, f \in Seq(S), ConcatProperties
<1>4. g[Len(f) + 1] = <<a, b>>[1] /\ g[Len(f) + 2] = <<a, b>>[2]
  <2>1. \A k \in 1..2 : g[Len(f) + k] = <<a, b>>[k]
    BY ONLY <1>0, <1>1, f \in Seq(S)
  <2> QED BY ONLY <2>1
<1> QED BY <1>2, <1>3, <1>4

\* A mark stays where it is when there is a record more.
LEMMA MarksStay ==
    ASSUME F!FilesInv, x1 = "write", x2 \in {"jsonl", "json"}, x2' = x2,
           Len(x5') = Len(x5) + 1, NEW j \in 1..Len(x7)
    PROVE  F!Marks(j)' = F!Marks(j)
<1>1. /\ Len(x5) \in Nat /\ Len(x7) \in Nat
      /\ Len(x7) = 2 * Len(x5) + (IF x2 = "json" /\ Len(x5) = 0 THEN 1 ELSE 0)
  BY RecordsSoFar
<1>2. j \in Nat /\ (j <= 2 * Len(x5) \/ j = 1)
  BY ONLY <1>1, j \in 1..Len(x7)
<1>3. ~ (j > 2 * Len(x5')) /\ (j # 1 => ~ (j > 2 * Len(x5)))
  BY ONLY <1>1, <1>2, Len(x5') = Len(x5) + 1
<1> QED BY ONLY <1>3, x2' = x2, Zenon DEF F!Marks

\* A record behind those that are there, and what separates it.
LEMMA FilesWriteRecord ==
    ASSUME F!FilesInv, NEW r \in SourceRecords, F!WriteRecord(r)
    PROVE  F!FilesInv'
<1> DEFINE n == Len(x5)
           L == Len(x7)
           o == F!record_json_bytes(r)
           comma == F!Mark(",")
           lf == F!Mark("LF")
           sep == IF x2 = "json" /\ x5 # <<>> THEN <<F!Mark(",")>> ELSE <<>>
           end == IF x2 = "jsonl" THEN <<F!Mark("LF")>> ELSE <<>>
<1>1. /\ x1 = "write" /\ x2 \in {"jsonl", "json"} /\ n < MaxParts
      /\ x5' = Append(x5, r) /\ F!Write((sep \o <<o>>) \o end)
      /\ x2' = x2 /\ x3' = x3 /\ x4' = x4 /\ x6' = x6
  BY DEF F!WriteRecord, F!Separator, F!LF
<1>2. x8 = "none" /\ x10 = FALSE /\ x5 \in Seq(SourceRecords) /\ x6 = <<>>
  BY <1>1, FilesWriting
<1>3. /\ x7' = x7 \o ((sep \o <<o>>) \o end) /\ x10' \in BOOLEAN /\ F!DiskInv'
      /\ \/ x1' = "write" /\ x8' = "none" /\ x10' = FALSE
         \/ x1' = "done" /\ x8' = "io"
  <2> HIDE DEF sep, o, end
  <2> QED BY <1>1, <1>2, FilesWrite
<1>4. /\ x7 \in Seq(F!Pieces) /\ L \in Nat /\ n \in Nat /\ (x5 = <<>> <=> n = 0)
      /\ L = 2 * n + (IF x2 = "json" /\ n = 0 THEN 1 ELSE 0)
      /\ \A i \in 1..n : F!Place(i) \in 1..L /\ x7[F!Place(i)] = F!record_json_bytes(x5[i])
      /\ \A j \in 1..L : (\A i \in 1..n : j # F!Place(i)) => x7[j] = F!Mark(F!Marks(j))
  BY <1>1, RecordsSoFar
<1>5. /\ o \in F!Pieces /\ comma \in F!Pieces /\ lf \in F!Pieces
  BY MarkIsPiece, ObjectIsPiece
<1>6. /\ x5' \in Seq(SourceRecords) /\ Len(x5') = n + 1 /\ x5'[n + 1] = r /\ x5' # <<>>
      /\ \A i \in 1..n : x5'[i] = x5[i]
  <2>1. x5 \in Seq(SourceRecords) /\ x5' = Append(x5, r)
    BY ONLY <1>1, <1>2
  <2> QED BY ONLY <2>1, r \in SourceRecords DEF n
<1>7. ASSUME NEW j \in 1..L PROVE F!Marks(j)' = F!Marks(j)
  BY <1>1, <1>6, MarksStay
<1>8. ASSUME NEW i PROVE F!Place(i)' = F!Place(i)
  BY <1>1 DEF F!Place
<1> HIDE DEF n, L, o, comma, lf
\* What the file is then, wherever the record went.
<1>9. /\ x7' \in Seq(F!Pieces) /\ Len(x7') = 2 * n + 2
      /\ L < F!Place(n + 1) /\ F!Place(n + 1) <= 2 * n + 2
      /\ \A j \in 1..L : x7'[j] = x7[j]
      /\ x7'[F!Place(n + 1)] = o
      /\ \A j \in (L + 1)..(2 * n + 2) :
             j # F!Place(n + 1) => x7'[j] = (IF x2 = "jsonl" THEN lf ELSE comma)
                                   /\ (x2 = "json" => j = 2 * n + 1 /\ n > 0)
  <2>1. CASE x2 = "jsonl"
    <3>1. x7' = x7 \o <<o, lf>>
      <4>1. (<<>> \o <<o>>) \o <<lf>> = <<o, lf>>
        BY ONLY <1>5, TwoElements
      <4> QED BY <1>3, <2>1, <4>1 DEF lf
    <3>2. L = 2 * n /\ F!Place(n + 1) = L + 1 /\ 2 * n + 2 = L + 2
      BY <1>4, <2>1 DEF F!Place
    <3>3. /\ x7' \in Seq(F!Pieces) /\ Len(x7') = L + 2
          /\ \A j \in 1..L : x7'[j] = x7[j]
          /\ x7'[L + 1] = o /\ x7'[L + 2] = lf
      <4>1. TwoMore(x7, o, lf, x7') /\ x7 \in Seq(F!Pieces)
        BY ONLY <1>4, <3>1 DEF TwoMore
      <4>2. /\ x7' \in Seq(F!Pieces) /\ Len(x7') = Len(x7) + 2
            /\ \A j \in 1..Len(x7) : x7'[j] = x7[j]
            /\ x7'[Len(x7) + 1] = o /\ x7'[Len(x7) + 2] = lf
        BY ONLY <1>5, <4>1, TwoElementsMore
      <4> QED BY ONLY <4>2 DEF L
    <3>4. \A j \in (L + 1)..(2 * n + 2) : j # F!Place(n + 1) => j = L + 2
      BY ONLY <1>4, <3>2
    <3>5. /\ L < F!Place(n + 1) /\ F!Place(n + 1) <= 2 * n + 2
          /\ x7'[F!Place(n + 1)] = o /\ Len(x7') = 2 * n + 2
      BY ONLY <1>4, <3>2, <3>3
    <3> QED BY ONLY <2>1, <3>3, <3>4, <3>5
  <2>2. CASE x2 = "json" /\ x5 = <<>>
    <3>1. x7' = x7 \o <<o>>
      <4>1. (<<>> \o <<o>>) \o <<>> = <<o>>
        BY ONLY <1>5
      <4> QED BY <1>3, <2>2, <4>1
    <3>2. n = 0 /\ L = 1 /\ F!Place(n + 1) = L + 1 /\ 2 * n + 2 = L + 1
      BY <1>4, <2>2 DEF F!Place
    <3>3. /\ x7' \in Seq(F!Pieces) /\ Len(x7') = L + 1
          /\ \A j \in 1..L : x7'[j] = x7[j]
          /\ x7'[L + 1] = o
      BY ONLY <1>4, <1>5, <3>1, OneElementMore DEF L
    <3>4. \A j \in (L + 1)..(2 * n + 2) : j = F!Place(n + 1)
      BY ONLY <1>4, <3>2
    <3>5. /\ L < F!Place(n + 1) /\ F!Place(n + 1) <= 2 * n + 2
          /\ x7'[F!Place(n + 1)] = o /\ Len(x7') = 2 * n + 2
      BY ONLY <1>4, <3>2, <3>3
    <3> QED BY ONLY <3>3, <3>4, <3>5
  <2>3. CASE x2 = "json" /\ x5 # <<>>
    <3>1. x7' = x7 \o <<comma, o>>
      <4>1. (<<comma>> \o <<o>>) \o <<>> = <<comma, o>>
        BY ONLY <1>5, TwoElements
      <4> QED BY <1>3, <2>3, <4>1 DEF comma
    <3>2. n > 0 /\ L = 2 * n /\ F!Place(n + 1) = L + 2 /\ 2 * n + 2 = L + 2
      BY <1>4, <2>3 DEF F!Place
    <3>3. /\ x7' \in Seq(F!Pieces) /\ Len(x7') = L + 2
          /\ \A j \in 1..L : x7'[j] = x7[j]
          /\ x7'[L + 1] = comma /\ x7'[L + 2] = o
      <4>1. TwoMore(x7, comma, o, x7') /\ x7 \in Seq(F!Pieces)
        BY ONLY <1>4, <3>1 DEF TwoMore
      <4>2. /\ x7' \in Seq(F!Pieces) /\ Len(x7') = Len(x7) + 2
            /\ \A j \in 1..Len(x7) : x7'[j] = x7[j]
            /\ x7'[Len(x7) + 1] = comma /\ x7'[Len(x7) + 2] = o
        BY ONLY <1>5, <4>1, TwoElementsMore
      <4> QED BY ONLY <4>2 DEF L
    <3>4. \A j \in (L + 1)..(2 * n + 2) : j # F!Place(n + 1) => j = L + 1 /\ j = 2 * n + 1
      BY ONLY <1>4, <3>2
    <3>5. /\ L < F!Place(n + 1) /\ F!Place(n + 1) <= 2 * n + 2
          /\ x7'[F!Place(n + 1)] = o /\ Len(x7') = 2 * n + 2
      BY ONLY <1>4, <3>2, <3>3
    <3> QED BY ONLY <2>3, <3>2, <3>3, <3>4, <3>5
  <2> QED BY <1>1, <2>1, <2>2, <2>3
<1>10. F!RecordsInv'
  <2>1. ASSUME NEW i \in 1..(n + 1)
        PROVE  x7'[F!Place(i)] = F!record_json_bytes(x5'[i])
    <3>1. CASE i = n + 1
      BY <1>6, <1>9, <3>1 DEF o
    <3>2. CASE i # n + 1
      <4>1. i \in 1..n
        BY ONLY <1>4, <3>2, i \in 1..(n + 1)
      <4> QED BY ONLY <1>4, <1>6, <1>9, <4>1
    <3> QED BY <3>1, <3>2
  <2>2. ASSUME NEW j \in 1..(2 * n + 2), \A i \in 1..(n + 1) : j # F!Place(i)
        PROVE  x7'[j] = F!Mark(F!Marks(j)')
    <3>1. CASE j \in 1..L
      <4>1. \A i \in 1..n : j # F!Place(i)
        BY ONLY <1>4, <2>2
      <4>2. x7'[j] = F!Mark(F!Marks(j))
        BY ONLY <1>4, <1>9, <3>1, <4>1
      <4> QED BY ONLY <1>7, <3>1, <4>2
    <3>2. CASE j \notin 1..L
      <4>1. j \in (L + 1)..(2 * n + 2) /\ j # F!Place(n + 1)
        BY ONLY <1>4, <2>2, <3>2, j \in 1..(2 * n + 2)
      <4>2. x7'[j] = (IF x2 = "jsonl" THEN lf ELSE comma)
            /\ (x2 = "json" => j = 2 * n + 1 /\ n > 0)
        BY ONLY <1>9, <4>1
      <4>3. F!Marks(j)' = IF x2 = "jsonl" THEN "LF" ELSE ","
        <5>1. x2' = x2 /\ Len(x5') = n + 1 /\ j \in Nat /\ x2 \in {"jsonl", "json"}
          <6>1. n \in Nat
            BY ONLY <1>4
          <6>2. j \in Nat
            BY ONLY <6>1, j \in 1..(2 * n + 2)
          <6> QED BY ONLY <1>1, <1>6, <6>2
        <5>2. x2 = "json" => j # 1 /\ ~ (j > 2 * Len(x5'))
          BY ONLY <1>4, <4>2, <5>1
        <5>3. CASE x2 = "jsonl"
          BY ONLY <5>1, <5>3 DEF F!Marks, F!LF
        <5>4. CASE x2 = "json"
          BY ONLY <5>1, <5>2, <5>4 DEF F!Marks
        <5> QED BY ONLY <5>1, <5>3, <5>4
      <4> QED BY <4>2, <4>3 DEF lf, comma
    <3> QED BY <3>1, <3>2
  <2>3. Len(x5') = n + 1 /\ Len(x7') = 2 * n + 2
    BY ONLY <1>6, <1>9
  <2>4. \A j \in 1..Len(x7') :
            (\A i \in 1..Len(x5') : j # F!Place(i)') => x7'[j] = F!Mark(F!Marks(j)')
    BY <1>8, <2>2, <2>3
  <2>5. \A i \in 1..Len(x5') : x7'[F!Place(i)'] = F!record_json_bytes(x5'[i])
    BY <1>8, <2>1, <2>3
  <2> QED BY <1>9, <2>4, <2>5 DEF F!RecordsInv
<1>11. F!LengthInv'
  <2>1. x8' \in {"none", "io"} /\ F!Taken' = 2 * n + 2
    <3>1. x8' \in {"none", "io"}
      BY ONLY <1>3
    <3>2. F!Taken' = 2 * (n + 1) + 0
      BY ONLY <1>6 DEF F!Taken
    <3> QED BY ONLY <1>4, <3>1, <3>2
  <2>2. Len(x7') = F!Taken' /\ Len(x7') \in Nat
    BY ONLY <1>4, <1>9, <2>1
  <2> QED BY ONLY <2>1, <2>2 DEF F!LengthInv
<1>12. F!TypeOK'
  <2>1. Len(x5') <= MaxParts
    <3>1. n < MaxParts /\ Len(x5') = n + 1 /\ n \in Nat /\ MaxParts \in Nat
      BY <1>1, <1>4, <1>6, FilesConstants
    <3> QED BY ONLY <3>1
  <2> QED BY <1>1, <1>3, <2>1 DEF F!TypeOK, F!FilesInv
<1>13. F!CallInv'
  BY <1>1, <1>2, <1>3, <1>6 DEF F!CallInv
<1>14. F!StreamInv' /\ F!TextInv' /\ F!RefusedTextKeepsTheFile'
  BY <1>1 DEF F!StreamInv, F!TextInv, F!RefusedTextKeepsTheFile
<1> QED BY <1>3, <1>10, <1>11, <1>12, <1>13, <1>14 DEF F!FilesInv

\* A record without bytes: the file ends with what separates it.
LEMMA FilesRefuseRecord ==
    ASSUME F!FilesInv, NEW r \in SourceRecords, F!RefuseRecord(r)
    PROVE  F!FilesInv'
<1> DEFINE n == Len(x5)
           L == Len(x7)
           comma == F!Mark(",")
<1>1. /\ x1 = "write" /\ x2 \in {"jsonl", "json"} /\ n < MaxParts
      /\ x5' = Append(x5, r) /\ F!Close("encode")
      /\ x7' = x7 \o (IF x2 = "json" /\ x5 # <<>> THEN <<comma>> ELSE <<>>)
      /\ x2' = x2 /\ x3' = x3 /\ x4' = x4 /\ x6' = x6
  BY DEF F!RefuseRecord, F!Separator
<1>2. x10 = FALSE /\ x5 \in Seq(SourceRecords) /\ x6 = <<>>
  BY <1>1, FilesWriting
<1>3. x1' = "done" /\ x8' \in {"encode", "io"} /\ x10' \in BOOLEAN /\ F!DiskInv'
  BY <1>1, <1>2, FilesClose
<1>4. /\ x7 \in Seq(F!Pieces) /\ L \in Nat /\ n \in Nat /\ (x5 = <<>> <=> n = 0)
      /\ L = 2 * n + (IF x2 = "json" /\ n = 0 THEN 1 ELSE 0)
      /\ \A i \in 1..n : F!Place(i) \in 1..L /\ x7[F!Place(i)] = F!record_json_bytes(x5[i])
      /\ \A j \in 1..L : (\A i \in 1..n : j # F!Place(i)) => x7[j] = F!Mark(F!Marks(j))
  BY <1>1, RecordsSoFar
<1>5. /\ x5' \in Seq(SourceRecords) /\ Len(x5') = n + 1 /\ x5' # <<>>
      /\ \A i \in 1..n : x5'[i] = x5[i]
  <2>1. x5 \in Seq(SourceRecords) /\ x5' = Append(x5, r)
    BY ONLY <1>1, <1>2
  <2> QED BY ONLY <2>1, r \in SourceRecords DEF n
<1>6. ASSUME NEW j \in 1..L PROVE F!Marks(j)' = F!Marks(j)
  BY <1>1, <1>5, MarksStay
<1>7. ASSUME NEW i PROVE F!Place(i)' = F!Place(i)
  BY <1>1 DEF F!Place
<1>8. /\ x7' \in Seq(F!Pieces) /\ \A j \in 1..L : x7'[j] = x7[j]
      /\ \/ x7' = x7 /\ Len(x7') = L /\ (x2 = "json" => n = 0)
         \/ Len(x7') = L + 1 /\ x7'[L + 1] = comma /\ x2 = "json" /\ n # 0
  <2>1. CASE x2 = "json" /\ x5 # <<>>
    <3>1. comma \in F!Pieces /\ x7' = x7 \o <<comma>>
      BY <1>1, <2>1, MarkIsPiece
    <3> HIDE DEF comma
    <3>2. x7 \in Seq(F!Pieces)
      BY ONLY <1>4
    <3>3. comma \in F!Pieces
      BY ONLY <3>1
    <3>4. /\ x7 \o <<comma>> \in Seq(F!Pieces) /\ Len(x7 \o <<comma>>) = Len(x7) + 1
          /\ \A j \in 1..Len(x7) : (x7 \o <<comma>>)[j] = x7[j]
          /\ (x7 \o <<comma>>)[Len(x7) + 1] = comma
      BY ONLY <3>2, <3>3, OneElementMore
    <3>5. /\ x7' \in Seq(F!Pieces) /\ Len(x7') = Len(x7) + 1
          /\ \A j \in 1..Len(x7) : x7'[j] = x7[j]
          /\ x7'[Len(x7) + 1] = comma
      BY ONLY <3>1, <3>4
    <3> QED BY ONLY <1>4, <2>1, <3>5
  <2>2. CASE ~ (x2 = "json" /\ x5 # <<>>)
    <3>1. x7' = x7 \o <<>>
      BY <1>1, <2>2
    <3> QED BY ONLY <1>4, <2>2, <3>1, ConcatEmptySeq
  <2> QED BY <2>1, <2>2
<1> HIDE DEF n, L, comma
<1>9. Len(x7') = 2 * (n + 1) - (IF x2 = "json" THEN 1 ELSE 2) /\ L <= Len(x7')
  <2>0. /\ n \in Nat /\ L = 2 * n + (IF x2 = "json" /\ n = 0 THEN 1 ELSE 0)
        /\ \/ Len(x7') = L /\ (x2 = "json" => n = 0)
           \/ Len(x7') = L + 1 /\ x2 = "json" /\ n # 0
    BY ONLY <1>4, <1>8
  <2>1. CASE x2 = "json"
    BY ONLY <2>0, <2>1
  <2>2. CASE x2 # "json"
    BY ONLY <2>0, <2>2
  <2> QED BY <2>1, <2>2
<1>10. F!LengthInv'
  <2>1. Len(x5') = n + 1 /\ F!Taken' = 2 * (n + 1)
    BY ONLY <1>4, <1>5 DEF F!Taken
  <2>2. Len(x7') <= F!Taken' + 1
    BY ONLY <1>4, <1>9, <2>1
  <2> QED BY ONLY <1>1, <1>3, <1>9, <2>1, <2>2 DEF F!LengthInv
<1>11. F!RecordsInv'
  <2>1. ASSUME NEW i \in 1..(n + 1), F!Place(i) <= Len(x7')
        PROVE  x7'[F!Place(i)] = F!record_json_bytes(x5'[i])
    <3>1. i # n + 1
      <4>1. CASE x2 = "json"
        BY ONLY <1>4, <1>9, <2>1, <4>1 DEF F!Place
      <4>2. CASE x2 # "json"
        BY ONLY <1>4, <1>9, <2>1, <4>2 DEF F!Place
      <4> QED BY <4>1, <4>2
    <3>2. i \in 1..n
      BY ONLY <1>4, <3>1, i \in 1..(n + 1)
    <3> QED BY ONLY <1>4, <1>5, <1>8, <3>2
  <2>2. ASSUME NEW j \in 1..Len(x7'), \A i \in 1..(n + 1) : j # F!Place(i)
        PROVE  x7'[j] = F!Mark(F!Marks(j)')
    <3>1. CASE j \in 1..L
      <4>1. \A i \in 1..n : j # F!Place(i)
        BY ONLY <1>4, <2>2
      <4>2. x7'[j] = F!Mark(F!Marks(j))
        BY ONLY <1>4, <1>8, <3>1, <4>1
      <4> QED BY ONLY <1>6, <3>1, <4>2
    <3>2. CASE j \notin 1..L
      <4>1. j = L + 1 /\ x2 = "json" /\ n # 0 /\ x7'[j] = comma
        BY ONLY <1>4, <1>8, <3>2, j \in 1..Len(x7')
      <4>2. j # 1 /\ ~ (j > 2 * Len(x5'))
        BY ONLY <1>4, <1>5, <4>1
      <4>3. F!Marks(j)' = ","
        BY ONLY <1>1, <4>1, <4>2 DEF F!Marks
      <4> QED BY <4>1, <4>3 DEF comma
    <3> QED BY <3>1, <3>2
  <2>3. Len(x5') = n + 1
    BY ONLY <1>5
  <2>4. \A j \in 1..Len(x7') :
            (\A i \in 1..Len(x5') : j # F!Place(i)') => x7'[j] = F!Mark(F!Marks(j)')
    BY <1>7, <2>2, <2>3
  <2>5. \A i \in 1..Len(x5') :
            F!Place(i)' <= Len(x7') => x7'[F!Place(i)'] = F!record_json_bytes(x5'[i])
    BY <1>7, <2>1, <2>3
  <2> QED BY <1>8, <2>4, <2>5 DEF F!RecordsInv
<1>12. F!TypeOK'
  <2>1. Len(x5') <= MaxParts
    <3>1. n < MaxParts /\ Len(x5') = n + 1 /\ n \in Nat /\ MaxParts \in Nat
      BY <1>1, <1>4, <1>5, FilesConstants
    <3> QED BY ONLY <3>1
  <2> QED BY <1>1, <1>3, <2>1 DEF F!TypeOK, F!FilesInv
<1>13. F!CallInv'
  BY <1>1, <1>2, <1>3, <1>5 DEF F!CallInv
<1>14. F!StreamInv' /\ F!TextInv' /\ F!RefusedTextKeepsTheFile'
  BY <1>1 DEF F!StreamInv, F!TextInv, F!RefusedTextKeepsTheFile
<1> QED BY <1>3, <1>10, <1>11, <1>12, <1>13, <1>14 DEF F!FilesInv

\* The end of the source: the CR that waited, or the end of the array.
LEMMA FilesFinish == ASSUME F!FilesInv, F!Finish PROVE F!FilesInv'
<1> DEFINE n == Len(x5)
           L == Len(x7)
           close == F!Mark("]")
           tail == IF x2 = "json" THEN <<close>> ELSE F!normalize_newlines(x6, x3)
<1>1. /\ x1 = "write" /\ x7' = x7 \o tail /\ x6' = <<>> /\ F!Close("ok")
      /\ x2' = x2 /\ x3' = x3 /\ x4' = x4 /\ x5' = x5
  BY DEF F!Finish
<1>2. /\ x2 \in {"stream", "jsonl", "json"} /\ x10 = FALSE /\ x3 \in F!Newlines
      /\ x6 \in {<<>>, <<"CR">>}
      /\ x2 = "stream" => /\ x5 \in Seq(TextChunks) /\ x6 = F!Waiting(F!FlattenSeq(x5))
                          /\ x7 = InFile(F!Settled(F!FlattenSeq(x5)), x4, x3)
      /\ x2 \in {"jsonl", "json"} => x5 \in Seq(SourceRecords) /\ x6 = <<>>
  BY <1>1, FilesWriting
<1>3. x1' = "done" /\ x8' \in {"ok", "io"} /\ x10' \in BOOLEAN /\ F!DiskInv'
  BY <1>1, <1>2, FilesClose
<1> HIDE DEF n, L, close, tail
<1>4. F!TypeOK'
  BY <1>1, <1>3 DEF F!TypeOK, F!FilesInv
<1>5. F!CallInv'
  BY <1>1, <1>2, <1>3 DEF F!CallInv
<1>6. F!StreamInv' /\ F!RefusedTextKeepsTheFile'
  BY <1>1, <1>2, <1>3 DEF F!StreamInv, F!RefusedTextKeepsTheFile
<1>7. F!TextInv'
  <2> DEFINE taken == F!FlattenSeq(x5)
             done == F!Settled(taken)
             e == F!Expected(done, x3)
             g == F!Expected(x6, x3)
             p == F!BOM_BYTES(x4)
             w == InFile(taken, x4, x3)
  <2> SUFFICES ASSUME x2 = "stream" PROVE x7' = w /\ F!Starts(w, w)
    BY <1>1, <1>2, <1>3 DEF F!TextInv, InFile
  <2>1. taken \in Seq(F!Characters)
    BY <1>2, TakenText
  <2>2. /\ done \in Seq(F!Characters) /\ x6 \in Seq(F!Characters) /\ taken = done \o x6
        /\ x6 = F!Waiting(taken) /\ x7 = p \o e
    BY <1>2, <2>1, SettledStarts DEF InFile
  <2>3. w \in Seq(Bytes)
    BY <1>2, <2>1, InFileIsText
  <2> HIDE DEF taken, done, w
  <2>4. F!Expected(done \o x6, x3) = e \o g
    <3>1. x6 # <<>> => x6[1] # "LF"
      BY ONLY <1>2
    <3> QED BY ONLY <1>2, <2>2, <3>1, ExpectedConcat DEF e, g
  <2>5. tail = g
    BY <1>2, <2>2, NormalizeIsExpected DEF tail, g
  <2>6. p \in Seq(Bytes) /\ e \in Seq(Bytes) /\ g \in Seq(Bytes)
    BY <1>2, <2>2, BomIsText, InFileIsText
  <2> HIDE DEF p, e, g
  <2>7. x7' = p \o (e \o g)
    <3>1. x7' = (p \o e) \o g
      BY ONLY <1>1, <2>2, <2>5
    <3> QED BY ONLY <2>6, <3>1, ConcatAssociative
  <2>8. x7' = w
    BY <2>2, <2>4, <2>7 DEF p, e, w, InFile
  <2> QED BY <2>3, <2>8, StartsItself
<1>8. F!RecordsInv' /\ F!LengthInv'
  <2> SUFFICES ASSUME x2 \in {"jsonl", "json"} PROVE F!RecordsInv' /\ F!LengthInv'
    BY <1>1 DEF F!RecordsInv, F!LengthInv
  <2>1. /\ x7 \in Seq(F!Pieces) /\ L \in Nat /\ n \in Nat /\ (x5 = <<>> <=> n = 0)
        /\ L = 2 * n + (IF x2 = "json" /\ n = 0 THEN 1 ELSE 0)
        /\ \A i \in 1..n : F!Place(i) \in 1..L /\ x7[F!Place(i)] = F!record_json_bytes(x5[i])
        /\ \A j \in 1..L : (\A i \in 1..n : j # F!Place(i)) => x7[j] = F!Mark(F!Marks(j))
    BY <1>1, RecordsSoFar DEF n, L
  <2>2. ASSUME NEW i PROVE F!Place(i)' = F!Place(i) /\ F!Marks(i)' = F!Marks(i)
    BY <1>1 DEF F!Place, F!Marks
  <2>3. /\ x7' \in Seq(F!Pieces)
        /\ Len(x7') = L + (IF x2 = "json" THEN 1 ELSE 0)
        /\ \A j \in 1..L : x7'[j] = x7[j]
        /\ x2 = "json" => x7'[L + 1] = close
    <3>1. CASE x2 = "json"
      <4>1. x7' = x7 \o <<close>> /\ close \in F!Pieces
        BY <1>1, <3>1, MarkIsPiece DEF tail, close
      <4> QED BY ONLY <2>1, <3>1, <4>1, OneElementMore DEF L
    <3>2. CASE x2 # "json"
      <4>1. F!normalize_newlines(x6, x3) = <<>>
        <5>1. x6 = <<>> /\ x6 \in Seq(F!Characters)
          BY <1>2, EmptySeq
        <5> QED BY <1>2, <5>1, NormalizeIsExpected, ExpectedEmpty
      <4>2. x7' = x7 \o <<>>
        BY <1>1, <3>2, <4>1 DEF tail
      <4>3. x7' = x7
        BY ONLY <2>1, <4>2, ConcatEmptySeq
      <4> QED BY ONLY <2>1, <3>2, <4>3 DEF L
    <3> QED BY <3>1, <3>2
  <2>4. ASSUME NEW j \in 1..Len(x7'), \A i \in 1..n : j # F!Place(i)
        PROVE  x7'[j] = F!Mark(F!Marks(j))
    <3>1. CASE j \in 1..L
      <4>1. x7[j] = F!Mark(F!Marks(j))
        BY ONLY <2>1, <2>4, <3>1
      <4> QED BY ONLY <2>3, <3>1, <4>1
    <3>2. CASE j \notin 1..L
      <4>1. x2 = "json" /\ j = L + 1
        BY ONLY <2>1, <2>3, <3>2, j \in 1..Len(x7')
      <4>2. j # 1 /\ j > 2 * Len(x5)
        BY ONLY <2>1, <4>1 DEF n
      <4>3. F!Marks(j) = "]"
        BY ONLY <4>1, <4>2 DEF F!Marks
      <4> QED BY ONLY <2>3, <4>1, <4>3 DEF close
    <3> QED BY <3>1, <3>2
  <2>5. ASSUME NEW i \in 1..n PROVE x7'[F!Place(i)] = F!record_json_bytes(x5[i])
    BY ONLY <2>1, <2>3, i \in 1..n
  <2>6. F!RecordsInv'
    BY <1>1, <2>2, <2>3, <2>4, <2>5 DEF F!RecordsInv, n
  <2>7. F!LengthInv'
    <3>1. F!Taken' = L
      BY ONLY <1>1, <2>1 DEF F!Taken, n
    <3>2. Len(x7') <= L + 1
      BY ONLY <2>1, <2>3
    <3> QED BY ONLY <1>1, <1>3, <2>3, <3>1, <3>2 DEF F!LengthInv
  <2> QED BY <2>6, <2>7
<1> QED BY <1>3, <1>4, <1>5, <1>6, <1>7, <1>8 DEF F!FilesInv

\* The source raises: the file is closed behind what was written.
LEMMA FilesSourceFails == ASSUME F!FilesInv, F!SourceFails PROVE F!FilesInv'
<1>1. /\ x1 = "write" /\ F!Close("source")
      /\ x2' = x2 /\ x3' = x3 /\ x4' = x4 /\ x5' = x5 /\ x6' = x6 /\ x7' = x7
  BY DEF F!SourceFails
<1>2. x2 \in {"stream", "jsonl", "json"} /\ x8 = "none" /\ x10 = FALSE /\ x3 \in F!Newlines
  BY <1>1, FilesWriting
<1>3. x1' = "done" /\ x8' \in {"source", "io"} /\ x10' \in BOOLEAN /\ F!DiskInv'
  BY <1>1, <1>2, FilesClose
<1>4. F!TypeOK'
  BY <1>1, <1>3 DEF F!TypeOK, F!FilesInv
<1>5. F!CallInv'
  BY <1>1, <1>2, <1>3 DEF F!CallInv, F!FilesInv
<1>6. F!StreamInv' /\ F!RefusedTextKeepsTheFile'
  BY <1>1, <1>2, <1>3 DEF F!StreamInv, F!RefusedTextKeepsTheFile
<1>7. F!TextInv'
  <2> DEFINE taken == F!FlattenSeq(x5)
             w == InFile(taken, x4, x3)
             v == InFile(F!Settled(taken), x4, x3)
  <2> SUFFICES ASSUME x2 = "stream" PROVE x7 = v /\ F!Starts(v, w)
    BY <1>1, <1>2, <1>3 DEF F!TextInv, F!Sound, InFile
  <2>1. x7 = v /\ x5 \in Seq(TextChunks)
    BY <1>1, FilesWriting
  <2>2. taken \in Seq(F!Characters)
    BY <2>1, TakenText
  <2> HIDE DEF taken
  <2>3. F!Starts(v, w)
    BY <1>2, <2>2, SettledStarts, InFileStarts
  <2> QED BY <2>1, <2>3
<1>8. F!RecordsInv' /\ F!LengthInv'
  <2> SUFFICES ASSUME x2 \in {"jsonl", "json"} PROVE F!RecordsInv' /\ F!LengthInv'
    BY <1>1 DEF F!RecordsInv, F!LengthInv
  <2>1. ASSUME NEW i PROVE F!Place(i)' = F!Place(i) /\ F!Marks(i)' = F!Marks(i)
    BY <1>1 DEF F!Place, F!Marks
  <2>2. F!RecordsInv'
    BY <1>1, <2>1 DEF F!RecordsInv, F!FilesInv
  <2>3. Len(x7) = F!Taken /\ F!Taken' = F!Taken /\ Len(x7) \in Nat
    BY <1>1, <1>2, RecordsSoFar DEF F!Taken, F!LengthInv, F!FilesInv
  <2>4. Len(x7) <= Len(x7) + 1
    BY ONLY <2>3
  <2> QED BY <1>1, <1>3, <2>2, <2>3, <2>4 DEF F!LengthInv
<1> QED BY <1>3, <1>4, <1>5, <1>6, <1>7, <1>8 DEF F!FilesInv

LEMMA FilesForget == F!Forget => F!FilesInv'
<1> SUFFICES ASSUME F!Forget PROVE F!FilesInv'
  OBVIOUS
<1>1. F!Init'
  BY DEF F!Forget, F!Init, F!LF
<1>2. F!TypeOK'
  <2>1. Len(<<>>) = 0 /\ MaxParts \in Nat \ {0}
    BY FilesConstants
  <2>2. Len(x5') <= MaxParts
    BY <1>1, <2>1 DEF F!Init
  <2>3. x3' \in F!Newlines
    BY <1>1 DEF F!Init, F!Newlines
  <2> QED BY <1>1, <2>2, <2>3 DEF F!Init, F!TypeOK, F!CR
<1> QED
  BY <1>1, <1>2 DEF F!Init, F!FilesInv, F!CallInv, F!DiskInv, F!StreamInv, F!TextInv, F!Opened,
              F!RecordsInv, F!LengthInv, F!RefusedTextKeepsTheFile

LEMMA FilesNext == F!FilesInv /\ [F!Next]_(F!vars) => F!FilesInv'
<1> SUFFICES ASSUME F!FilesInv, [F!Next]_(F!vars) PROVE F!FilesInv'
  OBVIOUS
<1>1. CASE UNCHANGED F!vars
  <2> USE <1>1 DEF F!vars, F!disk, F!FilesInv
  <2>1. ASSUME NEW i PROVE F!Place(i)' = F!Place(i) /\ F!Marks(i)' = F!Marks(i)
    BY DEF F!Place, F!Marks
  <2>2. F!TypeOK' /\ F!CallInv' /\ F!StreamInv' /\ F!DiskInv' /\ F!RefusedTextKeepsTheFile'
    BY DEF F!TypeOK, F!CallInv, F!StreamInv, F!DiskInv, F!RefusedTextKeepsTheFile
  <2>3. F!TextInv'
    BY DEF F!TextInv, F!Opened, F!Sound
  <2>4. F!RecordsInv' /\ F!LengthInv'
    BY <2>1 DEF F!RecordsInv, F!LengthInv, F!Taken
  <2> QED BY <2>2, <2>3, <2>4
<1>2. ASSUME NEW c \in TextChunks, NEW nl \in F!Newlines, NEW b \in BOOLEAN, F!write_text(c, nl, b)
      PROVE  F!FilesInv'
  BY <1>2, FilesWriteText
<1>3. ASSUME NEW o \in {"stream", "jsonl", "json"}, NEW nl \in F!Newlines, NEW b \in BOOLEAN,
             F!Open(o, nl, b)
      PROVE  F!FilesInv'
  BY <1>3, FilesOpen
<1>4. ASSUME NEW c \in TextChunks, F!WriteChunk(c) PROVE F!FilesInv'
  BY <1>4, FilesWriteChunk
<1>5. ASSUME NEW r \in SourceRecords, F!WriteRecord(r) \/ F!RefuseRecord(r) PROVE F!FilesInv'
  BY <1>5, FilesWriteRecord, FilesRefuseRecord
<1>6. F!Finish \/ F!SourceFails \/ F!Forget => F!FilesInv'
  BY FilesFinish, FilesSourceFails, FilesForget
<1>7. <<"LF">> \in F!Newlines /\ F!LF = "LF"
  BY DEF F!Newlines, F!LF
<1> QED BY <1>1, <1>2, <1>3, <1>4, <1>5, <1>6, <1>7 DEF F!Next

\* What is in the file of a call that came to it.
LEMMA InTheFile ==
    ASSUME F!FilesInv, F!Opened
    PROVE  \/ x9 = x7 /\ x10 = FALSE
           \/ x8 = "io" /\ \E n \in 0..Len(x7) : x9 = SubSeq(x7, 1, n) /\ (x10 => n < Len(x7))
BY DEF F!FilesInv, F!DiskInv, F!Opened

\* What was written of a text, and so what its file holds, is what the whole of
\* it makes, or a beginning of that.
LEMMA ChunksDoNot == F!FilesInv => F!ChunksDoNotShow
<1> DEFINE w == InFile(F!FlattenSeq(x5), x4, x3)
           v == InFile(F!Settled(F!FlattenSeq(F!Sound)), x4, x3)
<1> SUFFICES ASSUME F!FilesInv, F!Opened, x2 \in {"text", "stream"}
             PROVE  /\ x8 = "ok" => x9 = w
                    /\ x8 \in {"source", "encode"} => x9 = v
                    /\ F!Starts(x9, w) /\ (x10 => x8 = "io")
  BY DEF F!ChunksDoNotShow, InFile
<1>1. F!Starts(x7, w) /\ (x8 = "ok" => x7 = w) /\ (x8 \in {"source", "encode"} => x7 = v)
  BY DEF F!FilesInv, F!TextInv, InFile
<1>2. w \in Seq(Bytes)
  <2>1. x5 \in Seq(TextChunks) /\ x3 \in F!Newlines
    BY DEF F!FilesInv, F!CallInv, F!TypeOK
  <2> QED BY <2>1, TakenText, InFileIsText
<1> HIDE DEF w, v
<1>3. CASE x9 = x7 /\ x10 = FALSE
  BY <1>1, <1>3
<1>4. CASE x8 = "io" /\ \E n \in 0..Len(x7) : x9 = SubSeq(x7, 1, n)
  <2>1. F!Starts(x9, w)
    BY <1>1, <1>2, <1>4, StartsBefore
  <2> QED BY <1>4, <2>1
<1> QED BY <1>3, <1>4, InTheFile

\* Every piece of a file of records is known, so an object is a record's.
LEMMA RecordsStayWhole == F!FilesInv => F!RecordsAreWhole
<1> DEFINE n == Len(x5)
           L == Len(x7)
           k == Len(x9)
<1> SUFFICES ASSUME F!FilesInv, F!Opened, x2 \in {"jsonl", "json"}
             PROVE  /\ \A j \in 1..k :
                           x9[j][1] = IF \E i \in 1..n : j = F!Place(i) THEN "object" ELSE F!Marks(j)
                    /\ \A i \in 1..n : F!Place(i) <= k =>
                           Len(x9[F!Place(i)][2]) = Len(x5[i]) /\ F!IsInjective(x9[F!Place(i)][2])
                    /\ x8 # "io" => ~ x10 /\ \A i \in 1..Len(F!Sound) : F!Place(i) <= k
                    /\ x2 = "json" /\ x8 # "io" => (F!Last(x9)[1] = "]" <=> x8 = "ok")
                    /\ x2 = "json" /\ x10 /\ x9 # <<>> => F!Last(x9)[1] # "]"
  BY DEF F!RecordsAreWhole
<1>1. /\ F!RecordsInv /\ F!LengthInv /\ x5 \in Seq(SourceRecords)
      /\ x8 \in {"ok", "encode", "source", "io"} /\ (x8 = "encode" => x5 # <<>>)
  BY DEF F!FilesInv, F!TypeOK, F!CallInv, F!Opened
<1>2. /\ x7 \in Seq(F!Pieces)
      /\ \A i \in 1..n : F!Place(i) <= L => x7[F!Place(i)] = F!record_json_bytes(x5[i])
      /\ \A j \in 1..L : (\A i \in 1..n : j # F!Place(i)) => x7[j] = F!Mark(F!Marks(j))
  BY <1>1 DEF F!RecordsInv
<1>3. n \in Nat /\ (x5 = <<>> <=> n = 0) /\ \A i \in 1..n : x5[i] \in SourceRecords
  BY ONLY <1>1, EmptySeq
<1>4. L \in Nat
  BY ONLY <1>2
<1>5. /\ x8 = "source" => L = 2 * n + (IF x2 = "json" /\ n = 0 THEN 1 ELSE 0)
      /\ x8 = "ok" => L = 2 * n + (IF x2 = "json" /\ n = 0 THEN 1 ELSE 0) + (IF x2 = "json" THEN 1 ELSE 0)
      /\ x8 = "encode" => L = 2 * n - (IF x2 = "json" THEN 1 ELSE 2)
      /\ x8 = "io" => L <= 2 * n + (IF x2 = "json" /\ n = 0 THEN 1 ELSE 0) + 1
  BY <1>1, <1>3 DEF F!LengthInv, F!Taken
<1>6. /\ k \in Nat /\ k <= L /\ \A j \in 1..k : x9[j] = x7[j]
      /\ x8 # "io" => k = L /\ ~ x10
      /\ x10 => k < L /\ x8 = "io"
  <2>1. CASE x9 = x7 /\ x10 = FALSE
    BY ONLY <1>4, <2>1
  <2>2. CASE x8 = "io" /\ \E m \in 0..L : x9 = SubSeq(x7, 1, m) /\ (x10 => m < L)
    <3>1. PICK m \in 0..L : x9 = SubSeq(x7, 1, m) /\ (x10 => m < L)
      BY <2>2
    <3>2. Len(x9) = m /\ \A j \in 1..m : x9[j] = x7[j]
      BY ONLY <1>2, <1>4, <3>1
    <3> QED BY ONLY <1>4, <2>2, <3>1, <3>2
  <2> QED BY <2>1, <2>2, InTheFile
<1>7. F!Last(x9) = x9[k]
  BY DEF F!Last
<1> HIDE DEF n, L, k
<1>8. ASSUME NEW i \in 1..n, F!Place(i) <= k
      PROVE  /\ x9[F!Place(i)][1] = "object"
             /\ Len(x9[F!Place(i)][2]) = Len(x5[i])
             /\ F!IsInjective(x9[F!Place(i)][2])
  <2>1. F!Place(i) \in 1..k /\ F!Place(i) <= L
    <3>1. F!Place(i) \in Nat \ {0}
      BY ONLY <1>3, i \in 1..n DEF F!Place
    <3> QED BY ONLY <1>4, <1>6, <1>8, <3>1
  <2>2. x5[i] \in SourceRecords /\ x9[F!Place(i)] = F!record_json_bytes(x5[i])
    BY ONLY <1>2, <1>3, <1>6, <2>1, i \in 1..n
  <2> QED BY ONLY <2>2, ObjectIsPiece
<1>9. ASSUME NEW j \in 1..k, \A i \in 1..n : j # F!Place(i)
      PROVE  x9[j][1] = F!Marks(j)
  <2>1. j \in 1..L
    BY ONLY <1>4, <1>6, j \in 1..k
  <2>2. x9[j] = F!Mark(F!Marks(j))
    BY ONLY <1>2, <1>6, <1>9, <2>1
  <2>3. F!Marks(j) \in {"[", ",", "]", "LF"}
    BY DEF F!Marks, F!LF
  <2>4. F!Mark(F!Marks(j))[1] = F!Marks(j)
    BY ONLY <2>3, MarkIsPiece
  <2> QED BY ONLY <2>2, <2>4
<1>10. ASSUME NEW j \in 1..k
       PROVE  x9[j][1] = IF \E i \in 1..n : j = F!Place(i) THEN "object" ELSE F!Marks(j)
  <2>1. CASE \E i \in 1..n : j = F!Place(i)
    <3>1. PICK i \in 1..n : j = F!Place(i)
      BY <2>1
    <3>2. F!Place(i) <= k
      BY ONLY <1>6, <3>1, j \in 1..k
    <3> QED BY ONLY <1>8, <2>1, <3>1, <3>2
  <2>2. CASE ~ \E i \in 1..n : j = F!Place(i)
    BY <1>9, <2>2
  <2> QED BY <2>1, <2>2
<1>11. ASSUME x8 # "io" PROVE ~ x10 /\ \A i \in 1..Len(F!Sound) : F!Place(i) <= k
  <2>1. k = L /\ ~ x10
    BY ONLY <1>6, <1>11
  <2>2. Len(F!Sound) = IF x8 = "encode" THEN n - 1 ELSE n
    <3>1. CASE x8 = "encode"
      <4>1. F!Sound = SubSeq(x5, 1, n - 1) /\ n # 0
        BY <1>1, <1>3, <3>1 DEF F!Sound, F!Front, n
      <4> QED BY ONLY <1>1, <1>3, <3>1, <4>1
    <3>2. CASE x8 # "encode"
      BY <3>2 DEF F!Sound, n
    <3> QED BY <3>1, <3>2
  <2>3. ASSUME NEW i \in 1..Len(F!Sound) PROVE F!Place(i) <= L
    <3>1. i \in Nat /\ i >= 1 /\ i <= n /\ (x8 = "encode" => i <= n - 1)
      BY ONLY <1>3, <2>2, i \in 1..Len(F!Sound)
    <3>2. CASE x2 = "json"
      BY ONLY <1>1, <1>3, <1>5, <1>11, <3>1, <3>2 DEF F!Place
    <3>3. CASE x2 # "json"
      BY ONLY <1>1, <1>3, <1>5, <1>11, <3>1, <3>3 DEF F!Place
    <3> QED BY <3>2, <3>3
  <2> QED BY <2>1, <2>3
\* The last piece of an array: what it is by how long the file is.
<1>12. ASSUME x2 = "json", k # 0, k # 1 => k <= 2 * n PROVE F!Last(x9)[1] # "]"
  <2>1. k \in 1..k
    BY ONLY <1>6, <1>12
  <2>2. F!Marks(k) # "]"
    <3>1. k # 1 => ~ (k > 2 * Len(x5))
      BY ONLY <1>3, <1>6, <1>12 DEF n
    <3> QED BY ONLY <1>12, <3>1 DEF F!Marks
  <2> QED BY <1>7, <1>10, <2>1, <2>2
<1>13. ASSUME x2 = "json", x8 # "io" PROVE F!Last(x9)[1] = "]" <=> x8 = "ok"
  <2>1. k = L
    BY ONLY <1>6, <1>13
  <2>2. CASE x8 = "ok"
    <3>1. k \in 1..k /\ k # 1 /\ k > 2 * n
      BY ONLY <1>3, <1>4, <1>5, <1>13, <2>1, <2>2
    <3>2. \A i \in 1..n : k # F!Place(i)
      <4> SUFFICES ASSUME NEW i \in 1..n PROVE k # F!Place(i)
        OBVIOUS
      <4>1. F!Place(i) = 2 * i /\ i <= n /\ i \in Nat
        BY ONLY <1>3, <1>13, i \in 1..n DEF F!Place
      <4> QED BY ONLY <1>3, <1>6, <3>1, <4>1
    <3>3. x9[k][1] = F!Marks(k)
      BY ONLY <1>9, <3>1, <3>2
    <3>4. F!Marks(k) = "]"
      BY ONLY <1>13, <3>1 DEF F!Marks, n
    <3> QED BY ONLY <1>7, <2>2, <3>3, <3>4
  <2>3. CASE x8 # "ok"
    <3>1. k # 0 /\ (k # 1 => k <= 2 * n)
      <4>1. x8 = "encode" => n # 0
        BY ONLY <1>1, <1>3
      <4> QED BY ONLY <1>1, <1>3, <1>5, <1>13, <2>1, <2>3, <4>1
    <3> QED BY <1>12, <1>13, <2>3, <3>1
  <2> QED BY <2>2, <2>3
<1>14. ASSUME x2 = "json", x10, x9 # <<>> PROVE F!Last(x9)[1] # "]"
  <2>1. k < L /\ L <= 2 * n + (IF n = 0 THEN 1 ELSE 0) + 1
    BY ONLY <1>5, <1>6, <1>14
  <2>2. k # 0
    <3>1. x9 \in Seq(F!Pieces)
      <4>1. \E m \in 0..L : x9 = SubSeq(x7, 1, m)
        BY <1>14, InTheFile DEF L
      <4> QED BY ONLY <1>2, <1>4, <4>1 DEF L
    <3> QED BY ONLY <1>14, <3>1, EmptySeq DEF k
  <2>3. k # 1 => k <= 2 * n
    BY ONLY <1>3, <1>4, <1>6, <2>1
  <2> QED BY <1>12, <1>14, <2>2, <2>3
<1> QED BY <1>8, <1>10, <1>11, <1>13, <1>14

-----------------------------------------------------------------------------
(* The composition: a step of one component leaves the others' alone.      *)

RunnerInv ==
    /\ StartInv /\ RequestInv
    /\ which = "web" => W!WebInv
    /\ which = "pack" => P!PackInv
    /\ which = "files" => F!FilesInv

\* RunnerSpec keeps every component's invariant.
LEMMA RunnerInvariant == RunnerSpec => []RunnerInv
<1>1. RunnerInit => RunnerInv
  BY StartInit, RequestInit, WebInit, PackInit, FilesInit DEF RunnerInit, NoStart, RunnerInv
<1>2. RunnerInv /\ [RunnerNext]_all => RunnerInv'
  <2> SUFFICES ASSUME RunnerInv, [RunnerNext]_all PROVE RunnerInv'
    OBVIOUS
  <2> USE DEF all, pool, tail16, RunnerNext, InStart, InPack, InWeb, InFiles
  <2>1. StartInv' /\ RequestInv'
    <3>1. Next \/ UNCHANGED vars
      OBVIOUS
    <3>2. StartInv'
      BY <3>1, TypeNext, SectionNext, UmaskNext, EnvNext DEF RunnerInv, StartInv
    <3>3. RequestInv'
      BY <3>1, RequestNext DEF RunnerInv
    <3> QED BY <3>2, <3>3
  <2>2. ASSUME which' = "web" PROVE W!WebInv'
    <3>1. which = "web" /\ (W!Next \/ UNCHANGED W!vars)
      BY <2>2 DEF W!vars
    <3> QED BY <3>1, WebNext DEF RunnerInv
  <2>3. ASSUME which' = "pack" PROVE P!PackInv'
    <3>1. which = "pack" /\ (P!Next \/ UNCHANGED P!vars)
      BY <2>3 DEF P!vars, P!world
    <3> QED BY <3>1, PackNext DEF RunnerInv
  <2>4. ASSUME which' = "files" PROVE F!FilesInv'
    <3>1. which = "files" /\ (F!Next \/ UNCHANGED F!vars)
      BY <2>4 DEF F!vars, F!disk
    <3> QED BY <3>1, FilesNext DEF RunnerInv
  <2> QED BY <2>1, <2>2, <2>3, <2>4 DEF RunnerInv
<1> QED BY <1>1, <1>2, PTL DEF RunnerSpec

\* For every argument vector, environment and place of uv: a root run removes, runs and
\* searches nothing it has not judged before.
THEOREM RootRunsOnlyJudgedAlways == RunnerSpec => []RootRunsOnlyJudged
<1>1. RunnerInv => RootRunsOnlyJudged
  BY DEF RunnerInv, StartInv
<1> QED BY <1>1, RunnerInvariant, PTL

\* For every environment: uv and git of a root run see the account's own settings.
THEOREM UvSeesOwnSettingsAlways == RunnerSpec => []UvSeesOwnSettings
<1>1. RunnerInv => UvSeesOwnSettings
  BY DEF RunnerInv, StartInv
<1> QED BY <1>1, RunnerInvariant, PTL

\* For every environment, another run's hand-over included: the script of a root run
\* gets the caller's back and none of the hand-over.
THEOREM ScriptSeesCallersAlways == RunnerSpec => []ScriptSeesCallers
<1>1. RunnerInv => ScriptSeesCallers
  BY DEF RunnerInv, StartInv
<1> QED BY <1>1, RunnerInvariant, PTL

\* Whatever the caller's umask: a root run never refuses the cache it has written,
\* and the umask is back before anything else runs.
THEOREM UnpackIsRootsOwnAlways == RunnerSpec => []UnpackIsRootsOwn
<1>1. RunnerInv => UnpackIsRootsOwn
  BY DEF RunnerInv, StartInv
<1> QED BY <1>1, RunnerInvariant, PTL

\* For every argument vector: the switches in front count, across a relaunch under
\* sudo, and what is behind them reaches the script as typed.
THEOREM RequestSurvivesAlways == RunnerSpec => []RequestSurvives
<1>1. RequestInv => RequestSurvives
  BY SectionsAfterUnpack
     DEF RequestInv, RequestSurvives, RequestParsed, Unpacking, UvSearch, Preparing, Prepared
<1>2. RunnerInv => RequestSurvives
  BY <1>1 DEF RunnerInv
<1> QED BY <1>2, RunnerInvariant, PTL

\* For any number of redirects and chunks, whatever fails: a download is whole or gone,
\* and nothing but http and https is opened.
THEOREM DownloadIsWholeOrGoneAlways == RunnerSpec => []DownloadIsWholeOrGone
<1>1. RunnerInv => DownloadIsWholeOrGone
  BY DEF RunnerInv, DownloadIsWholeOrGone, W!WebInv
<1> QED BY <1>1, RunnerInvariant, PTL

\* For trees, bodies and edits of any number: where no module has the name of a
\* package, a runner that was written holds every steady file Python would load for
\* it, and reports every other name it leaves out.
THEOREM PackIsCompleteAlways == ASSUME P!NoTwins PROVE RunnerSpec => []PackIsComplete
<1>1. RunnerInv => PackIsComplete
  BY PackedIsComplete DEF RunnerInv, PackIsComplete
<1> QED BY <1>1, RunnerInvariant, PTL

\* For chunks, records and numbers of them of any size: a text written in pieces, or at
\* once, is the whole text with its newlines, a text that is refused touches nothing, and
\* every record in a file is there whole, all its keys apart.
THEOREM PiecesDoNotShowAlways == RunnerSpec => []PiecesDoNotShow
<1>1. RunnerInv => PiecesDoNotShow
  BY RecordsStayWhole, ChunksDoNot DEF RunnerInv, PiecesDoNotShow, F!FilesInv
<1> QED BY <1>1, RunnerInvariant, PTL
=============================================================================
