------------------------------ MODULE MCRunner ------------------------------
(***************************************************************************)
(* Making, fetching and starting a script: the start of a packed runner    *)
(* (RunnerStart), the packer that wrote it (Packer), downloads (Web) and   *)
(* the files and records a script writes (Files).                          *)
(*                                                                         *)
(* A behaviour is one of a single component, the one `which` names.  The   *)
(* components other than RunnerStart take their variables from a pool; the *)
(* variables a behaviour does not need keep their first value.             *)
(***************************************************************************)
EXTENDS RunnerStart, MCPackTrees

CONSTANTS
    PackTrees, PackEdits,       \* what is packed, and edited meanwhile
    PackEntry, MaxEdits,        \* the script, how often
    MaxRedirects, MaxChunks,    \* of a download
    TextChunks, SourceRecords,  \* what is written to files
    MaxParts                    \* of a file

VARIABLES
    which,
    x1, x2, x3, x4, x5, x6, x7, x8, x9, x10, x11, x12, x13, x14, x15, x16

tail16 == <<x11, x12, x13, x14>>
pool   == <<x1, x2, x3, x4, x5, x6, x7, x8, x9, x10, tail16, x15, x16>>
all    == <<which, vars, pool>>

\* Each switch, all that are passed on, one behind the end of the switches.
MCArgVectors ==
    { <<>>, <<"pin", "--pwshpy-clean">>, <<"--pwshpy-help">>, <<"--pwshpy-info", "--pwshpy-elevate">>,
      <<"--pwshpy-clean", "word", "--pwshpy-clean">>,
      <<"--pwshpy-elevate", "--", "--pwshpy-no-install-uv">>,
      <<"--pwshpy-elevate", "--pwshpy-clean", "--pwshpy-uv", "pin", "--">>,
      <<"--pwshpy-no-install-uv", "--pwshpy-elevate", "word", "--">>,
      <<"--pwshpy-uv", "pin", "--", "--pwshpy-help">>, <<"--pwshpy-uv", "word">> }

\* Nothing, what a user's shell has, everything, and a packed script that
\* starts another: its hand-over without the variables that belong to it.
MCCallerSets ==
    { {}, {"HOME"}, Variables, Variables \ Home, Variables \ {Marker},
      {"HOME", "TMPDIR", "GIT_SSH_COMMAND", "UV_CACHE_DIR"} }

P == INSTANCE Packer WITH
        Trees <- PackTrees, Edits <- PackEdits, Stdlib <- {"os"}, Entry <- PackEntry,
        pc <- x1, disk <- x2, outside <- x3, include <- x4, refused <- x5, pending <- x6,
        found <- x7, searched <- x8, external <- x9, dest <- x10, force <- x11,
        written <- x12, target <- x13, edits <- x14, steady <- x15, result <- x16

W == INSTANCE Web WITH
        pc <- x1, op <- x2, skip <- x3, scheme <- x4, hops <- x5, fetched <- x6,
        status <- x7, announced <- x8, body <- x9, got <- x10, dest <- x11,
        before <- x12, opened <- x13, result <- x14

\* Chunks with every way a CR and an LF can meet their ends, and records whose
\* keys are repaired to names that are taken.
MCTextChunks == SeqOf({"a", "CR", "LF"}, 2) \cup {<<"bad">>}
MCSourceRecords == {<<1, -1, -2>>, <<-1, 1, 2, -2>>, <<3, -1>>, <<>>}

F == INSTANCE Files WITH
        Chunks <- TextChunks, Records <- SourceRecords,
        pc <- x1, op <- x2, newline <- x3, bom <- x4, input <- x5, pending <- x6,
        written <- x7, result <- x8, file <- x9, torn <- x10

ASSUME RunnerAssumption == P!PackerAssumption /\ W!WebAssumption /\ F!FilesAssumption

\* A runner nobody starts.
NoStart ==
    /\ root = FALSE /\ asked = <<>> /\ before = CallerEnv({}) /\ tree = FALSE
    /\ uvs = [p \in Places |-> "none"] /\ cache = "absent"
    /\ Init

Rest ==
    /\ x11 = 0 /\ x12 = 0 /\ x13 = 0 /\ x14 = 0

RunnerInit ==
    \/ /\ which = "start" /\ Init
       /\ x1 = 0 /\ x2 = 0 /\ x3 = 0 /\ x4 = 0 /\ x5 = 0 /\ x6 = 0 /\ x7 = 0 /\ x8 = 0
       /\ x9 = 0 /\ x10 = 0 /\ Rest /\ x15 = 0 /\ x16 = 0
    \/ /\ which = "pack" /\ NoStart /\ P!Init
    \/ /\ which = "web" /\ NoStart /\ W!Init /\ x15 = 0 /\ x16 = 0
    \/ /\ which = "files" /\ NoStart /\ F!Init /\ Rest /\ x15 = 0 /\ x16 = 0

InStart == which = "start" /\ UNCHANGED <<which, pool>>
InPack  == which = "pack" /\ UNCHANGED <<which, vars>>
InWeb   == which = "web" /\ UNCHANGED <<which, vars, x15, x16>>
InFiles == which = "files" /\ UNCHANGED <<which, vars, tail16, x15, x16>>

RunnerNext ==
    \/ InStart /\ Next
    \/ InPack /\ P!Next
    \/ InWeb /\ W!Next
    \/ InFiles /\ F!Next

RunnerSpec == RunnerInit /\ [][RunnerNext]_all

-----------------------------------------------------------------------------
\* A runner holds every local module Python would load for it, transitively,
\* each as it was searched, and every other name is the standard library's or
\* was reported, although the tree is edited while it is walked.
PackIsComplete == which = "pack" => P!EmbedsWhatPythonLoads /\ P!NothingIsUnaccounted

\* A download that returns has every byte the server announced; one that fails
\* leaves no part of them, and a file it never opened as it was.  Wherever a
\* server redirects to, nothing but http and https is opened.
DownloadIsWholeOrGone == which = "web" => W!DownloadIsWholeOrGone /\ W!OnlyHttpIsOpened

\* Writing in pieces does not show: however a text is cut into chunks the file
\* is the one the whole text makes (or the old one, for a whole text that
\* cannot be encoded), a beginning of it when the disk refused.  An interrupted
\* JSON file holds the objects of the records in their order, keys apart, every
\* one taken unless the disk refused; and an array that ends like a finished one
\* lacks none of them.
PiecesDoNotShow ==
    which = "files" => F!ChunksDoNotShow /\ F!RefusedTextKeepsTheFile /\ F!RecordsAreWhole
=============================================================================
