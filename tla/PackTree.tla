------------------------------ MODULE PackTree ------------------------------
(***************************************************************************)
(* The unpacked payload of a packed script, as the runners of the pack     *)
(* share it: the cache directory `<cache root>/<first 16 digits of the     *)
(* payload's sha256>`, the files in it, and the primitives both runner     *)
(* templates (pack_runner.sh and pack_runner.ps1) apply to it.             *)
(*                                                                         *)
(* File 0 is the archive the extraction writes into the directory first;   *)
(* files 1..NFiles are the packed files.  A file's content is abstracted   *)
(* to whether its hash matches the digest embedded in the runner.          *)
(***************************************************************************)
EXTENDS Naturals

CONSTANTS
    Runners,       \* processes that run the same packed file
    NFiles         \* number of packed files (at least the entry script)

\* "intact":     the payload matches its sha256, its members their digests.
\* "damaged":    the blob was damaged in transit: its sha256 does not match.
\* "mismatched": the sha256 matches, a member's digest does not.
PayloadStates == {"intact", "damaged", "mismatched"}

ASSUME TreeAssumption == NFiles \in Nat \ {0}

VARIABLES
    payload,       \* what the embedded base64 payload is: never changes
    dir,           \* the cache directory exists
    files          \* content of each file in it

treeVars == <<payload, dir, files>>

Archive     == 0
PackedFiles == 1..NFiles
AllFiles    == {Archive} \cup PackedFiles

\* "wrong" is a file that exists and does not hash to its digest: tampered
\* with, or still being written.
Contents == {"missing", "wrong", "right"}

\* An archive written in another order than the hash list.
MemberAtReversed(k) == NFiles + 1 - k

\* The k-th member of the archive, and the k-th line of the hash list: the
\* packer writes both in the sorted order of the member names.
MemberAt(k) == k
HashedAt(k) == k

\* Every packed file is there and hashes to its embedded digest.
Complete == dir /\ \A f \in PackedFiles : files[f] = "right"

\* What extracting member f leaves in the directory once it is written.
Extracted(f) == IF payload = "mismatched" THEN "wrong" ELSE "right"

TreeTypeOK ==
    /\ payload \in PayloadStates
    /\ dir \in BOOLEAN
    /\ files \in [AllFiles -> Contents]
    /\ ~dir => \A f \in AllFiles : files[f] = "missing"

\* Any tree an earlier run can have left: none, a complete one, one whose
\* extraction was cut short, one edited since.
TreeInit == TreeTypeOK

-----------------------------------------------------------------------------
\* rm -rf (Remove-Item -Recurse -Force) takes the entries out one at a time,
\* in directory order, which is no particular order, ...
RemoveFile(f) ==
    /\ dir /\ files[f] # "missing"
    /\ files' = [files EXCEPT ![f] = "missing"]
    /\ UNCHANGED <<payload, dir>>

\* ... and the empty directory last.
Empty == \A f \in AllFiles : files[f] = "missing"

RemoveDirectory ==
    /\ Empty
    /\ dir' = FALSE
    /\ UNCHANGED <<payload, files>>

MakeDirectory ==
    /\ dir' = TRUE
    /\ UNCHANGED <<payload, files>>

WriteFile(f, content) ==
    /\ dir
    /\ files' = [files EXCEPT ![f] = content]
    /\ UNCHANGED <<payload, dir>>
=============================================================================
