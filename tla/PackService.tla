---------------------------- MODULE PackService -----------------------------
(***************************************************************************)
(* What a packed runner promises the processes that run it at the same     *)
(* time: the payload becomes ready once, stays ready, and a script is only *)
(* launched while it is.  No files, no lock, no hashing.                   *)
(***************************************************************************)
CONSTANT Runners

VARIABLES
    ready,      \* the payload is unpacked and verified
    phase       \* of each process

svars == <<ready, phase>>

Phases == {"starting", "running", "ended"}

Init ==
    /\ ready \in BOOLEAN
    /\ phase = [r \in Runners |-> "starting"]

Publish ==
    /\ ~ready
    /\ ready' = TRUE
    /\ UNCHANGED phase

Launch(r) ==
    /\ ready
    /\ phase[r] = "starting"
    /\ phase' = [phase EXCEPT ![r] = "running"]
    /\ UNCHANGED ready

\* A start that fails, a script that ends, a process that dies.
End(r) ==
    /\ phase[r] # "ended"
    /\ phase' = [phase EXCEPT ![r] = "ended"]
    /\ UNCHANGED ready

Next == Publish \/ \E r \in Runners : Launch(r) \/ End(r)

Spec == Init /\ [][Next]_svars
=============================================================================
