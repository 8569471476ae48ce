---------------------------- MODULE CleanService ----------------------------
(***************************************************************************)
(* What is left of PackService when some of the starts discard the         *)
(* payload first (--pwshpy-clean), without a lock.  The payload can be     *)
(* withdrawn while such a start is discarding it, and then only.  A script *)
(* is launched while the payload is ready; or by a start that was looking  *)
(* at the payload, file by file, when some of it was discarded, and that   *)
(* put together what it saw before and after.  A start that begins its     *)
(* look when nobody discards any more launches what is ready.              *)
(***************************************************************************)
CONSTANT Runners

VARIABLES
    ready,      \* the payload is unpacked and verified
    phase,      \* of each process
    misled      \* the processes under whose look something was discarded and
                \* that may not notice

cvars == <<ready, phase, misled>>

Phases == {"discarding", "waiting", "looking", "running", "ended"}

Init ==
    /\ ready \in BOOLEAN
    /\ phase \in [Runners -> {"discarding", "looking"}]
    /\ misled = {}

Looking == {r \in Runners : phase[r] = "looking"}

\* Process r goes from one phase to another.  A look that is over takes its
\* mistake along, and a later one begins without any.
Move(r, from, to) ==
    /\ phase[r] = from
    /\ phase' = [phase EXCEPT ![r] = to]
    /\ misled' \subseteq misled \ {r}

\* Something of the payload is discarded, ...
Discard(r) ==
    /\ phase[r] = "discarding"
    /\ ready' \in {ready, FALSE}
    /\ misled' \subseteq misled \cup Looking
    /\ UNCHANGED phase

\* ... and in the end all of it.
Discarded(r) ==
    /\ phase[r] = "discarding"
    /\ phase' = [phase EXCEPT ![r] = "looking"]
    /\ ready' = FALSE
    /\ misled' \subseteq misled \cup Looking

Look(r) == Move(r, "waiting", "looking") /\ UNCHANGED ready

\* The payload is not as it should be, or no longer.
Reject(r) == Move(r, "looking", "waiting") /\ UNCHANGED ready

Launch(r) ==
    /\ ready \/ r \in misled
    /\ Move(r, "looking", "running")
    /\ UNCHANGED ready

\* What was discarded is made anew: a process may be misled no longer.
Unpack ==
    /\ ready' \in {ready, TRUE}
    /\ misled' \subseteq misled
    /\ UNCHANGED phase

\* A start that fails, a script that ends, a process that dies.
End(r) ==
    /\ \E from \in Phases \ {"ended"} : Move(r, from, "ended")
    /\ UNCHANGED ready

Next ==
    \/ Unpack
    \/ \E r \in Runners :
           \/ Discard(r) \/ Discarded(r)
           \/ Look(r) \/ Reject(r) \/ Launch(r) \/ End(r)

Spec == Init /\ [][Next]_cvars
=============================================================================
