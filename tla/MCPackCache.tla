---------------------------- MODULE MCPackCache -----------------------------
(* PackCache for TLC: processes are interchangeable. *)
EXTENDS PackCache, TLC

Symmetric == Permutations(Runners)
=============================================================================
