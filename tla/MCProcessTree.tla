--------------------------- MODULE MCProcessTree ----------------------------
(* ProcessTree for TLC: what the program starts is interchangeable. *)
EXTENDS ProcessTree, TLC

Symmetric == Permutations(Procs \ {Root})
=============================================================================
