------------------------------ MODULE MCPacker ------------------------------
(* Packer alone, with the trees of MCPackTrees. *)
EXTENDS Packer, MCPackTrees
=============================================================================
