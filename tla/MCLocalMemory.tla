--------------------------- MODULE MCLocalMemory ---------------------------
(* Instances of LocalMemory.  Blocks are numbers. *)
EXTENDS LocalMemory
=============================================================================
