--------------------------- MODULE MCMemorySystem ---------------------------
(***************************************************************************)
(* MemorySystem for TLC: pages of 4 units.                                 *)
(***************************************************************************)
EXTENDS MemorySystem
=============================================================================
