----------------------------- MODULE MCAllocators -----------------------------
(* Small instances of the two allocators for TLC. *)
EXTENDS Allocators

CONSTANTS b1, b2, b3, b4

\* One block from the constructor, as in every use that the program makes.
OneBlock == <<b1>>
=============================================================================
