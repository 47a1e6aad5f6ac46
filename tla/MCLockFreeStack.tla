--------------------------- MODULE MCLockFreeStack ---------------------------
(* Small instances of LockFreeStack for TLC. *)
EXTENDS LockFreeStack, TLC

\* Nodes and the threads of one role are interchangeable.
Symmetry == Permutations(Nodes) \cup Permutations(Producers) \cup Permutations(Consumers)
=============================================================================
