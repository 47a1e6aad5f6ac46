----------------------------- MODULE MCThreadPool -----------------------------
(* Small instances of ThreadPool for TLC. *)
EXTENDS ThreadPool, TLC

\* Workers are interchangeable, and so are tasks.
Symmetry == Permutations(Workers) \cup Permutations(Tasks)
=============================================================================
