------------------------ MODULE MCComponentCollection ------------------------
(* Small instances of ComponentRegistry for TLC. *)
EXTENDS ComponentRegistry

\* Three components outgrow the first buffer (GROWTH_FACTOR slots), so every
\* instance reallocates; two components of a stage make swaps move something.
ThreeOutgrowTheBuffer == Cardinality(Ids) > GrowthFactor
ASSUME ThreeOutgrowTheBuffer
=============================================================================
