--------------------------- MODULE MCEntityManager ---------------------------
(* Small instances of EntityManager for TLC. *)
EXTENDS EntityManager

CONSTANTS sprite, transform

TwoTypes == {sprite, transform}
=============================================================================
