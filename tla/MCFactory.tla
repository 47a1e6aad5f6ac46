------------------------------ MODULE MCFactory ------------------------------
(* Small instances of Factory for TLC. *)
EXTENDS Factory

CONSTANTS leaf, base, derived, missing, sprite, transform, x, y

FourNames == {leaf, base, derived, missing}

Definition(name, extend, children, components) ==
  [name |-> name, extend |-> extend, children |-> children, components |-> components]
Object(ks, v) == [k \in ks |-> v]

\* A chain of extensions that ends with an unknown name, children of children,
\* lists of children of different lengths, members that overlap partly, a type
\* given by number, two definitions of the same name.  `missing' is defined by
\* nobody, the others may be missing too.
SmallCatalogue ==
  {Definition(leaf, None, None, [c \in {} |-> <<>>]),
   Definition(base, missing, <<missing, leaf>>, [c \in {sprite} |-> Object({x, y}, 2)]),
   Definition(derived, base, <<leaf>>,
     [c \in {sprite, transform} |-> Object(IF c = sprite THEN {y, Identifier} ELSE {x}, 3)]),
   Definition(derived, None, <<base>>, [c \in {} |-> <<>>])}

\* What the theorems about Factory ask of the definitions.
ASSUME NoFamilyByHand
=============================================================================
