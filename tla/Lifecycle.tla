------------------------------ MODULE Lifecycle ------------------------------
(***************************************************************************)
(* What a component collection promises about the stages of its            *)
(* components: a component is created hibernating, and each operation      *)
(* moves the one component it names along one edge of the lifecycle        *)
(*                                                                         *)
(*   absent -> hibernating <-> inactive <-> active                         *)
(*                                                                         *)
(* and touches no other component.  ComponentCollection is shown to        *)
(* implement this specification.                                           *)
(***************************************************************************)

CONSTANT Ids        \* the entities that may own a component of this type

VARIABLE stage      \* stage[c]: where the component of entity c stands

Stages == {"absent", "hibernating", "inactive", "active"}

Init == stage = [c \in Ids |-> "absent"]

Transition(c, from, to) ==
  /\ stage[c] = from
  /\ stage' = [stage EXCEPT ![c] = to]

Create(c)     == Transition(c, "absent", "hibernating")
Awake(c)      == Transition(c, "hibernating", "inactive")
Activate(c)   == Transition(c, "inactive", "active")
Deactivate(c) == Transition(c, "active", "inactive")
Hibernate(c)  == Transition(c, "inactive", "hibernating")
Remove(c)     == Transition(c, stage[c], "absent")

Next ==
  \E c \in Ids :
    \/ Create(c)
    \/ Awake(c)
    \/ Activate(c)
    \/ Deactivate(c)
    \/ Hibernate(c)
    \/ Remove(c)

Spec == Init /\ [][Next]_stage

=============================================================================
