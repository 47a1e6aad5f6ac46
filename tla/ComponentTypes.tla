---------------------------- MODULE ComponentTypes ----------------------------
(***************************************************************************)
(* How a component class becomes an input of the execution layers:         *)
(* createMetaInformation looks for the functions of Component that the     *)
(* class overrides, the author of the class declares what they access, and *)
(* configureComponents reads the result with three getters per phase.      *)
(*                                                                         *)
(* A class is [type, overridden, access, deps]: the functions it defines   *)
(* itself and, for each phase, what its author declares.  "undeclared"     *)
(* leaves the field of MetaInformation as it was created.                  *)
(***************************************************************************)
EXTENDS Naturals

Accesses == {"UNKNOWN", "INDEPENDENT", "READ_ONLY", "READ_WRITE"}

\* The functions that a step executes for whole collections.
Phases == {"update", "receiveLogicEvent", "receiveEntityEvent"}

\* The empty functions of Component that a class may override.
Hooks == Phases \cup {"initialize", "awake", "activate", "deactivate", "hibernate"}

Classes ==
  [type : Nat, overridden : SUBSET Hooks,
   access : [Phases -> Accesses \cup {"undeclared"}], deps : [Phases -> SUBSET Nat]]

\* The pointers that are set for every class.
Always == {"construct", "destruct", "moveConstruct", "moveAssign"}

\* nullptr when &T::hook is &Component::hook, a call of it otherwise.
GetOperation(class, hook) == IF hook \in class.overridden THEN "call" ELSE "nullptr"

\* Fault: the operands of the conditional operator are swapped.
SwappedDefaults(class) ==
  LET set == Always \cup {h \in Hooks : GetOperation(class, h) # "nullptr"} IN
  [type |-> class.type, set |-> set, deps |-> [p \in Phases |-> {}],
   access |-> [p \in Phases |-> IF p \in set THEN "INDEPENDENT" ELSE "UNKNOWN"]]

\* MetaInformation: the pointers that are not null, and the defaults of what
\* the author may declare.  A phase without a function is INDEPENDENT.
CreateMetaInformation(class) ==
  LET set == Always \cup {h \in Hooks : GetOperation(class, h) # "nullptr"} IN
  [type |-> class.type, set |-> set, deps |-> [p \in Phases |-> {}],
   access |-> [p \in Phases |-> IF p \in set THEN "UNKNOWN" ELSE "INDEPENDENT"]]

\* The author assigns to the fields before registerComponent().
Declared(class) ==
  LET info == CreateMetaInformation(class) IN
  [info EXCEPT !.deps = class.deps,
               !.access = [p \in Phases |-> IF class.access[p] = "undeclared" THEN info.access[p]
                                            ELSE class.access[p]]]

\* Fault: the getter of another phase was left in place.
GetDataAccessOfUpdate(info, phase) == info.access["update"]

\* The getters that configureComponents() passes on for each phase.
GetDataAccess(info, phase) == info.access[phase]
GetDependencies(info, phase) == info.deps[phase]
ShouldBeExecuted(info, phase) == phase \in info.set

\* What the execution layers of a phase are made from.
LayerInput(class, phase) ==
  LET info == Declared(class) IN
  [type |-> info.type, access |-> GetDataAccess(info, phase),
   deps |-> GetDependencies(info, phase), executed |-> ShouldBeExecuted(info, phase)]

=============================================================================
