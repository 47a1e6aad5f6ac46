---------------------------- MODULE EntityManager ----------------------------
(***************************************************************************)
(* nox::ecs::EntityManager: requests to create, remove and move components *)
(* between their stages are queued by anyone at any time, and served by    *)
(* step(), one kind after the other, each against the collection of the    *)
(* component's type.                                                       *)
(*                                                                         *)
(* The queues are lock-free stacks (module LockFreeStack): a push is one   *)
(* action.  No property depends on the order among the requests of one     *)
(* kind, so a queue is the set of the components asked for.  A collection  *)
(* is what module Lifecycle says of it.                                    *)
(***************************************************************************)
EXTENDS Integers, Sequences, FiniteSets

CONSTANTS
  MaxIds,         \* bound of the exploration on createEntity()
  Types,          \* the registered component types
  MaxPending      \* bound of the exploration on the requests that are queued

ASSUME MaxIdsAssumption == MaxIds \in Nat
ASSUME MaxPendingAssumption == MaxPending \in Nat

VARIABLES
  currentEntityId,   \* the ids below it are taken
  requests,          \* requests[k]: components with a queued request of kind k
  stage,             \* stage[c]: where the component stands in its collection
  at,                \* the lifecycle step that runs; 0: none, events and update included
  hook,              \* during a lifecycle step: does a function of a component run?
  state,             \* of the manager: "running", "destroying" or "destroyed"
  goal,              \* history: stage[c] once what the client asked for is served
  late               \* history: late[k]: asked for after the step k of this frame

vars == <<currentEntityId, requests, stage, at, hook, state, goal, late>>

Ids == 0 .. MaxIds - 1
Components == Ids \X Types
Stages == {"absent", "hibernating", "inactive", "active"}
Kinds == {"deactivate", "hibernate", "remove", "create", "awake", "activate"}

\* Fault: removal before hibernation.
OrderRemoveFirst == <<"deactivate", "remove", "hibernate", "create", "awake", "activate">>

\* The steps that step() runs after the events and the update.
Order == <<"deactivate", "hibernate", "remove", "create", "awake", "activate">>

\* The steps that ~EntityManager() runs.
LastSteps == <<"deactivate", "hibernate", "remove">>

Steps == IF state = "running" THEN Order ELSE LastSteps

\* The edge of the lifecycle that a call on a collection takes.
From == [deactivate |-> "active", hibernate |-> "inactive", remove |-> "hibernating",
         create |-> "absent", awake |-> "hibernating", activate |-> "inactive"]
To == [deactivate |-> "inactive", hibernate |-> "hibernating", remove |-> "absent",
       create |-> "hibernating", awake |-> "inactive", activate |-> "active"]

Init ==
  /\ currentEntityId = 0
  /\ requests = [k \in Kinds |-> {}]
  /\ stage = [c \in Components |-> "absent"]
  /\ at = 0
  /\ hook = FALSE
  /\ state = "running"
  /\ goal = [c \in Components |-> "absent"]
  /\ late = [k \in Kinds |-> {}]

-----------------------------------------------------------------------------
(* The client: game code, hooks, update and event functions.  It knows the *)
(* order documented for step() (EntityManager.h) and asks for a change of  *)
(* stage when the component will be in the stage the change starts from.   *)

Position == [deactivate |-> 1, hibernate |-> 2, remove |-> 3,
             create |-> 4, awake |-> 5, activate |-> 6]

\* How many steps from now the requests of kind k are served.
Turn(k) == (Position[k] - at) % 7

\* Everything asked for c before is served before a request of kind k.
InTurn(c, k) == \A j \in Kinds : c \in requests[j] => Turn(j) < Turn(k)

Asks(c, k) == goal[c] = From[k] /\ InTurn(c, k)

\* A request for a component that does not exist comes to nothing.
AsksInVain(c, k) == goal[c] = "absent" /\ k # "create" /\ InTurn(c, k)

Pending == UNION {{<<k, c>> : c \in requests[k]} : k \in Kinds}

\* Between the lifecycle steps of two frames anyone asks.  During these steps
\* the thread that runs them is alone, and asks from within a hook.
Listening == state # "destroyed" /\ (at = 0 \/ hook)

\* The requests of kind k for the components cs are queued.
Queue(cs, k) ==
  /\ Listening
  /\ Cardinality(Pending) + Cardinality(cs) <= MaxPending
  /\ requests' = [requests EXCEPT ![k] = @ \cup cs]
  /\ goal' = [c \in Components |-> IF c \in cs /\ Asks(c, k) THEN To[k] ELSE goal[c]]
  /\ late' = [late EXCEPT ![k] = IF at > Position[k] THEN @ \cup cs ELSE @]
  /\ UNCHANGED <<currentEntityId, stage, at, hook, state>>

-----------------------------------------------------------------------------
(* Operations. *)

CreateEntity ==
  /\ Listening
  /\ currentEntityId < MaxIds
  /\ currentEntityId' = currentEntityId + 1
  /\ UNCHANGED <<requests, stage, at, hook, state, goal, late>>

\* assignComponent(), removeComponent(), awakeComponent(), activateComponent(),
\* deactivateComponent() and hibernateComponent().
RequestComponent(c, k) ==
  /\ c[1] < currentEntityId
  /\ Asks(c, k)
  /\ Queue({c}, k)

\* removeEntity(), awakeEntity(), activateEntity(), deactivateEntity() and
\* hibernateEntity(): a request for every registered type, whether the entity
\* has a component of that type or not.
RequestEntity(id, k) ==
  /\ id < currentEntityId
  /\ k # "create"
  /\ \A t \in Types : Asks(<<id, t>>, k) \/ AsksInVain(<<id, t>>, k)
  /\ Queue({id} \X Types, k)

\* The calls of class Entity, which forward to these with the id of the entity.
EntityCall(id, k) == RequestEntity(id, k) \/ \E t \in Types : RequestComponent(<<id, t>>, k)

-----------------------------------------------------------------------------
(* step() and the destructor. *)

StartFrame ==
  /\ at = 0
  /\ state = "running"
  /\ at' = 1
  /\ late' = [k \in Kinds |-> {}]
  /\ UNCHANGED <<currentEntityId, requests, stage, hook, state, goal>>

\* The steps pop until pop() returns false.
Served(k) == at # 0 /\ k = Steps[at]

\* Fault: the request for a component that is not found is pushed again.
ServeRetrying(k, c) ==
  /\ Served(k)
  /\ c \in requests[k]
  /\ IF stage[c] = "absent" /\ k # "create"
     THEN UNCHANGED <<requests, stage, hook>>
     ELSE /\ hook' = TRUE
          /\ requests' = [requests EXCEPT ![k] = @ \ {c}]
          /\ stage' = [stage EXCEPT ![c] = To[k]]
  /\ UNCHANGED <<currentEntityId, at, state, goal, late>>

\* One iteration: the call on the collection, which ignores a component it
\* does not find, and otherwise runs the hook of the component.
Serve(k, c) ==
  /\ Served(k)
  /\ c \in requests[k]
  /\ requests' = [requests EXCEPT ![k] = @ \ {c}]
  /\ stage' = IF stage[c] = "absent" /\ k # "create"
              THEN stage
              ELSE [stage EXCEPT ![c] = To[k]]
  /\ hook' = (stage' # stage)
  /\ UNCHANGED <<currentEntityId, at, state, goal, late>>

\* Fault: a step serves what it likes.
EndStepEarly ==
  /\ at # 0
  /\ at' = IF at = Len(Steps) THEN 0 ELSE at + 1
  /\ hook' = FALSE
  /\ state' = IF state = "destroying" /\ at = Len(Steps) THEN "destroyed" ELSE state
  /\ UNCHANGED <<currentEntityId, requests, stage, goal, late>>

\* The queue is empty: it is cleared, and the next step begins.
EndStep ==
  /\ at # 0
  /\ requests[Steps[at]] = {}
  /\ at' = IF at = Len(Steps) THEN 0 ELSE at + 1
  /\ hook' = FALSE
  /\ state' = IF state = "destroying" /\ at = Len(Steps) THEN "destroyed" ELSE state
  /\ UNCHANGED <<currentEntityId, requests, stage, goal, late>>

\* Fault: the loop over the ids ends one too early.
DestroyExisting ==
  /\ at = 0
  /\ state = "running"
  /\ state' = "destroying"
  /\ at' = 1
  /\ requests' = [requests EXCEPT !["remove"] = @ \cup
       {c \in Components : c[1] < currentEntityId - 1}]
  /\ goal' = [c \in Components |-> "absent"]
  /\ UNCHANGED <<currentEntityId, stage, hook, late>>

\* ~EntityManager(): removal of every entity is queued, whatever the stage of
\* its components.  (goal: from here on, nothing is promised but the removal.)
Destroy ==
  /\ at = 0
  /\ state = "running"
  /\ state' = "destroying"
  /\ at' = 1
  /\ requests' = [requests EXCEPT !["remove"] = @ \cup
       {c \in Components : c[1] < currentEntityId}]
  /\ goal' = [c \in Components |-> "absent"]
  /\ UNCHANGED <<currentEntityId, stage, hook, late>>

Manager ==
  \/ StartFrame
  \/ \E k \in Kinds, c \in Components : Serve(k, c)
  \/ EndStep

Next ==
  \/ Manager
  \/ CreateEntity
  \/ \E k \in Kinds, id \in Ids : EntityCall(id, k)
  \/ Destroy

Spec == Init /\ [][Next]_vars

\* The engine calls step() once per frame, and the steps are loops of the
\* thread that called it.  Nobody has to ask for anything.
FairSpec == Spec /\ WF_vars(Manager)

-----------------------------------------------------------------------------
(* Properties. *)

TypeOK ==
  /\ currentEntityId \in 0 .. MaxIds
  /\ requests \in [Kinds -> SUBSET Components]
  /\ stage \in [Components -> Stages]
  /\ at \in 0 .. 6
  /\ hook \in BOOLEAN
  /\ state \in {"running", "destroying", "destroyed"}
  /\ goal \in [Components -> Stages]
  /\ late \in [Kinds -> SUBSET Components]

\* Every call finds the component in the stage the call starts from: the
\* collections do not check it, and move a boundary past the wrong component
\* otherwise.  The destructor removes components at any stage.
CallsLegal ==
  \A k \in Kinds : Served(k) =>
    \A c \in requests[k] :
      \/ stage[c] = From[k]
      \/ stage[c] = "absent" /\ k # "create"
      \/ state = "destroying" /\ k = "remove"

\* When nothing is queued for a component, it is where the client wants it:
\* requests of several kinds are served in the order they were meant.
GoalReached ==
  state = "running" =>
    \A c \in Components : (\A k \in Kinds : c \notin requests[k]) => stage[c] = goal[c]

\* What was asked for before a step of the frame is served by it, requests that
\* hooks make during the step included.
ServedInFrame ==
  state = "running" => \A k \in Kinds : at > Position[k] => requests[k] \subseteq late[k]

\* The destructor leaves no component behind.
DestroyedEmpty == state = "destroyed" => \A c \in Components : stage[c] = "absent"

\* The loops of a frame end, although the hooks they run ask for more (so no
\* request is forgotten: see ServedInFrame).
FramesEnd == []<>(at = 0)

=============================================================================
