------------------------------- MODULE Rendering -------------------------------
(***************************************************************************)
(* The rendering components and the events between them.  A Transform      *)
(* announces a change with an event to its own entity, whose arguments     *)
(* carry position, rotation and scale; the Sprite of the entity applies it *)
(* to its node of the scene graph.  Activation and setRenderingState()     *)
(* tell the engine's broadcaster to put the node into the scene or to take *)
(* it out.                                                                 *)
(*                                                                         *)
(* A transform is the number of changes it went through.  The event stack  *)
(* is what module AtomicStack promises, the top in front, and the argument *)
(* allocator hands out cells in order until it is cleared.  Transforms     *)
(* exist from the start: a sprite looks its transform up when it is        *)
(* constructed (Sprite.cpp:18).                                            *)
(***************************************************************************)
EXTENDS EventArguments, Sequences, FiniteSets

CONSTANTS
  Entities,
  Visible,        \* those that may get a sprite
  Threads,        \* workers that run functions of components, and the main thread
  MaxVersion,     \* bound of the exploration on the changes of a transform
  MaxChanges,     \* the changes of a transform between two distributions
  MaxQueued,      \* bound of the exploration on the engine's queue
  MaxOffstage,    \* bound of the exploration on offstage
  None            \* no entity; no event; no state of a node

ASSUME BoundsAssumption ==
  /\ MaxVersion \in Nat /\ MaxChanges \in Nat /\ MaxQueued \in Nat /\ MaxOffstage \in Nat
  /\ None \notin Entities /\ Visible \subseteq Entities /\ IsFiniteSet(Entities)

\* The identifiers of the arguments of TRANSFORM_CHANGE.
Identifiers == <<"position", "rotation", "scale">>

VARIABLES
  (* Transform *)
  transform,      \* transform[e]: its version
  changes,        \* changes[e]: since the last distribution
  announced,      \* announced[e]: the last version that was broadcast while e had a sprite
  (* Event *)
  local,          \* local[t]: the event a function of t is about to send
  entityEvents,   \* the stack, the last one sent in front
  event,          \* the variable of distributeEntityEvents(), None outside of its scope
  memory, life,   \* the cells of eventArgumentAllocator: argument; "raw", "alive" or "destroyed"
  used,           \* cells handed out
  phase,          \* of the frame
  (* Sprite *)
  stage,          \* stage[e]: "none", "inactive" or "active"
  renderingEnabled,
  offset,         \* offset[e]
  node,           \* node[e]: what entityTransformNode shows
  look, shown,    \* look[e]: the members that renderTransformNode and spriteRenderNode show
  (* The engine *)
  broadcaster,    \* SceneNodeEdited events
  scene,          \* scene[e]: how often a node of e was put into the scene graph, less how
                  \* often it was taken out
  (* History *)
  offstage        \* offstage[e]: how often setRenderingState() changed the state of a sprite
                  \* of e that was not active

transformVars == <<transform, changes, announced>>
eventVars == <<local, entityEvents, event, memory, life, used>>
spriteVars == <<stage, renderingEnabled, offset, node, look, shown>>
sceneVars == <<broadcaster, scene, offstage>>
vars == <<transformVars, eventVars, phase, spriteVars, sceneVars>>

\* Enough for all changes between two distributions.
Cells == 1 .. 3 * MaxChanges * Cardinality(Entities)

Events == [receiver : Entities \cup {None}, arguments : SUBSET Cells]
Arguments == [identifier : {Identifiers[i] : i \in 1 .. 3}, payload : Nat]
NodeStates == [offset : {0, 1}, version : Nat]

ASSUME NoneAssumption == None \notin Events \cup Arguments \cup NodeStates

Init ==
  /\ transform = [e \in Entities |-> 0]
  /\ changes = [e \in Entities |-> 0]
  /\ announced = [e \in Entities |-> 0]
  /\ local = [t \in Threads |-> None]
  /\ entityEvents = <<>>
  /\ event = None
  /\ memory = [c \in Cells |-> None]
  /\ life = [c \in Cells |-> "raw"]
  /\ used = 0
  /\ phase = "open"
  /\ stage = [e \in Entities |-> "none"]
  /\ renderingEnabled = [e \in Entities |-> FALSE]
  /\ offset = [e \in Entities |-> 0]
  /\ node = [e \in Entities |-> None]
  /\ look = [e \in Entities |-> 0]
  /\ shown = [e \in Entities |-> None]
  /\ broadcaster = <<>>
  /\ scene = [e \in Entities |-> 0]
  /\ offstage = [e \in Entities |-> 0]

\* Functions of components run before and in the concurrent phases, in the
\* lifecycle steps, and while an event is handed to the collections.
Running == phase \in {"open", "deliver", "delivered", "lifecycle"}

Destroyed(cells) == life' = [c \in Cells |-> IF c \in cells THEN "destroyed" ELSE life[c]]

-----------------------------------------------------------------------------
(* Transform *)

\* createEntityEvent() and a createEventArgument() for each identifier: the
\* event object of the function, which has returned from the last broadcast.
Announce(t, e) ==
  LET fresh == used + 1 .. used + 3 IN
  /\ fresh \subseteq Cells
  /\ local' = [local EXCEPT ![t] =
       AddArgument(AddArgument(AddArgument(NewEvent(e), used + 1), used + 2), used + 3)]
  /\ memory' = [c \in Cells |-> IF c \in fresh THEN Argument(Identifiers[c - used], transform'[e])
                                ELSE memory[c]]
  /\ life' = [c \in Cells |-> IF c \in fresh THEN "alive" ELSE life[c]]
  /\ used' = used + 3
  /\ announced' = [announced EXCEPT ![e] = IF stage[e] = "none" THEN @ ELSE transform'[e]]
  /\ UNCHANGED <<entityEvents, event>>

\* setPosition, setScale, setRotation and setTransform.
SetTransform(t, e, broadcast) ==
  /\ Running
  /\ local[t] = None
  /\ transform[e] < MaxVersion /\ changes[e] < MaxChanges
  /\ transform' = [transform EXCEPT ![e] = @ + 1]
  /\ changes' = [changes EXCEPT ![e] = @ + 1]
  /\ IF broadcast THEN Announce(t, e) ELSE UNCHANGED <<announced, eventVars>>
  /\ UNCHANGED <<phase, spriteVars, sceneVars>>

\* sendEntityEvent(): the event moves into the parameter, from there into the
\* node of the stack.  The two that it left behind are destroyed.
SendEntityEvent(t) ==
  /\ local[t] # None
  /\ entityEvents' = <<local[t]>> \o entityEvents
  /\ Destroyed(DestroyedBy(MovedFrom(local[t])))
  /\ local' = [local EXCEPT ![t] = None]
  /\ UNCHANGED <<transformVars, event, memory, used, phase, spriteVars, sceneVars>>

-----------------------------------------------------------------------------
(* distributeEntityEvents() *)

Quiet == \A t \in Threads : local[t] = None

\* The lifecycle steps and the phases before this one are over.
StartDistribution ==
  /\ phase = "open" /\ Quiet
  /\ phase' = "pop"
  /\ event' = NewEvent(None)
  /\ UNCHANGED <<transformVars, local, entityEvents, memory, life, used, spriteVars, sceneVars>>

\* pop() assigns the event of the node to the variable; the node is destroyed.
PopEvent ==
  /\ phase = "pop" /\ entityEvents # <<>>
  /\ LET top == Head(entityEvents) IN
       /\ event' = top
       /\ Destroyed(DestroyedByAssign(event, top) \cup DestroyedBy(MovedFrom(top)))
  /\ entityEvents' = Tail(entityEvents)
  /\ phase' = "deliver"
  /\ UNCHANGED <<transformVars, local, memory, used, spriteVars, sceneVars>>

\* Fault: only sprites that are active get the event.
ReceiveIfActive ==
  /\ phase = "deliver"
  /\ LET e == event.receiver
         version == GetArgument(memory, event, "position").payload
     IN node' = IF stage[e] # "active" THEN node
                ELSE [node EXCEPT ![e] = [offset |-> offset[e], version |-> version]]
  /\ phase' = "delivered"
  /\ UNCHANGED <<transformVars, eventVars, stage, renderingEnabled, offset, look, shown, sceneVars>>

\* Sprite::receiveEntityEvent(), if the entity has a sprite, in any stage.
ReceiveEntityEvent ==
  /\ phase = "deliver"
  /\ LET e == event.receiver
         version == GetArgument(memory, event, "position").payload
     IN node' = IF stage[e] = "none" THEN node
                ELSE [node EXCEPT ![e] = [offset |-> offset[e], version |-> version]]
  /\ phase' = "delivered"
  /\ UNCHANGED <<transformVars, eventVars, stage, renderingEnabled, offset, look, shown, sceneVars>>

\* The layers are done; their functions have sent what they created.
NextEvent ==
  /\ phase = "delivered" /\ Quiet
  /\ phase' = "pop"
  /\ UNCHANGED <<transformVars, eventVars, spriteVars, sceneVars>>

\* Fault: the events that were sent meanwhile wait for the next frame, in vain.
EndScopeEarly ==
  /\ phase = "pop"
  /\ Destroyed(DestroyedBy(event) \cup UNION {DestroyedBy(entityEvents[i]) : i \in DOMAIN entityEvents})
  /\ entityEvents' = <<>>
  /\ event' = None
  /\ changes' = [e \in Entities |-> 0]
  /\ phase' = "reclaim"
  /\ UNCHANGED <<transform, announced, local, memory, used, spriteVars, sceneVars>>

\* Fault: the variable lives in the scope of the function.
EndScopeKeeping ==
  /\ phase = "pop" /\ entityEvents = <<>>
  /\ changes' = [e \in Entities |-> 0]
  /\ phase' = "reclaim"
  /\ UNCHANGED <<transform, announced, eventVars, spriteVars, sceneVars>>

\* "Hack, done to ensure that event is destroyed before the
\* eventArgumentAllocator is cleared."
EndScope ==
  /\ phase = "pop" /\ entityEvents = <<>>
  /\ Destroyed(DestroyedBy(event))
  /\ event' = None
  /\ changes' = [e \in Entities |-> 0]
  /\ phase' = "reclaim"
  /\ UNCHANGED <<transform, announced, local, entityEvents, memory, used, spriteVars, sceneVars>>

\* eventArgumentAllocator.clear(), and on to the lifecycle steps.
Reclaim ==
  /\ phase = "reclaim"
  /\ memory' = [c \in Cells |-> None]
  /\ life' = [c \in Cells |-> "raw"]
  /\ used' = 0
  /\ phase' = "lifecycle"
  /\ UNCHANGED <<transformVars, local, entityEvents, event, spriteVars, sceneVars>>

EndFrame ==
  /\ phase = "lifecycle"
  /\ phase' = "open"
  /\ UNCHANGED <<transformVars, eventVars, spriteVars, sceneVars>>

-----------------------------------------------------------------------------
(* Sprite *)

\* The constructor and, with JSON, initialize(), which hands all members to the
\* nodes below entityTransformNode.
CreateSprite(e, json) ==
  /\ phase = "lifecycle" /\ stage[e] = "none"
  /\ stage' = [stage EXCEPT ![e] = "inactive"]
  /\ renderingEnabled' = [renderingEnabled EXCEPT ![e] = json]
  /\ shown' = [shown EXCEPT ![e] = IF json THEN look[e] ELSE None]
  /\ UNCHANGED <<transformVars, eventVars, phase, offset, node, look, sceneVars>>

\* broadcastSceneNodeCreation, broadcastSceneNodeRemoval
Broadcast(e, action) ==
  /\ Len(broadcaster) < MaxQueued
  /\ broadcaster' = Append(broadcaster, <<e, action>>)

Activate(e) ==
  /\ phase = "lifecycle" /\ stage[e] = "inactive"
  /\ stage' = [stage EXCEPT ![e] = "active"]
  /\ IF renderingEnabled[e] THEN Broadcast(e, "CREATE") ELSE UNCHANGED broadcaster
  /\ UNCHANGED <<transformVars, eventVars, phase, renderingEnabled, offset, node, look, shown, scene, offstage>>

\* Fault: the node is taken out whether it is shown or not.
DeactivateAlways(e) ==
  /\ phase = "lifecycle" /\ stage[e] = "active"
  /\ stage' = [stage EXCEPT ![e] = "inactive"]
  /\ Broadcast(e, "REMOVE")
  /\ UNCHANGED <<transformVars, eventVars, phase, renderingEnabled, offset, node, look, shown, scene, offstage>>

Deactivate(e) ==
  /\ phase = "lifecycle" /\ stage[e] = "active"
  /\ stage' = [stage EXCEPT ![e] = "inactive"]
  /\ IF renderingEnabled[e] THEN Broadcast(e, "REMOVE") ELSE UNCHANGED broadcaster
  /\ UNCHANGED <<transformVars, eventVars, phase, renderingEnabled, offset, node, look, shown, scene, offstage>>

\* The manager removes what it has deactivated and hibernated; the events on
\* their way to the sprite find none, or the next one of the entity.
RemoveSprite(e) ==
  /\ phase = "lifecycle" /\ stage[e] = "inactive"
  /\ stage' = [stage EXCEPT ![e] = "none"]
  /\ renderingEnabled' = [renderingEnabled EXCEPT ![e] = FALSE]
  /\ offset' = [offset EXCEPT ![e] = 0]
  /\ node' = [node EXCEPT ![e] = None]
  /\ look' = [look EXCEPT ![e] = 0]
  /\ shown' = [shown EXCEPT ![e] = None]
  /\ announced' = [announced EXCEPT ![e] = 0]
  /\ UNCHANGED <<transform, changes, eventVars, phase, sceneVars>>

\* Fault: the engine is told of every call.
SetRenderingStateAlways(e, state) ==
  /\ Running /\ stage[e] # "none"
  /\ Broadcast(e, IF state THEN "CREATE" ELSE "REMOVE")
  /\ renderingEnabled' = [renderingEnabled EXCEPT ![e] = state]
  /\ UNCHANGED <<transformVars, eventVars, phase, stage, offset, node, look, shown, scene, offstage>>

\* setRenderingState() looks at the state alone: it tells the engine of a change in
\* any stage of the sprite.
SetRenderingState(e, state) ==
  /\ Running /\ stage[e] # "none"
  /\ IF state = renderingEnabled[e] THEN UNCHANGED <<broadcaster, offstage>>
     ELSE /\ Broadcast(e, IF state THEN "CREATE" ELSE "REMOVE")
          /\ offstage' = [offstage EXCEPT ![e] = IF stage[e] = "active" THEN @ ELSE @ + 1]
          /\ offstage'[e] <= MaxOffstage
  /\ renderingEnabled' = [renderingEnabled EXCEPT ![e] = state]
  /\ UNCHANGED <<transformVars, eventVars, phase, stage, offset, node, look, shown, scene>>

\* setOffset() and updateEntityTransform(): the transform as it is now.
SetOffset(e, o) ==
  /\ Running /\ stage[e] # "none"
  /\ offset' = [offset EXCEPT ![e] = o]
  /\ node' = [node EXCEPT ![e] = [offset |-> o, version |-> transform[e]]]
  /\ UNCHANGED <<transformVars, eventVars, phase, stage, renderingEnabled, look, shown, sceneVars>>

\* updateRenderTransform(), onColorChange() and the others: the nodes get a value.
Show(e, v) == shown' = [shown EXCEPT ![e] = v]

\* Fault: the node is updated before the member.
SetLookEarly(e, v, always) ==
  /\ Running /\ stage[e] # "none"
  /\ always \/ look[e] # v
  /\ look' = [look EXCEPT ![e] = v]
  /\ Show(e, look[e])
  /\ UNCHANGED <<transformVars, eventVars, phase, stage, renderingEnabled, offset, node, sceneVars>>

\* setPosition, setRotation, setScale and setRenderLevel return when the value is
\* the old one; colour, centre and flips are always handed on.
SetLook(e, v, always) ==
  /\ Running /\ stage[e] # "none"
  /\ always \/ look[e] # v
  /\ look' = [look EXCEPT ![e] = v]
  /\ Show(e, v)
  /\ UNCHANGED <<transformVars, eventVars, phase, stage, renderingEnabled, offset, node, sceneVars>>

-----------------------------------------------------------------------------
\* The engine handles the queued events in order, between two calls of step().
HandleSceneNodeEdited ==
  /\ phase = "open" /\ broadcaster # <<>>
  /\ LET e == Head(broadcaster)[1] IN
       scene' = [scene EXCEPT ![e] = IF Head(broadcaster)[2] = "CREATE" THEN @ + 1 ELSE @ - 1]
  /\ broadcaster' = Tail(broadcaster)
  /\ UNCHANGED <<transformVars, eventVars, phase, spriteVars, offstage>>

Frame ==
  \/ StartDistribution \/ PopEvent \/ ReceiveEntityEvent \/ NextEvent
  \/ EndScope \/ Reclaim \/ EndFrame

Next ==
  \/ Frame
  \/ HandleSceneNodeEdited
  \/ \E t \in Threads :
       \/ SendEntityEvent(t)
       \/ \E e \in Entities, b \in BOOLEAN : SetTransform(t, e, b)
  \/ \E e \in Entities :
       \/ e \in Visible /\ \E json \in BOOLEAN : CreateSprite(e, json)
       \/ Activate(e)
       \/ Deactivate(e)
       \/ RemoveSprite(e)
       \/ \E state \in BOOLEAN : SetRenderingState(e, state)
       \/ \E o \in {0, 1} : SetOffset(e, o)
       \/ \E v \in {0, 1}, always \in BOOLEAN : SetLook(e, v, always)

\* step() is called again and again, and a function that created an event
\* sends it.
Spec == Init /\ [][Next]_vars /\ WF_vars(Frame) /\ \A t \in Threads : WF_vars(SendEntityEvent(t))

-----------------------------------------------------------------------------
(* Properties. *)

\* Everybody who has a list of arguments: the functions of components, the
\* nodes of the stack and the loop of distributeEntityEvents().
Locals == {t \in Threads : local[t] # None}
ListedBy(c) ==
  Cardinality({t \in Locals : c \in local[t].arguments})
    + Cardinality({i \in DOMAIN entityEvents : c \in entityEvents[i].arguments})
    + (IF event # None /\ c \in event.arguments THEN 1 ELSE 0)

\* However events are moved, an argument that was constructed and not yet
\* destroyed is in the list of one event, and an argument that an event lists is
\* there: none is lost, destroyed twice, or destroyed when the allocator has
\* been cleared.
ArgumentsOwned == \A c \in Cells : ListedBy(c) = IF life[c] = "alive" THEN 1 ELSE 0

\* When the events of a frame are distributed a sprite shows the last change of
\* its transform that was broadcast, or a later state, at its offset.
SpriteFollowsTransform ==
  phase \in {"reclaim", "lifecycle"} =>
    \A e \in Entities : changes[e] = 0 /\ announced[e] # 0 =>
      node[e] # None /\ node[e].version >= announced[e] /\ node[e].offset = offset[e]

\* A node belongs into the scene once if its sprite is active and shown, and not at
\* all otherwise.
Due(e) == IF stage[e] = "active" /\ renderingEnabled[e] THEN 1 ELSE 0

\* When the engine has handled its events a node is in the scene as it should be, and
\* each call of setRenderingState() that changes the state of a sprite which is not
\* active (Sprite.cpp:122) puts it off by one at most: without such calls the nodes
\* are where they belong, and nothing else misplaces them.
ShownOnce ==
  broadcaster = <<>> =>
    \A e \in Entities : scene[e] \in Due(e) - offstage[e] .. Due(e) + offstage[e]

\* "Sets if the object should be rendered or not ... if true the object will be
\* rendered" (Sprite.h:116): the node of a sprite that is active, and whose state is
\* true, is in the scene, once.  The code breaks it: the sprite was shown when it was
\* inactive, and is shown again by its activation.
RenderedOnce ==
  broadcaster = <<>> =>
    \A e \in Entities : stage[e] = "active" /\ renderingEnabled[e] => scene[e] = 1

\* Values that did not change are not handed on, and yet the nodes show what the
\* members say, once they were told at all: a sprite without JSON keeps the
\* nodes' own defaults until one of its setters is called.
LookIsShown == \A e \in Entities : shown[e] \in {None, look[e]}

\* The scene holds the nodes that are to be seen, as they are to be seen.
SceneConsistent == ShownOnce /\ LookIsShown

\* A change that is broadcast is shown, although functions go on sending events
\* while the events are distributed.
ChangeIsShown ==
  \A e \in Visible, v \in 1 .. MaxVersion :
    announced[e] = v ~> stage[e] = "none" \/ (node[e] # None /\ node[e].version >= v)

=============================================================================
