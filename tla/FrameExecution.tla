---------------------------- MODULE FrameExecution ----------------------------
(***************************************************************************)
(* The concurrent part of EntityManager::step(): distributeLogicEvents(),  *)
(* updateStep() and distributeEntityEvents() with layered execution turned *)
(* on.  For every event, and for the update, the thread that calls step()  *)
(* hands the collections of one layer after the other to the pool and      *)
(* waits for it.  The functions that the pool runs send events.            *)
(*                                                                         *)
(* The pool is what module TaskPool promises (ThreadPool implements it),   *)
(* the layers are what module ExecutionLayers computes.  The stacks of     *)
(* events are sets: no property depends on their order.                    *)
(***************************************************************************)
EXTENDS ComponentTypes, Integers, Sequences

CONSTANTS
  Collections,     \* the component collections
  Layers,          \* Layers[p]: the execution layers of phase p
  ReadPairs,       \* ReadPairs[p]: pairs of collections; the first reads the second
  LogicEvents,     \* events of the engine
  EntityEvents,    \* events between components
  MaxFrames,       \* bound of the exploration on calls of step()
  None,            \* no event; nobody
  Main             \* the thread that calls step()

\* Layers of collections: disjoint, and none holds a reader beside what it reads.
LayersOf(collections, pairs, layers) ==
  /\ layers \in Seq(SUBSET collections)
  /\ \A k \in DOMAIN layers : \A c, d \in layers[k] : <<c, d>> \notin pairs
  /\ \A k, l \in DOMAIN layers : k # l => layers[k] \cap layers[l] = {}

ASSUME LayersAssumption ==
  \A p \in Phases : LayersOf(Collections, ReadPairs[p], Layers[p])
ASSUME MaxFramesAssumption == MaxFrames \in Nat

Frames == 1 .. MaxFrames
Events == LogicEvents \cup EntityEvents

ASSUME EventsAssumption ==
  /\ LogicEvents \cap EntityEvents = {} /\ Events \cap Frames = {}
  /\ None \notin Events \cup Frames

\* What the layers are run for: an event, or the update of a frame.
Jobs == Events \cup Frames
Tasks == Jobs \X Collections

VARIABLES
  status, waiting,    \* of the pool, see TaskPool
  phase,              \* what step() does; "idle" outside of it, lifecycle steps included
  frame,              \* calls of step() so far
  event,              \* the variable `event' that tasks refer to; in the update, the frame
  layer,              \* the layer that is run for it
  eventState,         \* eventState[e]: "new", "held", "queued" or "taken"
  maker,              \* maker[e]: who holds the event e and will send it
  cleared,            \* how often eventArgumentAllocator was cleared
  allocated           \* allocated[e]: the value of `cleared' when its arguments were made

poolVars == <<status, waiting>>
stepVars == <<phase, frame, event, layer, cleared>>
eventVars == <<eventState, maker, allocated>>
frameVars == <<poolVars, stepVars, eventVars>>

Pool == INSTANCE TaskPool

FrameInit ==
  /\ Pool!Init
  /\ phase = "idle"
  /\ frame = 0
  /\ event = None
  /\ layer = 0
  /\ cleared = 0
  /\ eventState = [e \in Events |-> "new"]
  /\ maker = [e \in EntityEvents |-> None]
  /\ allocated = [e \in EntityEvents |-> 0]

LayerCount == IF phase \in Phases THEN Len(Layers[phase]) ELSE 0
InLayer == event # None /\ layer <= LayerCount
LayerTasks == {<<event, c>> : c \in Layers[phase][layer]}
Queued(es) == {e \in es : eventState[e] = "queued"}

\* A function of a component runs on a worker, or code runs between frames.
Running(who) == IF who = Main THEN phase = "idle" ELSE status[who] = "running"

-----------------------------------------------------------------------------
(* Events *)

\* onEvent()
OnEvent(who, e) ==
  /\ Running(who)
  /\ eventState[e] = "new"
  /\ eventState' = [eventState EXCEPT ![e] = "queued"]
  /\ UNCHANGED <<poolVars, stepVars, maker, allocated>>

\* createEntityEvent(), and the arguments that are created for the event.
CreateEntityEvent(who, e) ==
  /\ Running(who)
  /\ eventState[e] = "new"
  /\ eventState' = [eventState EXCEPT ![e] = "held"]
  /\ maker' = [maker EXCEPT ![e] = who]
  /\ allocated' = [allocated EXCEPT ![e] = cleared]
  /\ UNCHANGED <<poolVars, stepVars>>

SendEntityEvent(e) ==
  /\ eventState[e] = "held"
  /\ Running(maker[e])
  /\ eventState' = [eventState EXCEPT ![e] = "queued"]
  /\ maker' = [maker EXCEPT ![e] = None]
  /\ UNCHANGED <<poolVars, stepVars, allocated>>

\* A function sends the events it creates before it returns.
HoldsNone(who) == \A e \in EntityEvents : maker[e] # who

-----------------------------------------------------------------------------
(* Workers *)

Take(t) == Pool!Take(t) /\ UNCHANGED <<stepVars, eventVars>>

Finish(t) == Pool!Finish(t) /\ HoldsNone(t) /\ UNCHANGED <<stepVars, eventVars>>

-----------------------------------------------------------------------------
(* step() *)

Start ==
  /\ phase = "idle"
  /\ frame < MaxFrames
  /\ HoldsNone(Main)
  /\ phase' = "receiveLogicEvent"
  /\ frame' = frame + 1
  /\ UNCHANGED <<poolVars, event, layer, cleared, eventVars>>

\* The layers are run for the job j.
Run(j) == event' = j /\ layer' = 1

\* Fault: the event is looked at and stays on the stack.
PopPeeking ==
  /\ event = None
  /\ \E e \in Queued(IF phase = "receiveLogicEvent" THEN LogicEvents ELSE EntityEvents) :
       /\ phase \in {"receiveLogicEvent", "receiveEntityEvent"}
       /\ Run(e)
  /\ UNCHANGED <<poolVars, phase, frame, cleared, eventVars>>

\* An event is popped into the variable `event'.
PopEvent ==
  /\ event = None
  /\ \E e \in Queued(IF phase = "receiveLogicEvent" THEN LogicEvents ELSE EntityEvents) :
       /\ phase \in {"receiveLogicEvent", "receiveEntityEvent"}
       /\ Run(e)
       /\ eventState' = [eventState EXCEPT ![e] = "taken"]
  /\ UNCHANGED <<poolVars, phase, frame, cleared, maker, allocated>>

AddTask(c) ==
  /\ InLayer
  /\ c \in Layers[phase][layer]
  /\ Pool!Add(<<event, c>>)
  /\ UNCHANGED <<stepVars, eventVars>>

AllAdded == \A t \in LayerTasks : status[t] # "new"

Wait ==
  /\ InLayer
  /\ AllAdded
  /\ Pool!WaitCall
  /\ UNCHANGED <<stepVars, eventVars>>

\* Fault: one wait() behind the last layer.
NextLayerAtOnce ==
  /\ IF layer = LayerCount
     THEN Pool!WaitReturn
     ELSE InLayer /\ AllAdded /\ ~waiting /\ UNCHANGED poolVars
  /\ layer' = layer + 1
  /\ UNCHANGED <<phase, frame, event, cleared, eventVars>>

\* Fault: no wait() behind the last layer.
NextLayerLeaving ==
  /\ IF layer # LayerCount
     THEN Pool!WaitReturn
     ELSE InLayer /\ AllAdded /\ ~waiting /\ UNCHANGED poolVars
  /\ layer' = layer + 1
  /\ UNCHANGED <<phase, frame, event, cleared, eventVars>>

\* wait() returned: on to the next layer.
NextLayer ==
  /\ Pool!WaitReturn
  /\ layer' = layer + 1
  /\ UNCHANGED <<phase, frame, event, cleared, eventVars>>

LayersDone == event # None /\ layer > LayerCount

EndEvent ==
  /\ phase \in {"receiveLogicEvent", "receiveEntityEvent"}
  /\ LayersDone
  /\ event' = None
  /\ UNCHANGED <<poolVars, phase, frame, layer, cleared, eventVars>>

\* The last logic event was distributed: updateStep().
StartUpdate ==
  /\ phase = "receiveLogicEvent"
  /\ event = None /\ Queued(LogicEvents) = {}
  /\ phase' = "update"
  /\ Run(frame)
  /\ UNCHANGED <<poolVars, frame, cleared, eventVars>>

\* The update is done: distributeEntityEvents().
EndUpdate ==
  /\ phase = "update"
  /\ LayersDone
  /\ phase' = "receiveEntityEvent"
  /\ event' = None
  /\ UNCHANGED <<poolVars, frame, layer, cleared, eventVars>>

\* Fault: a single pass over the events that were there to begin with.
EndFrameEarly ==
  /\ phase = "receiveEntityEvent"
  /\ event = None
  /\ phase' = "idle"
  /\ cleared' = cleared + 1
  /\ UNCHANGED <<poolVars, frame, event, layer, eventVars>>

\* The last entity event was distributed and destroyed, the memory of the
\* arguments is reused, and the lifecycle steps follow.
EndFrame ==
  /\ phase = "receiveEntityEvent"
  /\ event = None /\ Queued(EntityEvents) = {}
  /\ phase' = "idle"
  /\ cleared' = cleared + 1
  /\ UNCHANGED <<poolVars, frame, event, layer, eventVars>>

StepThread ==
  \/ PopEvent
  \/ \E c \in Collections : AddTask(c)
  \/ Wait
  \/ NextLayer
  \/ EndEvent
  \/ StartUpdate
  \/ EndUpdate
  \/ EndFrame

FrameNext ==
  \/ Start
  \/ StepThread
  \/ \E t \in Tasks : Take(t) \/ Finish(t)
  \/ \E who \in Tasks \cup {Main} :
       \/ \E e \in LogicEvents : OnEvent(who, e)
       \/ \E e \in EntityEvents : CreateEntityEvent(who, e)
  \/ \E e \in EntityEvents : SendEntityEvent(e)

FrameSpec == FrameInit /\ [][FrameNext]_frameVars

\* The thread in step() is scheduled, the pool runs its tasks
\* (ThreadPool: TasksLeaveQueue), and a function that started returns.
FrameFairSpec ==
  /\ FrameSpec
  /\ WF_frameVars(StepThread)
  /\ \A t \in Tasks : WF_frameVars(Take(t)) /\ WF_frameVars(Finish(t))
  /\ \A e \in EntityEvents : WF_frameVars(SendEntityEvent(e))

-----------------------------------------------------------------------------
(* Properties. *)

FrameTypeOK ==
  /\ status \in [Tasks -> Pool!Statuses]
  /\ waiting \in BOOLEAN
  /\ phase \in Phases \cup {"idle"}
  /\ frame \in 0 .. MaxFrames
  /\ event \in Jobs \cup {None}
  /\ layer \in 0 .. LayerCount + 1 \/ event = None
  /\ eventState \in [Events -> {"new", "held", "queued", "taken"}]
  /\ maker \in [EntityEvents -> Tasks \cup {Main, None}]
  /\ cleared \in 0 .. MaxFrames
  /\ allocated \in [EntityEvents -> 0 .. MaxFrames]

Unfinished(t) == status[t] \in {"queued", "running"}

\* Tasks refer to the variable `event' of the loop: as long as one of them is
\* not done the variable holds the event that the task was made for.
EventStable == \A t \in Tasks : Unfinished(t) => t[1] = event

\* Collections that read each other are never executed at the same time, in
\* this phase or across phases.
NoConcurrentReader ==
  \A t, u \in Tasks :
    status[t] = "running" /\ status[u] = "running" /\ phase \in Phases
      => <<t[2], u[2]>> \notin ReadPairs[phase]

\* Outside of the concurrent phases no worker touches a collection: the
\* lifecycle steps move components and are not synchronised with anybody.
CollectionsExclusive == phase = "idle" => \A t \in Tasks : ~Unfinished(t)

\* A collection has no second user that reads or moves what it works on.
ExclusiveAccess == NoConcurrentReader /\ CollectionsExclusive

\* The arguments of an event are there until the last receiver has seen it.
ArgumentsAlive ==
  \A e \in EntityEvents :
    eventState[e] \in {"held", "queued"} \/ event = e => allocated[e] = cleared

\* All collections of all layers got the event, once the next is looked at.
HeardByAll ==
  \A e \in Events : eventState[e] = "taken" /\ event # e =>
    LET p == IF e \in LogicEvents THEN "receiveLogicEvent" ELSE "receiveEntityEvent" IN
    \A k \in DOMAIN Layers[p] : \A c \in Layers[p][k] : status[<<e, c>>] = "done"

\* A call of step() returns, although the functions it runs send events.
StepReturns == phase = "receiveLogicEvent" ~> phase = "idle"

=============================================================================
