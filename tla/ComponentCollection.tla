------------------------- MODULE ComponentCollection -------------------------
(***************************************************************************)
(* nox::ecs::ComponentCollection: all the components of one type, kept     *)
(* contiguously in one buffer and partitioned by lifecycle stage,          *)
(*                                                                         *)
(*   | active | inactive  | hibernating  | raw memory | swap |             *)
(*   0        ^inactive   ^hibernating   ^memory      ^cap                 *)
(*                                                                         *)
(* together with the SmartHandles that point into it.                      *)
(*                                                                         *)
(* Pointers into the buffer are slot numbers counted from `active'.  The   *)
(* sorted vector componentMap is the partial function from ids to slots    *)
(* that find() computes.  One action is one call of the manager's steps,   *)
(* the hook it runs included; every call runs under the main thread alone. *)
(***************************************************************************)
EXTENDS Integers, FiniteSets

CONSTANTS
  Ids,                \* entities that may own a component of this type
  Handles,            \* handles that the program keeps around
  Raw,                \* content of a slot that holds no component
  MaxGen,             \* bound of the exploration on the generation counter
  RemoveAtAnyStage    \* may the client remove a component that is not hibernating?

ASSUME RawAssumption == Raw \notin Ids
ASSUME BoundAssumption == MaxGen \in Nat
ASSUME ClientAssumption == RemoveAtAnyStage \in BOOLEAN

GrowthFactor == 2     \* GROWTH_FACTOR
Null == -1            \* nullptr

VARIABLES
  slots,         \* the buffer, without the swap slot behind it
  inactive,      \* first slot behind the active area
  hibernating,   \* first slot behind the inactive area
  memory,        \* first slot behind the constructed components
  cap,           \* number of slots
  map,           \* componentMap: where the component of an id lives
  gen,           \* generation, what handles compare themselves with
  buffer,        \* which allocation the buffer is, counting from the first
  handle,        \* handle[h]: the fields of a SmartHandle
  stage          \* history: the stage that the calls on a component put it in

layout == <<inactive, hibernating, memory>>
vars == <<slots, layout, cap, map, gen, buffer, handle, stage>>

Stages == {"absent", "hibernating", "inactive", "active"}
Constructed == DOMAIN map        \* ids that find() finds

-----------------------------------------------------------------------------
(* Initially: an empty buffer of GROWTH_FACTOR slots. *)

\* getComponent(): a handle made now for the component of id.
HandleFor(id) ==
  [id  |-> id,
   gen |-> gen,
   buf |-> buffer,
   at  |-> IF id \in Constructed THEN map[id] ELSE Null]

\* SmartHandle::get(): looked up again when the generation moved on or the
\* handle is null; the stored pointer otherwise.
Refreshed(h) ==
  IF handle[h].gen # gen \/ handle[h].at = Null
  THEN HandleFor(handle[h].id)
  ELSE handle[h]

Init ==
  /\ slots = [i \in 0 .. GrowthFactor - 1 |-> Raw]
  /\ inactive = 0 /\ hibernating = 0 /\ memory = 0
  /\ cap = GrowthFactor
  /\ map = [c \in {} |-> 0]
  /\ gen = 0
  /\ buffer = 0
  /\ handle \in [Handles -> [id : Ids, gen : {0}, buf : {0}, at : {Null}]]
  /\ stage = [c \in Ids |-> "absent"]

-----------------------------------------------------------------------------
(* Creation and removal. *)

\* Construct the component of id in the slot `memory' of the buffer buf.
Construct(buf, id) ==
  /\ slots' = [buf EXCEPT ![memory] = id]
  /\ map' = [c \in Constructed \cup {id} |-> IF c = id THEN memory ELSE map[c]]
  /\ memory' = memory + 1
  /\ stage' = [stage EXCEPT ![id] = "hibernating"]
  /\ UNCHANGED <<inactive, hibernating, handle>>

\* create() and adopt() with room left: nothing moves, so gen stays.
CreateInPlace(id) ==
  /\ stage[id] = "absent"
  /\ memory < cap
  /\ Construct(slots, id)
  /\ UNCHANGED <<cap, gen, buffer>>

\* The buffer that reallocate() allocates: every component moved to the slot
\* of the same number, the new slots raw.
Grown ==
  [i \in 0 .. GrowthFactor * cap - 1 |-> IF i < memory THEN slots[i] ELSE Raw]

\* create() and adopt() into a full buffer: reallocate() first, which bumps gen.
CreateGrowing(id) ==
  /\ stage[id] = "absent"
  /\ memory >= cap
  /\ gen < MaxGen
  /\ Construct(Grown, id)
  /\ cap' = GrowthFactor * cap
  /\ gen' = gen + 1
  /\ buffer' = buffer + 1

\* remove(): the last component fills the hole, whatever area it was in.
Remove(id) ==
  LET hole == map[id]
      last == memory - 1
  IN
  /\ id \in Constructed
  /\ stage[id] = "hibernating" \/ RemoveAtAnyStage
  /\ gen < MaxGen
  /\ memory' = last
  /\ slots' = [slots EXCEPT ![hole] = slots[last], ![last] = Raw]
  /\ map' = [c \in Constructed \ {id} |-> IF c = slots[last] THEN hole ELSE map[c]]
  /\ gen' = gen + 1
  /\ stage' = [stage EXCEPT ![id] = "absent"]
  /\ UNCHANGED <<inactive, hibernating, cap, buffer, handle>>

-----------------------------------------------------------------------------
(* Lifecycle transitions: a boundary moves by one slot and the component   *)
(* trades places with the one in the slot that changed area.               *)

\* Fault: the components trade places, their entries in the map do not.
SwapForgettingMap(id, b) ==
  /\ slots' = [slots EXCEPT ![map[id]] = slots[b], ![b] = id]
  /\ gen' = IF map[id] # b THEN gen + 1 ELSE gen
  /\ UNCHANGED map

\* Fault: handles are not told that components moved.
SwapKeepingGen(id, b) ==
  /\ slots' = [slots EXCEPT ![map[id]] = slots[b], ![b] = id]
  /\ map' = [map EXCEPT ![id] = b, ![slots[b]] = map[id]]
  /\ UNCHANGED gen

\* swap() of the component of id with the one in slot b, and of their entries
\* in the map; gen moves on when something moved.
SwapInto(id, b) ==
  LET other == slots[b]
      from  == map[id]
      to    == map[other]
  IN
  /\ slots' = [slots EXCEPT ![from] = slots[to], ![to] = slots[from]]
  /\ map' = [map EXCEPT ![id] = to, ![other] = from]
  /\ gen' = IF from # to THEN gen + 1 ELSE gen

\* A transition of the component of id out of a stage and through the slot b.
\* The code checks that the component exists and not its stage: the stage is
\* the client's duty.  Outside the constructed slots the lookup of the
\* component in b would dereference an end iterator.
Transition(id, from, to, b) ==
  /\ id \in Constructed
  /\ stage[id] = from
  /\ gen < MaxGen
  /\ b \in 0 .. memory - 1
  /\ slots[b] \in Constructed
  /\ SwapInto(id, b)
  /\ stage' = [stage EXCEPT ![id] = to]
  /\ UNCHANGED <<memory, cap, buffer, handle>>

Awake(id) ==
  /\ Transition(id, "hibernating", "inactive", hibernating)
  /\ hibernating' = hibernating + 1
  /\ UNCHANGED inactive

Activate(id) ==
  /\ Transition(id, "inactive", "active", inactive)
  /\ inactive' = inactive + 1
  /\ UNCHANGED hibernating

Deactivate(id) ==
  /\ Transition(id, "active", "inactive", inactive - 1)
  /\ inactive' = inactive - 1
  /\ UNCHANGED hibernating

\* Fault: the boundary stays, the component trades places all the same.
HibernateKeepingBoundary(id) ==
  /\ Transition(id, "inactive", "hibernating", hibernating - 1)
  /\ UNCHANGED <<inactive, hibernating>>

Hibernate(id) ==
  /\ Transition(id, "inactive", "hibernating", hibernating - 1)
  /\ hibernating' = hibernating - 1
  /\ UNCHANGED inactive

-----------------------------------------------------------------------------
(* Handles. *)

GetComponent(h, id) ==
  /\ handle' = [handle EXCEPT ![h] = HandleFor(id)]
  /\ UNCHANGED <<slots, layout, cap, map, gen, buffer, stage>>

Dereference(h) ==
  /\ handle' = [handle EXCEPT ![h] = Refreshed(h)]
  /\ UNCHANGED <<slots, layout, cap, map, gen, buffer, stage>>

Next ==
  \/ \E id \in Ids :
       \/ CreateInPlace(id)
       \/ CreateGrowing(id)
       \/ Remove(id)
       \/ Awake(id)
       \/ Activate(id)
       \/ Deactivate(id)
       \/ Hibernate(id)
  \/ \E h \in Handles :
       \/ \E id \in Ids : GetComponent(h, id)
       \/ Dereference(h)

Spec == Init /\ [][Next]_vars

-----------------------------------------------------------------------------
(* What the batched calls run over. *)

\* Fault: the wrong boundary: everything that is not hibernating.
AwakeRange == 0 .. hibernating - 1

UpdateRange == 0 .. inactive - 1           \* update(): [active, inactive)
BroadcastRange == 0 .. memory - 1          \* receiveLogicEvent(), broadcast events

-----------------------------------------------------------------------------
(* Properties. *)

TypeOK ==
  /\ cap \in Nat \ {0}
  /\ memory \in 0 .. cap
  /\ inactive \in Int /\ hibernating \in Int
  /\ slots \in [0 .. cap - 1 -> Ids \cup {Raw}]
  /\ Constructed \subseteq Ids
  /\ map \in [Constructed -> 0 .. cap - 1]
  /\ gen \in Nat
  /\ buffer \in Nat
  /\ handle \in [Handles -> [id : Ids, gen : Nat, buf : Nat, at : Nat \cup {Null}]]
  /\ stage \in [Ids -> Stages]

\* The areas lie in the order of the layout drawn in ComponentCollection.h.
LayoutOrdered == 0 <= inactive /\ inactive <= hibernating /\ hibernating <= memory

\* The map and the buffer describe each other: an entry leads to a constructed
\* slot that holds the component of that id, and every constructed slot is
\* found through the map.  find(slot->id) relies on it.
MapMatchesSlots ==
  /\ \A c \in Constructed : map[c] < memory /\ slots[map[c]] = c
  /\ \A i \in 0 .. memory - 1 : slots[i] \in Constructed /\ map[slots[i]] = i

AreaOf(i) ==
  IF i < inactive THEN "active" ELSE IF i < hibernating THEN "inactive" ELSE "hibernating"

LayoutStage == [c \in Ids |-> IF c \in Constructed THEN AreaOf(map[c]) ELSE "absent"]

\* Every component lies in the area of the stage its hooks put it in, so a
\* batched call over an area reaches the components of that stage.
AreaMatchesStage == stage = LayoutStage

\* The component in the slot that changes area is always found: awake() and
\* the other three look it up by its id and never test the result for end().
BoundaryLookupsHit ==
  \A c \in Ids :
    /\ stage[c] = "hibernating" => hibernating < memory
    /\ stage[c] = "inactive"    => inactive < memory /\ hibernating \in 1 .. memory
    /\ stage[c] = "active"      => inactive \in 1 .. memory

\* What a handle's get() returns is the component of its id where it lives now,
\* or null when there is none: a handle whose generation is current is never
\* stale (SmartHandle::get() skips the lookup then).
HandlesNeverStale ==
  \A h \in Handles :
    LET p == Refreshed(h) IN
    IF handle[h].id \in Constructed
    THEN p.buf = buffer /\ p.at = map[handle[h].id]
    ELSE p.at = Null

\* update() reaches the active components, all of them and no other; events
\* reach every live component.
BatchedCallsReach ==
  /\ {slots[i] : i \in UpdateRange} = {c \in Ids : stage[c] = "active"}
  /\ {slots[i] : i \in BroadcastRange} = {c \in Ids : stage[c] # "absent"}

\* The layout implements the lifecycle: a call moves its own component along
\* one edge, and no call moves another component to another area.
Stage == INSTANCE Lifecycle WITH stage <- LayoutStage
ImplementsLifecycle == Stage!Spec

\* A handle of the current generation points at its component.
HandleFresh(h) ==
  /\ handle[h].gen <= gen
  /\ handle[h].gen = gen /\ handle[h].at # Null =>
       /\ handle[h].buf = buffer
       /\ handle[h].id \in Constructed
       /\ handle[h].at = map[handle[h].id]

\* Inductive for every client: the storage, the map and the handles stay sound
\* whichever stage a component is removed from.
StorageInv ==
  /\ TypeOK
  /\ MapMatchesSlots
  /\ \A h \in Handles : HandleFresh(h)
  /\ \A c \in Ids : stage[c] = "absent" <=> c \notin Constructed

\* Inductive for a client that removes hibernating components only.
IInv ==
  /\ StorageInv
  /\ LayoutOrdered
  /\ AreaMatchesStage

=============================================================================
