--------------------------- MODULE ComponentRegistry ---------------------------
(***************************************************************************)
(* The objects behind module ComponentCollection.  A collection keeps its  *)
(* components in raw memory and runs their constructors, destructors and   *)
(* moves itself; the collections lie in the vector that                    *)
(* EntityManager::registerComponent() appends to, and are moved whenever   *)
(* that vector grows.                                                      *)
(*                                                                         *)
(* A cell is a slot of a buffer, the swap slot behind the others included. *)
(* An object in it is [id, family]: family stands for what one object at a *)
(* time can have, as the list of a Children component.                     *)
(***************************************************************************)
EXTENDS ComponentCollection

CONSTANTS
  None,             \* the family of an object that was moved from
  MaxMoves          \* bound of the exploration on the moves of the collection

ASSUME NoneAssumption == None \notin Ids
ASSUME MovesAssumption == MaxMoves \in Nat

VARIABLES
  cells,            \* the cells of all buffers that are not freed: an object or Raw
  active,           \* the buffer of the collection; Null once it is destroyed
  moves,            \* of the collection; 0: it is the argument of push_back()
  referenced,       \* was a handle made, which holds the address of the collection?
  lost              \* history: objects that no destructor has seen, without their memory

registryVars == <<cells, active, moves, referenced, lost>>
allVars == <<vars, registryVars>>

\* A new buffer of n slots and the swap slot.
Malloc(cs, b, n) == [c \in DOMAIN cs \cup ({b} \X (0 .. n)) |-> IF c \in DOMAIN cs THEN cs[c] ELSE Raw]
Free(cs, b) == [c \in {d \in DOMAIN cs : d[1] # b} |-> cs[c]]
ObjectsIn(cs, range) == {cs[c] : c \in range \cap DOMAIN cs} \ {Raw}
CellsOf(cs, b) == {c \in DOMAIN cs : c[1] = b}

RegistryInit ==
  /\ Init
  /\ cells = Malloc([c \in {} |-> Raw], 0, GrowthFactor)
  /\ active = 0
  /\ moves = 0
  /\ referenced = FALSE
  /\ lost = {}

-----------------------------------------------------------------------------
(* What the functions of MetaInformation do to the cells.                  *)

Object(id) == [id |-> id, family |-> id]

ASSUME ObjectAssumption == \A id \in Ids : Object(id) # Raw

\* Children(Children&&): the source keeps its id and loses its list.
MoveConstruct(cs, to, from) ==
  [cs EXCEPT ![to] = cs[from], ![from] = [id |-> cs[from].id, family |-> None]]

\* Their operator=: the families are swapped, unless the two are one.
MoveAssign(cs, to, from) ==
  IF to = from THEN cs
  ELSE [cs EXCEPT ![to] = cs[from], ![from] = [id |-> cs[from].id, family |-> cs[to].family]]

Destruct(cs, range) == [c \in DOMAIN cs |-> IF c \in range THEN Raw ELSE cs[c]]

Slot(i) == <<active, i>>
InUse == {Slot(i) : i \in 0 .. memory - 1}

-----------------------------------------------------------------------------
(* The operations of a collection. *)

Living == moves > 0 /\ active # Null

CreateObject(id) ==
  /\ Living /\ CreateInPlace(id)
  /\ cells' = [cells EXCEPT ![Slot(memory)] = Object(id)]
  /\ lost' = lost \cup ObjectsIn(cells, {Slot(memory)})
  /\ UNCHANGED <<active, moves, referenced>>

\* Fault: destroyRange() is forgotten.
ReallocatedForgetting(new) ==
  [c \in DOMAIN Malloc(cells, new, GrowthFactor * cap) |->
     IF c[1] = new THEN IF c[2] < memory THEN cells[Slot(c[2])] ELSE Raw
     ELSE cells[c]]

\* reallocate(), up to the call of free(): the objects are moved to the buffer
\* `new' and destroyed where they were.
Reallocated(new) ==
  [c \in DOMAIN Malloc(cells, new, GrowthFactor * cap) |->
     IF c[1] = new /\ c[2] < memory THEN cells[Slot(c[2])] ELSE Raw]

CreateObjectGrowing(id) ==
  /\ Living /\ CreateGrowing(id)
  /\ LET new == active + 1 IN
       /\ cells' = [Free(Reallocated(new), active) EXCEPT ![<<new, memory>>] = Object(id)]
       /\ active' = new
       /\ lost' = lost \cup ObjectsIn(Reallocated(new), CellsOf(Reallocated(new), active))
  /\ UNCHANGED <<moves, referenced>>

\* The last object is moved onto the one that is removed.
RemoveObject(id) ==
  /\ Living /\ Remove(id)
  /\ cells' = Destruct(MoveAssign(cells, Slot(map[id]), Slot(memory - 1)), {Slot(memory - 1)})
  /\ UNCHANGED <<active, moves, referenced, lost>>

\* Fault: the first assignment goes the other way.
SwappedBackwards(i, j) ==
  LET aside == MoveConstruct(cells, Slot(cap), Slot(j))
      first == MoveAssign(aside, Slot(i), Slot(j))
      second == MoveAssign(first, Slot(i), Slot(cap))
  IN IF i = j THEN cells ELSE Destruct(second, {Slot(cap)})

\* swap(): through the swap slot.
Swapped(i, j) ==
  LET aside == MoveConstruct(cells, Slot(cap), Slot(j))
      first == MoveAssign(aside, Slot(j), Slot(i))
      second == MoveAssign(first, Slot(i), Slot(cap))
  IN IF i = j THEN cells ELSE Destruct(second, {Slot(cap)})

\* awake() and the three like it swap the object with the one in slot b.
SwapObjects(id, b) ==
  /\ cells' = Swapped(map[id], b)
  /\ lost' = lost \cup ObjectsIn(cells, {Slot(cap)})
  /\ UNCHANGED <<active, moves, referenced>>

Transitions(id) ==
  \/ Awake(id) /\ SwapObjects(id, hibernating)
  \/ Activate(id) /\ SwapObjects(id, inactive)
  \/ Deactivate(id) /\ SwapObjects(id, inactive - 1)
  \/ Hibernate(id) /\ SwapObjects(id, hibernating - 1)

UseHandle(h) ==
  /\ \/ \E id \in Ids : GetComponent(h, id)
     \/ Dereference(h)
  /\ referenced' = TRUE
  /\ UNCHANGED <<cells, active, moves, lost>>

-----------------------------------------------------------------------------
(* The collection in the vector. *)

\* ~ComponentCollection(), for a collection with this buffer.
Destroyed(cs, b) == IF b = Null THEN cs ELSE Free(Destruct(cs, InUse), b)

\* Fault: the source of a move keeps its pointers.
LeftKeeping(b) == b

\* What ComponentCollection(ComponentCollection&&) leaves in its source.
LeftBehind(b) == Null

\* registerComponent(): the collection is moved into the vector, or with the
\* vector when another one is registered; the one moved from is destroyed.
\* "Do not move after any ComponentHandles have been created with this
\* collection" (ComponentCollection.h:77).
RegisterComponent ==
  /\ active # Null /\ moves < MaxMoves /\ ~referenced
  /\ moves' = moves + 1
  /\ cells' = Destroyed(cells, LeftBehind(active))
  /\ UNCHANGED <<vars, active, referenced, lost>>

\* The vector is destroyed.
Destroy ==
  /\ Living
  /\ cells' = Destroyed(cells, active)
  /\ active' = Null
  /\ lost' = lost \cup ObjectsIn(Destruct(cells, InUse), CellsOf(cells, active))
  /\ UNCHANGED <<vars, moves, referenced>>

RegistryNext ==
  \/ \E id \in Ids :
       \/ CreateObject(id)
       \/ CreateObjectGrowing(id)
       \/ RemoveObject(id)
       \/ Living /\ Transitions(id)
  \/ Living /\ \E h \in Handles : UseHandle(h)
  \/ RegisterComponent
  \/ Destroy

RegistrySpec == RegistryInit /\ [][RegistryNext]_allVars

-----------------------------------------------------------------------------
(* Properties. *)

\* However often objects are swapped, moved to another buffer or moved over a
\* removed one, the component of an id has the family it was created with.
ContentsKept ==
  active # Null => \A id \in Constructed : cells[Slot(map[id])] = Object(id)

\* Every object is destroyed once, and before its memory goes away; there is one
\* buffer, which holds an object in the constructed slots and nowhere else; and
\* none when the collection is destroyed.
ObjectsAccounted ==
  /\ lost = {}
  /\ IF active = Null THEN DOMAIN cells = {} ELSE
       /\ active = buffer
       /\ DOMAIN cells = {active} \X (0 .. cap)
       /\ {c \in DOMAIN cells : cells[c] # Raw} = InUse

=============================================================================
