---------------------- MODULE ComponentCollectionProofs ----------------------
(***************************************************************************)
(* Proofs about ComponentCollection, for every set of entities and handles *)
(* and every bound on the generation, and behind them about the objects in *)
(* the buffers (ComponentRegistry), for every client, one that removes     *)
(* components from any stage included.                                     *)
(***************************************************************************)
EXTENDS ComponentRegistry, TLAPS

USE DEF Null, GrowthFactor

\* The empty collection that the constructor builds satisfies the storage invariant.
LEMMA StorageInit == Init => StorageInv
  BY RawAssumption DEF Init, StorageInv, TypeOK, MapMatchesSlots, HandleFresh, Constructed, Stages

\* Constructing a component behind the last one, in a buffer that holds the
\* same components below `memory'.
LEMMA ConstructKeepsStorage ==
  ASSUME NEW buf, NEW newCap \in Nat \ {0}, NEW id \in Ids,
         StorageInv, stage[id] = "absent", memory < newCap,
         buf \in [0 .. newCap - 1 -> Ids \cup {Raw}],
         \A i \in 0 .. memory - 1 : buf[i] = slots[i],
         Construct(buf, id), cap' = newCap
  PROVE  /\ MapMatchesSlots'
         /\ slots' \in [0 .. cap' - 1 -> Ids \cup {Raw}]
         /\ memory' \in 0 .. cap'
         /\ Constructed' = Constructed \cup {id}
         /\ map' \in [Constructed' -> 0 .. cap' - 1]
         /\ \A c \in Constructed : map'[c] = map[c]
         /\ stage' \in [Ids -> Stages]
         /\ \A c \in Ids : stage'[c] = "absent" <=> c \notin Constructed'
<1> USE DEF StorageInv, TypeOK
<1>1. id \notin Constructed
  OBVIOUS
<1>2. Constructed' = Constructed \cup {id}
  BY DEF Construct, Constructed
<1>3. /\ map' = [c \in Constructed \cup {id} |-> IF c = id THEN memory ELSE map[c]]
      /\ slots' = [buf EXCEPT ![memory] = id]
      /\ memory' = memory + 1
      /\ stage' = [stage EXCEPT ![id] = "hibernating"]
  BY DEF Construct
<1>4. slots' \in [0 .. cap' - 1 -> Ids \cup {Raw}]
  BY <1>3
<1>5. memory' \in 0 .. cap'
  BY <1>3
<1>6. \A c \in Constructed : map[c] < memory /\ map[c] \in 0 .. newCap - 1
  BY DEF MapMatchesSlots
<1>7. map' \in [Constructed' -> 0 .. cap' - 1]
  BY <1>2, <1>3, <1>6
<1>8. \A c \in Constructed : map'[c] = map[c]
  BY <1>1, <1>3
<1>9. map'[id] = memory
  BY <1>3
<1>10. \A c \in Constructed' : map'[c] < memory' /\ slots'[map'[c]] = c
  <2> SUFFICES ASSUME NEW c \in Constructed'
               PROVE  map'[c] < memory' /\ slots'[map'[c]] = c
    OBVIOUS
  <2>1. CASE c = id
    BY <2>1, <1>3, <1>9
  <2>2. CASE c # id
    BY <2>2, <1>2, <1>3, <1>6, <1>8 DEF MapMatchesSlots
  <2> QED BY <2>1, <2>2
<1>11. \A i \in 0 .. memory' - 1 : slots'[i] \in Constructed' /\ map'[slots'[i]] = i
  <2> SUFFICES ASSUME NEW i \in 0 .. memory' - 1
               PROVE  slots'[i] \in Constructed' /\ map'[slots'[i]] = i
    OBVIOUS
  <2>1. CASE i = memory
    BY <2>1, <1>2, <1>3, <1>9
  <2>2. CASE i # memory
    <3>1. i \in 0 .. memory - 1
      BY <2>2, <1>3
    <3>2. slots'[i] = slots[i]
      BY <2>2, <3>1, <1>3
    <3> QED BY <3>1, <3>2, <1>2, <1>8 DEF MapMatchesSlots
  <2> QED BY <2>1, <2>2
<1>12. /\ stage' \in [Ids -> Stages]
       /\ \A c \in Ids : stage'[c] = "absent" <=> c \notin Constructed'
  BY <1>2, <1>3 DEF Stages
<1> QED
  BY <1>2, <1>4, <1>5, <1>7, <1>8, <1>10, <1>11, <1>12 DEF MapMatchesSlots


\* A handle that was fresh stays so while the generation moves on, or while
\* it and everything that a handle can point at stay.
LEMMA StaleHandlesStayFresh ==
  ASSUME StorageInv, UNCHANGED handle, gen' = gen + 1
  PROVE  \A h \in Handles : HandleFresh(h)'
BY DEF StorageInv, TypeOK, HandleFresh

\* A step that leaves the generation, the buffer and the map alone keeps every
\* handle fresh.
LEMMA CurrentHandlesStayFresh ==
  ASSUME StorageInv, UNCHANGED <<handle, gen, buffer>>,
         Constructed \subseteq Constructed',
         \A c \in Constructed : map'[c] = map[c]
  PROVE  \A h \in Handles : HandleFresh(h)'
BY DEF StorageInv, TypeOK, HandleFresh

\* Creating into a free slot keeps storage, map and handles sound.
LEMMA CreateInPlaceKeepsStorage ==
  ASSUME StorageInv, NEW id \in Ids, CreateInPlace(id)
  PROVE  StorageInv'
<1> USE DEF CreateInPlace
<1>1. /\ MapMatchesSlots'
      /\ slots' \in [0 .. cap' - 1 -> Ids \cup {Raw}]
      /\ memory' \in 0 .. cap'
      /\ Constructed' = Constructed \cup {id}
      /\ map' \in [Constructed' -> 0 .. cap' - 1]
      /\ \A c \in Constructed : map'[c] = map[c]
      /\ stage' \in [Ids -> Stages]
      /\ \A c \in Ids : stage'[c] = "absent" <=> c \notin Constructed'
  BY ConstructKeepsStorage DEF StorageInv, TypeOK
<1>2. UNCHANGED <<inactive, hibernating, handle>>
  BY DEF Construct
<1>3. \A h \in Handles : HandleFresh(h)'
  BY <1>1, <1>2, CurrentHandlesStayFresh
<1>4. TypeOK'
  BY <1>1, <1>2 DEF StorageInv, TypeOK
<1> QED BY <1>1, <1>3, <1>4 DEF StorageInv

\* Reallocating and creating keeps storage and map sound; the new generation
\* makes every handle look its component up again.
LEMMA CreateGrowingKeepsStorage ==
  ASSUME StorageInv, NEW id \in Ids, CreateGrowing(id)
  PROVE  StorageInv'
<1> USE DEF CreateGrowing
<1>1. /\ MapMatchesSlots'
      /\ slots' \in [0 .. cap' - 1 -> Ids \cup {Raw}]
      /\ memory' \in 0 .. cap'
      /\ Constructed' = Constructed \cup {id}
      /\ map' \in [Constructed' -> 0 .. cap' - 1]
      /\ \A c \in Constructed : map'[c] = map[c]
      /\ stage' \in [Ids -> Stages]
      /\ \A c \in Ids : stage'[c] = "absent" <=> c \notin Constructed'
  <2>1. memory \in Nat /\ cap \in Nat \ {0} /\ memory = cap
    BY DEF StorageInv, TypeOK
  <2>2. Grown \in [0 .. GrowthFactor * cap - 1 -> Ids \cup {Raw}]
    BY <2>1 DEF Grown, StorageInv, TypeOK
  <2>3. \A i \in 0 .. memory - 1 : Grown[i] = slots[i]
    BY <2>1 DEF Grown
  <2>4. GrowthFactor * cap \in Nat \ {0} /\ memory < GrowthFactor * cap
    BY <2>1
  <2> QED BY <2>2, <2>3, <2>4, ConstructKeepsStorage
<1>2. UNCHANGED <<inactive, hibernating, handle>>
  BY DEF Construct
<1>3. \A h \in Handles : HandleFresh(h)'
  BY <1>2, StaleHandlesStayFresh
<1>4. TypeOK'
  BY <1>1, <1>2 DEF StorageInv, TypeOK
<1> QED BY <1>1, <1>3, <1>4 DEF StorageInv

\* The last component fills the hole and its entry in the map follows it.
LEMMA RemoveKeepsStorage ==
  ASSUME StorageInv, NEW id \in Ids, Remove(id)
  PROVE  StorageInv'
<1> DEFINE hole == map[id]
           last == memory - 1
<1> USE DEF Remove
<1>1. /\ hole \in 0 .. memory - 1 /\ last \in 0 .. memory - 1 /\ memory \in Nat /\ memory <= cap /\ cap \in Nat
      /\ slots[hole] = id /\ slots[last] \in Constructed /\ map[slots[last]] = last
  BY DEF StorageInv, TypeOK, MapMatchesSlots
<1>2. Constructed' = Constructed \ {id}
  BY DEF Constructed
<1>3. \A c \in Constructed' : map'[c] = IF c = slots[last] THEN hole ELSE map[c]
  BY <1>2
<1>4. \A c \in Constructed' : map'[c] \in 0 .. memory' - 1 /\ slots'[map'[c]] = c
  <2> SUFFICES ASSUME NEW c \in Constructed'
               PROVE  map'[c] \in 0 .. memory' - 1 /\ slots'[map'[c]] = c
    OBVIOUS
  <2>1. map[c] \in 0 .. memory - 1 /\ slots[map[c]] = c /\ c # id
    BY <1>2 DEF StorageInv, TypeOK, MapMatchesSlots
  <2>2. CASE c = slots[last]
    BY <2>1, <2>2, <1>1, <1>3 DEF StorageInv, TypeOK
  <2>3. CASE c # slots[last]
    <3>1. map[c] # hole /\ map[c] # last /\ map'[c] = map[c]
      BY <2>1, <2>3, <1>1, <1>3
    <3>2. slots'[map[c]] = slots[map[c]]
      BY <3>1, <2>1 DEF StorageInv, TypeOK
    <3> QED BY <2>1, <3>1, <3>2, <1>1
  <2> QED BY <2>2, <2>3
<1>5. \A i \in 0 .. memory' - 1 : slots'[i] \in Constructed' /\ map'[slots'[i]] = i
  <2> SUFFICES ASSUME NEW i \in 0 .. memory' - 1
               PROVE  slots'[i] \in Constructed' /\ map'[slots'[i]] = i
    OBVIOUS
  <2>1. i \in 0 .. memory - 1 /\ i # last
    BY <1>1
  <2>2. CASE i = hole
    BY <2>1, <2>2, <1>1, <1>2, <1>3 DEF StorageInv, TypeOK
  <2>3. CASE i # hole
    BY <2>1, <2>3, <1>1, <1>2, <1>3 DEF StorageInv, TypeOK, MapMatchesSlots
  <2> QED BY <2>2, <2>3
<1>6. MapMatchesSlots'
  <2>1. memory' \in Int
    BY <1>1
  <2> HIDE DEF Remove
  <2>2. \A c \in Constructed' : map'[c] < memory' /\ slots'[map'[c]] = c
    BY <2>1, <1>4
  <2> QED BY <2>2, <1>5 DEF MapMatchesSlots
<1>7. \A h \in Handles : HandleFresh(h)'
  BY StaleHandlesStayFresh
<1>8. \A c \in Ids : stage'[c] = "absent" <=> c \notin Constructed'
  BY <1>2 DEF StorageInv, TypeOK
<1>9. TypeOK'
  <2>1. slots' \in [0 .. cap' - 1 -> Ids \cup {Raw}]
    BY <1>1 DEF StorageInv, TypeOK
  <2>2. map' \in [Constructed' -> 0 .. cap' - 1]
    BY <1>1, <1>2, <1>4
  <2>3. stage' \in [Ids -> Stages]
    BY DEF StorageInv, TypeOK, Stages
  <2>4. memory' \in 0 .. cap' /\ gen' \in Nat /\ Constructed' \subseteq Ids
    BY <1>1, <1>2 DEF StorageInv, TypeOK
  <2>5. UNCHANGED <<inactive, hibernating, cap, buffer, handle>>
    OBVIOUS
  <2> HIDE DEF Remove
  <2> QED BY <2>1, <2>2, <2>3, <2>4, <2>5 DEF StorageInv, TypeOK
<1> QED BY <1>6, <1>7, <1>8, <1>9 DEF StorageInv


\* What a transition does to the storage: the component of id and the one in
\* slot b trade places, nothing else moves.
LEMMA TransitionMoves ==
  ASSUME StorageInv, NEW id \in Ids, NEW b \in Int,
         NEW from \in Stages \ {"absent"}, NEW to \in Stages \ {"absent"},
         Transition(id, from, to, b)
  PROVE  /\ Constructed' = Constructed
         /\ map' = [map EXCEPT ![id] = b, ![slots[b]] = map[id]]
         /\ slots' = [slots EXCEPT ![map[id]] = slots[b], ![b] = id]
<1> USE DEF Transition, SwapInto
<1>1. /\ b \in 0 .. memory - 1 /\ slots[b] \in Constructed /\ map[slots[b]] = b
      /\ id \in Constructed /\ slots[map[id]] = id
  BY DEF StorageInv, TypeOK, MapMatchesSlots
<1>2. map' = [map EXCEPT ![id] = b, ![slots[b]] = map[id]]
  BY <1>1
<1>3. slots' = [slots EXCEPT ![map[id]] = slots[b], ![b] = id]
  BY <1>1
<1> QED BY <1>1, <1>2, <1>3 DEF Constructed

\* Trading the places of two components keeps storage, map and handles sound.
LEMMA TransitionKeepsStorage ==
  ASSUME StorageInv, NEW id \in Ids, NEW b \in Int,
         NEW from \in Stages \ {"absent"}, NEW to \in Stages \ {"absent"},
         Transition(id, from, to, b), inactive' \in Int, hibernating' \in Int
  PROVE  StorageInv'
<1> USE DEF Transition
<1>1. /\ Constructed' = Constructed
      /\ map' = [map EXCEPT ![id] = b, ![slots[b]] = map[id]]
      /\ slots' = [slots EXCEPT ![map[id]] = slots[b], ![b] = id]
  BY TransitionMoves
<1>2. /\ b \in 0 .. memory - 1 /\ slots[b] \in Constructed /\ map[slots[b]] = b
      /\ id \in Constructed /\ map[id] \in 0 .. memory - 1 /\ slots[map[id]] = id
      /\ memory \in Nat /\ memory <= cap /\ cap \in Nat
  BY DEF StorageInv, TypeOK, MapMatchesSlots
<1>3. \A c \in Constructed : map'[c] \in 0 .. memory - 1 /\ slots'[map'[c]] = c
  <2> SUFFICES ASSUME NEW c \in Constructed
               PROVE  map'[c] \in 0 .. memory - 1 /\ slots'[map'[c]] = c
    OBVIOUS
  <2>1. map[c] \in 0 .. memory - 1 /\ slots[map[c]] = c
    BY DEF StorageInv, TypeOK, MapMatchesSlots
  <2>2. CASE c = id
    BY <2>2, <1>1, <1>2 DEF StorageInv, TypeOK
  <2>3. CASE c # id /\ c = slots[b]
    BY <2>3, <1>1, <1>2 DEF StorageInv, TypeOK
  <2>4. CASE c # id /\ c # slots[b]
    BY <2>1, <2>4, <1>1, <1>2 DEF StorageInv, TypeOK
  <2> QED BY <2>2, <2>3, <2>4
<1>4. \A i \in 0 .. memory - 1 : slots'[i] \in Constructed /\ map'[slots'[i]] = i
  <2> SUFFICES ASSUME NEW i \in 0 .. memory - 1
               PROVE  slots'[i] \in Constructed /\ map'[slots'[i]] = i
    OBVIOUS
  <2>1. slots[i] \in Constructed /\ map[slots[i]] = i
    BY DEF MapMatchesSlots, StorageInv
  <2>2. CASE i = b
    BY <2>2, <1>1, <1>2 DEF StorageInv, TypeOK
  <2>3. CASE i # b /\ i = map[id]
    BY <2>3, <1>1, <1>2 DEF StorageInv, TypeOK
  <2>4. CASE i # b /\ i # map[id]
    BY <2>1, <2>4, <1>1, <1>2 DEF StorageInv, TypeOK
  <2> QED BY <2>2, <2>3, <2>4
<1>5. MapMatchesSlots'
  <2>1. memory' = memory /\ memory \in Nat /\ Constructed' = Constructed
    BY <1>1, <1>2
  <2> HIDE DEF Transition
  <2>2. \A c \in Constructed' : map'[c] < memory /\ slots'[map'[c]] = c
    BY <1>3, <2>1
  <2>3. \A i \in 0 .. memory - 1 : slots'[i] \in Constructed' /\ map'[slots'[i]] = i
    BY <1>4, <2>1
  <2> QED BY <2>1, <2>2, <2>3 DEF MapMatchesSlots
<1>6. gen' \in Nat /\ (gen' = gen + 1 \/ (gen' = gen /\ map' = map))
  BY <1>1, <1>2 DEF SwapInto, StorageInv, TypeOK
<1>7. \A h \in Handles : HandleFresh(h)'
  <2>1. CASE gen' = gen + 1
    BY <2>1, StaleHandlesStayFresh
  <2>2. CASE gen' = gen /\ map' = map
    BY <2>2, <1>1, CurrentHandlesStayFresh
  <2> QED BY <1>6, <2>1, <2>2
<1>8. \A c \in Ids : stage'[c] = "absent" <=> c \notin Constructed'
  BY <1>1 DEF StorageInv, TypeOK
<1>9. TypeOK'
  <2>1. map' \in [Constructed' -> 0 .. cap' - 1]
    BY <1>1, <1>2 DEF StorageInv, TypeOK
  <2>2. slots' \in [0 .. cap' - 1 -> Ids \cup {Raw}]
    BY <1>1, <1>2 DEF StorageInv, TypeOK
  <2> QED BY <1>1, <1>6, <2>1, <2>2 DEF StorageInv, TypeOK
<1> QED BY <1>5, <1>7, <1>8, <1>9 DEF StorageInv

\* A handle made now points at its component, or is null.
LEMMA HandleForIsFresh ==
  ASSUME StorageInv, NEW id \in Ids
  PROVE  /\ HandleFor(id) \in [id : Ids, gen : Nat, buf : Nat, at : Nat \cup {Null}]
         /\ HandleFor(id).id = id /\ HandleFor(id).gen = gen
         /\ HandleFor(id).at # Null =>
              HandleFor(id).buf = buffer /\ id \in Constructed /\ HandleFor(id).at = map[id]
BY DEF HandleFor, StorageInv, TypeOK

\* Making and dereferencing handles keeps every handle fresh.
LEMMA HandleCallsKeepStorage ==
  ASSUME StorageInv, NEW h \in Handles,
         (\E id \in Ids : GetComponent(h, id)) \/ Dereference(h)
  PROVE  StorageInv'
<1>1. PICK new : /\ handle' = [handle EXCEPT ![h] = new]
                 /\ new = handle[h] \/ \E id \in Ids : new = HandleFor(id)
  BY DEF GetComponent, Dereference, Refreshed, StorageInv, TypeOK
<1>2. UNCHANGED <<slots, layout, cap, map, gen, buffer, stage>>
  BY DEF GetComponent, Dereference
<1>3. new \in [id : Ids, gen : Nat, buf : Nat, at : Nat \cup {Null}]
  BY <1>1, HandleForIsFresh DEF StorageInv, TypeOK
<1>4. \A g \in Handles : HandleFresh(g)'
  <2> SUFFICES ASSUME NEW g \in Handles PROVE HandleFresh(g)'
    OBVIOUS
  <2>1. Constructed' = Constructed /\ UNCHANGED <<map, gen, buffer>>
    BY <1>2 DEF Constructed
  <2>2. handle'[g] = IF g = h THEN new ELSE handle[g]
    BY <1>1 DEF StorageInv, TypeOK
  <2>3. gen \in Nat
    BY DEF StorageInv, TypeOK
  <2>4. CASE handle'[g] = handle[g]
    BY <2>1, <2>4 DEF StorageInv, HandleFresh
  <2>5. CASE \E id \in Ids : handle'[g] = HandleFor(id)
    BY <2>1, <2>3, <2>5, HandleForIsFresh DEF HandleFresh
  <2> QED BY <1>1, <2>2, <2>4, <2>5
<1>5. TypeOK'
  BY <1>1, <1>2, <1>3 DEF StorageInv, TypeOK, layout, Constructed
<1> QED BY <1>2, <1>4, <1>5 DEF StorageInv, MapMatchesSlots, layout, Constructed

\* The storage invariant is inductive, whatever the client does.
LEMMA StorageStep == StorageInv /\ [Next]_vars => StorageInv'
<1> SUFFICES ASSUME StorageInv, [Next]_vars PROVE StorageInv'
  OBVIOUS
<1>1. ASSUME NEW id \in Ids, CreateInPlace(id) PROVE StorageInv'
  BY <1>1, CreateInPlaceKeepsStorage
<1>2. ASSUME NEW id \in Ids, CreateGrowing(id) PROVE StorageInv'
  BY <1>2, CreateGrowingKeepsStorage
<1>3. ASSUME NEW id \in Ids, Remove(id) PROVE StorageInv'
  BY <1>3, RemoveKeepsStorage
<1>4. inactive \in Int /\ hibernating \in Int
  BY DEF StorageInv, TypeOK
<1>5. ASSUME NEW id \in Ids, Awake(id) PROVE StorageInv'
  BY <1>4, <1>5, TransitionKeepsStorage DEF Awake, Stages
<1>6. ASSUME NEW id \in Ids, Activate(id) PROVE StorageInv'
  BY <1>4, <1>6, TransitionKeepsStorage DEF Activate, Stages
<1>7. ASSUME NEW id \in Ids, Deactivate(id) PROVE StorageInv'
  BY <1>4, <1>7, TransitionKeepsStorage DEF Deactivate, Stages
<1>8. ASSUME NEW id \in Ids, Hibernate(id) PROVE StorageInv'
  BY <1>4, <1>8, TransitionKeepsStorage DEF Hibernate, Stages
<1>9. ASSUME NEW h \in Handles, (\E id \in Ids : GetComponent(h, id)) \/ Dereference(h)
      PROVE  StorageInv'
  BY <1>9, HandleCallsKeepStorage
<1>10. CASE UNCHANGED vars
  BY <1>10 DEF vars, layout, StorageInv, TypeOK, MapMatchesSlots, HandleFresh, Constructed
<1> QED
  BY <1>1, <1>2, <1>3, <1>5, <1>6, <1>7, <1>8, <1>9, <1>10 DEF Next

\* For every client, one that removes components from any stage included: the
\* state keeps its types, and StorageInv is inductive.
THEOREM StorageSound == Spec => []StorageInv
BY StorageInit, StorageStep, PTL DEF Spec

\* Every variable of the collection keeps its type, for every client.
THEOREM TypeCorrect == Spec => []TypeOK
<1>1. StorageInv => TypeOK
  BY DEF StorageInv
<1> QED BY <1>1, StorageSound, PTL

\* componentMap and the buffer always describe each other: find() returns the
\* component it was asked for, for every client.
THEOREM MapSound == Spec => []MapMatchesSlots
<1>1. StorageInv => MapMatchesSlots
  BY DEF StorageInv
<1> QED BY <1>1, StorageSound, PTL

\* SmartHandle::get() never returns a pointer to a slot that its component
\* left, whatever was moved, removed or reallocated since the handle was made.
THEOREM HandlesSound == Spec => []HandlesNeverStale
<1>1. StorageInv => HandlesNeverStale
  BY DEF StorageInv, HandlesNeverStale, HandleFresh, Refreshed, HandleFor, TypeOK
<1> QED BY <1>1, StorageSound, PTL


-----------------------------------------------------------------------------
(* The areas, for a client that removes hibernating components only. *)

\* In the empty collection the areas are empty and in order.
LEMMA AreaInit == Init => LayoutOrdered /\ AreaMatchesStage
BY DEF Init, LayoutOrdered, AreaMatchesStage, LayoutStage, Constructed

\* Pointwise reading of AreaMatchesStage.
LEMMA AreaPointwise ==
  ASSUME IInv, NEW c \in Ids
  PROVE  /\ stage[c] \in Stages
         /\ stage[c] = IF c \in Constructed THEN AreaOf(map[c]) ELSE "absent"
BY DEF IInv, StorageInv, TypeOK, AreaMatchesStage, LayoutStage

\* A new component lies behind all others, in the hibernating area.
LEMMA CreateKeepsAreas ==
  ASSUME IInv, NEW id \in Ids, CreateInPlace(id) \/ CreateGrowing(id)
  PROVE  LayoutOrdered' /\ AreaMatchesStage'
<1>1. /\ stage[id] = "absent" /\ id \notin Constructed
      /\ stage' = [stage EXCEPT ![id] = "hibernating"]
      /\ memory' = memory + 1
      /\ map' = [c \in Constructed \cup {id} |-> IF c = id THEN memory ELSE map[c]]
      /\ UNCHANGED <<inactive, hibernating>>
  BY DEF CreateInPlace, CreateGrowing, Construct, IInv, StorageInv
<1>2. Constructed' = Constructed \cup {id}
  BY <1>1 DEF Constructed
<1>3. LayoutOrdered'
  BY <1>1 DEF LayoutOrdered, IInv, StorageInv, TypeOK
<1>4. \A c \in Ids : stage'[c] = IF c \in Constructed' THEN AreaOf(map[c])' ELSE "absent"
  <2> SUFFICES ASSUME NEW c \in Ids
               PROVE  stage'[c] = IF c \in Constructed' THEN AreaOf(map[c])' ELSE "absent"
    OBVIOUS
  <2>1. CASE c = id
    <3>1. hibernating <= memory /\ inactive <= hibernating /\ memory \in Nat
          /\ inactive \in Int /\ hibernating \in Int
      BY DEF IInv, StorageInv, TypeOK, LayoutOrdered
    <3> QED BY <1>1, <1>2, <2>1, <3>1 DEF IInv, StorageInv, TypeOK, AreaOf
  <2>2. CASE c # id
    BY <1>1, <1>2, <2>2, AreaPointwise DEF IInv, StorageInv, TypeOK, AreaOf
  <2> QED BY <2>1, <2>2
<1>5. stage' \in [Ids -> Stages]
  BY <1>1 DEF IInv, StorageInv, TypeOK, Stages
<1> QED BY <1>3, <1>4, <1>5 DEF AreaMatchesStage, LayoutStage

\* The hole and the last component are both in the hibernating area.
LEMMA RemoveKeepsAreas ==
  ASSUME IInv, ~RemoveAtAnyStage, NEW id \in Ids, Remove(id)
  PROVE  LayoutOrdered' /\ AreaMatchesStage'
<1> DEFINE hole == map[id]
           last == memory - 1
<1>1. /\ id \in Constructed /\ stage[id] = "hibernating"
      /\ stage' = [stage EXCEPT ![id] = "absent"]
      /\ memory' = last
      /\ map' = [c \in Constructed \ {id} |-> IF c = slots[last] THEN hole ELSE map[c]]
      /\ UNCHANGED <<inactive, hibernating>>
  BY DEF Remove
<1>2. Constructed' = Constructed \ {id}
  BY <1>1 DEF Constructed
<1>3. /\ inactive \in Int /\ hibernating \in Int /\ memory \in Nat
      /\ 0 <= inactive /\ inactive <= hibernating /\ hibernating <= memory
  BY DEF IInv, StorageInv, TypeOK, LayoutOrdered
<1>4. hole \in 0 .. memory - 1 /\ hibernating <= hole
  BY <1>1, <1>3, AreaPointwise DEF IInv, StorageInv, TypeOK, MapMatchesSlots, AreaOf
<1>5. LayoutOrdered'
  BY <1>1, <1>3, <1>4 DEF LayoutOrdered
<1>6. map[slots[last]] = last
  BY <1>3, <1>4 DEF IInv, StorageInv, MapMatchesSlots
<1>7. \A c \in Ids : stage'[c] = IF c \in Constructed' THEN AreaOf(map[c])' ELSE "absent"
  <2> SUFFICES ASSUME NEW c \in Ids
               PROVE  stage'[c] = IF c \in Constructed' THEN AreaOf(map[c])' ELSE "absent"
    OBVIOUS
  <2>1. stage[c] = IF c \in Constructed THEN AreaOf(map[c]) ELSE "absent"
    BY AreaPointwise
  <2>2. stage'[c] = IF c = id THEN "absent" ELSE stage[c]
    BY <1>1 DEF IInv, StorageInv, TypeOK
  <2>3. CASE c = id \/ c \notin Constructed
    BY <1>2, <2>1, <2>2, <2>3
  <2>4. CASE c # id /\ c \in Constructed /\ c = slots[last]
    <3>1. map'[c] = hole
      BY <1>1, <2>4
    <3> QED BY <1>1, <1>2, <1>3, <1>4, <1>6, <2>1, <2>2, <2>4, <3>1 DEF AreaOf
  <2>5. CASE c # id /\ c \in Constructed /\ c # slots[last]
    <3>1. map'[c] = map[c]
      BY <1>1, <2>5
    <3> QED BY <1>1, <1>2, <2>1, <2>2, <2>5, <3>1 DEF AreaOf
  <2> QED BY <2>3, <2>4, <2>5
<1>8. stage' \in [Ids -> Stages]
  BY <1>1 DEF IInv, StorageInv, TypeOK, Stages
<1> QED BY <1>5, <1>7, <1>8 DEF AreaMatchesStage, LayoutStage


\* A transition is sound for the areas when the moved boundary puts slot b in
\* the area of the new stage, leaves the component displaced from b in the area
\* it was in, and changes the area of no other slot.
LEMMA TransitionKeepsAreas ==
  ASSUME IInv, NEW id \in Ids, NEW b \in Int,
         NEW from \in Stages \ {"absent"}, NEW to \in Stages \ {"absent"},
         Transition(id, from, to, b),
         AreaOf(b)' = to,
         \A i \in 0 .. memory - 1 : i # b /\ i = map[id] => AreaOf(i)' = AreaOf(b),
         \A i \in 0 .. memory - 1 : i # b /\ i # map[id] => AreaOf(i)' = AreaOf(i)
  PROVE  AreaMatchesStage'
<1>1. /\ Constructed' = Constructed
      /\ map' = [map EXCEPT ![id] = b, ![slots[b]] = map[id]]
  BY TransitionMoves DEF IInv
<1>2. /\ id \in Constructed /\ b \in 0 .. memory - 1 /\ slots[b] \in Constructed
      /\ stage' = [stage EXCEPT ![id] = to]
  BY DEF Transition
<1>3. map[slots[b]] = b
  BY <1>2 DEF IInv, StorageInv, MapMatchesSlots
<1>4. \A c \in Ids : stage'[c] = IF c \in Constructed' THEN AreaOf(map[c])' ELSE "absent"
  <2> SUFFICES ASSUME NEW c \in Ids
               PROVE  stage'[c] = IF c \in Constructed' THEN AreaOf(map[c])' ELSE "absent"
    OBVIOUS
  <2>1. stage[c] = IF c \in Constructed THEN AreaOf(map[c]) ELSE "absent"
    BY AreaPointwise
  <2>2. stage'[c] = IF c = id THEN to ELSE stage[c]
    BY <1>2 DEF IInv, StorageInv, TypeOK
  <2>3. c \in Constructed => map'[c] = IF c = slots[b] THEN map[id] ELSE IF c = id THEN b ELSE map[c]
    BY <1>1, <1>2 DEF IInv, StorageInv, TypeOK
  <2>4. CASE c \notin Constructed
    BY <1>1, <1>2, <2>1, <2>2, <2>4
  <2>5. CASE c = id
    <3>1. map'[c] = b
      BY <1>2, <1>3, <2>3, <2>5
    <3> QED BY <1>1, <1>2, <2>2, <2>5, <3>1
  <2>6. CASE c \in Constructed /\ c # id /\ c = slots[b]
    <3>1. map[id] # b
      BY <1>2, <2>6 DEF IInv, StorageInv, MapMatchesSlots
    <3>2. PICK i \in 0 .. memory - 1 : i = map[id]
      BY <1>2 DEF IInv, StorageInv, TypeOK, MapMatchesSlots
    <3>3. map'[c] = i /\ AreaOf(i)' = AreaOf(b)
      BY <2>3, <2>6, <3>1, <3>2
    <3> QED BY <1>1, <1>3, <2>1, <2>2, <2>6, <3>3
  <2>7. CASE c \in Constructed /\ c # id /\ c # slots[b]
    <3>1. map[c] \in 0 .. memory - 1 /\ map[c] # b /\ map[c] # map[id] /\ map'[c] = map[c]
      BY <1>2, <2>3, <2>7 DEF IInv, StorageInv, TypeOK, MapMatchesSlots
    <3> QED BY <1>1, <2>1, <2>2, <2>7, <3>1
  <2> QED BY <2>4, <2>5, <2>6, <2>7
<1>5. stage' \in [Ids -> Stages]
  BY <1>2 DEF IInv, StorageInv, TypeOK
<1> QED BY <1>4, <1>5 DEF AreaMatchesStage, LayoutStage

\* Slot numbers and boundaries of a component about to change its stage.
LEMMA TransitionFacts ==
  ASSUME IInv, NEW id \in Ids, id \in Constructed
  PROVE  /\ inactive \in Nat /\ hibernating \in Nat /\ memory \in Nat
         /\ inactive <= hibernating /\ hibernating <= memory
         /\ map[id] \in 0 .. memory - 1
         /\ stage[id] = AreaOf(map[id])
BY AreaPointwise DEF IInv, StorageInv, TypeOK, LayoutOrdered, MapMatchesSlots

\* awake() moves its component, and no other, from the hibernating to the
\* inactive area.
LEMMA AwakeKeepsAreas ==
  ASSUME IInv, NEW id \in Ids, Awake(id)
  PROVE  LayoutOrdered' /\ AreaMatchesStage'
<1>1. /\ Transition(id, "hibernating", "inactive", hibernating)
      /\ id \in Constructed /\ stage[id] = "hibernating" /\ memory' = memory
      /\ slots[hibernating] \in Constructed /\ hibernating \in 0 .. memory - 1
  BY DEF Awake, Transition
<1>2. {"hibernating", "inactive"} \subseteq Stages \ {"absent"}
  BY DEF Stages
<1>3. /\ inactive \in Nat /\ hibernating \in Nat /\ memory \in Nat
      /\ inactive <= hibernating /\ hibernating <= memory
      /\ map[id] \in 0 .. memory - 1
      /\ stage[id] = AreaOf(map[id])
  BY <1>1, TransitionFacts
<1>4. PICK b \in 0 .. memory - 1 : b = hibernating
  BY <1>1
<1>5. PICK old \in 0 .. memory - 1 : old = map[id]
  BY <1>3
<1>6. AreaOf(b)' = "inactive"
  BY <1>1, <1>3, <1>4, <1>5 DEF Awake, AreaOf
<1>7. \A i \in 0 .. memory - 1 : i # b /\ i = map[id] => AreaOf(i)' = AreaOf(b)
  BY <1>1, <1>3, <1>4, <1>5 DEF Awake, AreaOf
<1>8. \A i \in 0 .. memory - 1 : i # b /\ i # map[id] => AreaOf(i)' = AreaOf(i)
  BY <1>1, <1>3, <1>4, <1>5 DEF Awake, AreaOf
<1>9. AreaMatchesStage'
  BY <1>1, <1>2, <1>3, <1>4, <1>6, <1>7, <1>8, TransitionKeepsAreas
<1>10. LayoutOrdered'
  BY <1>1, <1>3 DEF Awake, LayoutOrdered, AreaOf
<1> QED BY <1>9, <1>10

\* activate() moves its component, and no other, from the inactive to the
\* active area.
LEMMA ActivateKeepsAreas ==
  ASSUME IInv, NEW id \in Ids, Activate(id)
  PROVE  LayoutOrdered' /\ AreaMatchesStage'
<1>1. /\ Transition(id, "inactive", "active", inactive)
      /\ id \in Constructed /\ stage[id] = "inactive" /\ memory' = memory
      /\ slots[inactive] \in Constructed /\ inactive \in 0 .. memory - 1
  BY DEF Activate, Transition
<1>2. {"inactive", "active"} \subseteq Stages \ {"absent"}
  BY DEF Stages
<1>3. /\ inactive \in Nat /\ hibernating \in Nat /\ memory \in Nat
      /\ inactive <= hibernating /\ hibernating <= memory
      /\ map[id] \in 0 .. memory - 1
      /\ stage[id] = AreaOf(map[id])
  BY <1>1, TransitionFacts
<1>4. PICK b \in 0 .. memory - 1 : b = inactive
  BY <1>1
<1>5. PICK old \in 0 .. memory - 1 : old = map[id]
  BY <1>3
<1>6. AreaOf(b)' = "active"
  BY <1>1, <1>3, <1>4, <1>5 DEF Activate, AreaOf
<1>7. \A i \in 0 .. memory - 1 : i # b /\ i = map[id] => AreaOf(i)' = AreaOf(b)
  BY <1>1, <1>3, <1>4, <1>5 DEF Activate, AreaOf
<1>8. \A i \in 0 .. memory - 1 : i # b /\ i # map[id] => AreaOf(i)' = AreaOf(i)
  BY <1>1, <1>3, <1>4, <1>5 DEF Activate, AreaOf
<1>9. AreaMatchesStage'
  BY <1>1, <1>2, <1>3, <1>4, <1>6, <1>7, <1>8, TransitionKeepsAreas
<1>10. LayoutOrdered'
  BY <1>1, <1>3 DEF Activate, LayoutOrdered, AreaOf
<1> QED BY <1>9, <1>10

\* deactivate() moves its component, and no other, from the active to the
\* inactive area.
LEMMA DeactivateKeepsAreas ==
  ASSUME IInv, NEW id \in Ids, Deactivate(id)
  PROVE  LayoutOrdered' /\ AreaMatchesStage'
<1>1. /\ Transition(id, "active", "inactive", inactive - 1)
      /\ id \in Constructed /\ stage[id] = "active" /\ memory' = memory
      /\ slots[inactive - 1] \in Constructed /\ inactive - 1 \in 0 .. memory - 1
  BY DEF Deactivate, Transition
<1>2. {"active", "inactive"} \subseteq Stages \ {"absent"}
  BY DEF Stages
<1>3. /\ inactive \in Nat /\ hibernating \in Nat /\ memory \in Nat
      /\ inactive <= hibernating /\ hibernating <= memory
      /\ map[id] \in 0 .. memory - 1
      /\ stage[id] = AreaOf(map[id])
  BY <1>1, TransitionFacts
<1>4. PICK b \in 0 .. memory - 1 : b = inactive - 1
  BY <1>1
<1>5. PICK old \in 0 .. memory - 1 : old = map[id]
  BY <1>3
<1>6. AreaOf(b)' = "inactive"
  BY <1>1, <1>3, <1>4, <1>5 DEF Deactivate, AreaOf
<1>7. \A i \in 0 .. memory - 1 : i # b /\ i = map[id] => AreaOf(i)' = AreaOf(b)
  BY <1>1, <1>3, <1>4, <1>5 DEF Deactivate, AreaOf
<1>8. \A i \in 0 .. memory - 1 : i # b /\ i # map[id] => AreaOf(i)' = AreaOf(i)
  BY <1>1, <1>3, <1>4, <1>5 DEF Deactivate, AreaOf
<1>9. AreaMatchesStage'
  BY <1>1, <1>2, <1>3, <1>4, <1>6, <1>7, <1>8, TransitionKeepsAreas
<1>10. LayoutOrdered'
  BY <1>1, <1>3 DEF Deactivate, LayoutOrdered, AreaOf
<1> QED BY <1>9, <1>10

\* hibernate() moves its component, and no other, from the inactive to the
\* hibernating area.
LEMMA HibernateKeepsAreas ==
  ASSUME IInv, NEW id \in Ids, Hibernate(id)
  PROVE  LayoutOrdered' /\ AreaMatchesStage'
<1>1. /\ Transition(id, "inactive", "hibernating", hibernating - 1)
      /\ id \in Constructed /\ stage[id] = "inactive" /\ memory' = memory
      /\ slots[hibernating - 1] \in Constructed /\ hibernating - 1 \in 0 .. memory - 1
  BY DEF Hibernate, Transition
<1>2. {"inactive", "hibernating"} \subseteq Stages \ {"absent"}
  BY DEF Stages
<1>3. /\ inactive \in Nat /\ hibernating \in Nat /\ memory \in Nat
      /\ inactive <= hibernating /\ hibernating <= memory
      /\ map[id] \in 0 .. memory - 1
      /\ stage[id] = AreaOf(map[id])
  BY <1>1, TransitionFacts
<1>4. PICK b \in 0 .. memory - 1 : b = hibernating - 1
  BY <1>1
<1>5. PICK old \in 0 .. memory - 1 : old = map[id]
  BY <1>3
<1>6. AreaOf(b)' = "hibernating"
  BY <1>1, <1>3, <1>4, <1>5 DEF Hibernate, AreaOf
<1>7. \A i \in 0 .. memory - 1 : i # b /\ i = map[id] => AreaOf(i)' = AreaOf(b)
  BY <1>1, <1>3, <1>4, <1>5 DEF Hibernate, AreaOf
<1>8. \A i \in 0 .. memory - 1 : i # b /\ i # map[id] => AreaOf(i)' = AreaOf(i)
  BY <1>1, <1>3, <1>4, <1>5 DEF Hibernate, AreaOf
<1>9. AreaMatchesStage'
  BY <1>1, <1>2, <1>3, <1>4, <1>6, <1>7, <1>8, TransitionKeepsAreas
<1>10. LayoutOrdered'
  BY <1>1, <1>3 DEF Hibernate, LayoutOrdered, AreaOf
<1> QED BY <1>9, <1>10


\* Storage and areas together are inductive for a client that removes only
\* hibernating components.
LEMMA IInvStep == ~RemoveAtAnyStage /\ IInv /\ [Next]_vars => IInv'
<1> SUFFICES ASSUME ~RemoveAtAnyStage, IInv, [Next]_vars PROVE IInv'
  OBVIOUS
<1>1. StorageInv'
  BY StorageStep DEF IInv
<1>2. ASSUME NEW id \in Ids, CreateInPlace(id) \/ CreateGrowing(id)
      PROVE  LayoutOrdered' /\ AreaMatchesStage'
  BY <1>2, CreateKeepsAreas
<1>3. ASSUME NEW id \in Ids, Remove(id) PROVE LayoutOrdered' /\ AreaMatchesStage'
  BY <1>3, RemoveKeepsAreas
<1>4. ASSUME NEW id \in Ids, Awake(id) PROVE LayoutOrdered' /\ AreaMatchesStage'
  BY <1>4, AwakeKeepsAreas
<1>5. ASSUME NEW id \in Ids, Activate(id) PROVE LayoutOrdered' /\ AreaMatchesStage'
  BY <1>5, ActivateKeepsAreas
<1>6. ASSUME NEW id \in Ids, Deactivate(id) PROVE LayoutOrdered' /\ AreaMatchesStage'
  BY <1>6, DeactivateKeepsAreas
<1>7. ASSUME NEW id \in Ids, Hibernate(id) PROVE LayoutOrdered' /\ AreaMatchesStage'
  BY <1>7, HibernateKeepsAreas
<1>8. ASSUME NEW h \in Handles, (\E id \in Ids : GetComponent(h, id)) \/ Dereference(h)
      PROVE  LayoutOrdered' /\ AreaMatchesStage'
  BY <1>8 DEF GetComponent, Dereference, layout, IInv, LayoutOrdered, AreaMatchesStage,
              LayoutStage, AreaOf, Constructed
<1>9. ASSUME UNCHANGED vars PROVE LayoutOrdered' /\ AreaMatchesStage'
  <2>1. UNCHANGED <<inactive, hibernating, memory, map, stage>>
    BY <1>9 DEF vars, layout
  <2> QED
    BY <2>1 DEF IInv, LayoutOrdered, AreaMatchesStage, LayoutStage, AreaOf, Constructed
<1>10. LayoutOrdered' /\ AreaMatchesStage'
  <2>1. CASE Next
    BY <1>2, <1>3, <1>4, <1>5, <1>6, <1>7, <1>8, <2>1 DEF Next
  <2> QED BY <1>9, <2>1
<1> QED BY <1>1, <1>10 DEF IInv

\* For a client that removes hibernating components only: the inductive
\* invariant that the areas need.
THEOREM AreasSound == ~RemoveAtAnyStage => (Spec => []IInv)
<1> SUFFICES ASSUME ~RemoveAtAnyStage PROVE Spec => []IInv
  OBVIOUS
<1>1. Init => IInv
  BY StorageInit, AreaInit DEF IInv
<1>2. IInv /\ [Next]_vars => IInv'
  BY IInvStep
<1> QED BY <1>1, <1>2, PTL DEF Spec

\* update() reaches the active components and no other, events reach all.
THEOREM UpdateSound == ~RemoveAtAnyStage => (Spec => []BatchedCallsReach)
<1>1. IInv => BatchedCallsReach
  <2> SUFFICES ASSUME IInv PROVE BatchedCallsReach
    OBVIOUS
  <2>0. memory \in Nat /\ inactive \in Int /\ inactive <= memory
    BY DEF IInv, StorageInv, TypeOK, LayoutOrdered
  <2>1. ASSUME NEW i \in 0 .. memory - 1
        PROVE  /\ slots[i] \in Ids
               /\ stage[slots[i]] = "active" <=> i < inactive
               /\ stage[slots[i]] # "absent"
    <3>1. slots[i] \in Constructed /\ slots[i] \in Ids /\ map[slots[i]] = i
      BY DEF IInv, StorageInv, TypeOK, MapMatchesSlots
    <3>2. stage[slots[i]] = AreaOf(i)
      BY <3>1, AreaPointwise
    <3> QED BY <3>1, <3>2 DEF AreaOf
  <2>2. ASSUME NEW c \in Ids, stage[c] # "absent"
        PROVE  map[c] \in 0 .. memory - 1 /\ slots[map[c]] = c
    BY <2>2 DEF IInv, StorageInv, TypeOK, MapMatchesSlots
  <2>3. {slots[i] : i \in UpdateRange} = {c \in Ids : stage[c] = "active"}
    <3>1. ASSUME NEW i \in UpdateRange
          PROVE  slots[i] \in Ids /\ stage[slots[i]] = "active"
      <4>1. i \in 0 .. memory - 1 /\ i < inactive BY <2>0 DEF UpdateRange
      <4> QED BY <4>1, <2>1
    <3>2. ASSUME NEW c \in Ids, stage[c] = "active"
          PROVE  \E i \in UpdateRange : slots[i] = c
      <4>1. map[c] \in 0 .. memory - 1 /\ slots[map[c]] = c BY <3>2, <2>2
      <4>2. map[c] < inactive BY <4>1, <3>2, <2>1
      <4> QED BY <4>1, <4>2, <2>0 DEF UpdateRange
    <3> QED BY <3>1, <3>2
  <2>4. {slots[i] : i \in BroadcastRange} = {c \in Ids : stage[c] # "absent"}
    BY <2>1, <2>2 DEF BroadcastRange
  <2> QED BY <2>3, <2>4 DEF BatchedCallsReach
<1> QED BY <1>1, AreasSound, PTL

\* The lookups that awake(), activate(), deactivate() and hibernate() do not
\* test never come back empty-handed.
THEOREM LookupsSound == ~RemoveAtAnyStage => (Spec => []BoundaryLookupsHit)
<1>1. IInv => BoundaryLookupsHit
  <2> SUFFICES ASSUME IInv, NEW c \in Ids, c \in Constructed
               PROVE  /\ stage[c] = "hibernating" => hibernating < memory
                      /\ stage[c] = "inactive" => inactive < memory /\ hibernating \in 1 .. memory
                      /\ stage[c] = "active"   => inactive \in 1 .. memory
    BY AreaPointwise DEF BoundaryLookupsHit
  <2> QED BY TransitionFacts DEF AreaOf
<1> QED BY <1>1, AreasSound, PTL

\* The layout of the buffer implements the lifecycle of the components.
THEOREM LifecycleImplemented == ~RemoveAtAnyStage => (Spec => ImplementsLifecycle)
<1>1. Init => Stage!Init
  BY DEF Init, Stage!Init, LayoutStage, Constructed
<1>2. IInv /\ IInv' /\ [Next]_vars => [Stage!Next]_LayoutStage
  <2> SUFFICES ASSUME IInv, IInv', [Next]_vars PROVE [Stage!Next]_LayoutStage
    OBVIOUS
  <2>1. LayoutStage = stage /\ LayoutStage' = stage'
    BY DEF IInv, AreaMatchesStage
  <2> USE DEF Stage!Next, Stage!Transition
  <2>2. ASSUME NEW id \in Ids, CreateInPlace(id) \/ CreateGrowing(id) PROVE Stage!Next
    BY <2>1, <2>2 DEF CreateInPlace, CreateGrowing, Construct, Stage!Create
  <2>3. ASSUME NEW id \in Ids, Remove(id) PROVE Stage!Next
    BY <2>1, <2>3 DEF Remove, Stage!Remove
  <2>4. ASSUME NEW id \in Ids, Awake(id) PROVE Stage!Next
    BY <2>1, <2>4 DEF Awake, Transition, Stage!Awake
  <2>5. ASSUME NEW id \in Ids, Activate(id) PROVE Stage!Next
    BY <2>1, <2>5 DEF Activate, Transition, Stage!Activate
  <2>6. ASSUME NEW id \in Ids, Deactivate(id) PROVE Stage!Next
    BY <2>1, <2>6 DEF Deactivate, Transition, Stage!Deactivate
  <2>7. ASSUME NEW id \in Ids, Hibernate(id) PROVE Stage!Next
    BY <2>1, <2>7 DEF Hibernate, Transition, Stage!Hibernate
  <2>8. ASSUME NEW h \in Handles, (\E id \in Ids : GetComponent(h, id)) \/ Dereference(h)
        PROVE  UNCHANGED stage
    BY <2>8 DEF GetComponent, Dereference
  <2>9. CASE UNCHANGED vars
    BY <2>1, <2>9 DEF vars
  <2> QED BY <2>1, <2>2, <2>3, <2>4, <2>5, <2>6, <2>7, <2>8, <2>9 DEF Next
<1> SUFFICES ASSUME ~RemoveAtAnyStage PROVE Spec => ImplementsLifecycle
  OBVIOUS
<1>3. Spec => []IInv
  BY AreasSound
<1> QED BY <1>1, <1>2, <1>3, PTL DEF Spec, ImplementsLifecycle, Stage!Spec

-----------------------------------------------------------------------------
(* The objects in the buffers. *)

\* The cells that the collection has, and what each of them holds: a component
\* as it was created below `memory', nothing behind it, the swap slot included.
CellsMatch ==
  /\ active = buffer
  /\ DOMAIN cells = {active} \X (0 .. cap)
  /\ \A i \in 0 .. cap : cells[<<active, i>>] = IF i < memory THEN Object(slots[i]) ELSE Raw

\* Inductive: while the collection lives its cells follow the slots, and when it
\* is destroyed there are none.
CellsInv ==
  /\ StorageInv
  /\ lost = {}
  /\ active = Null => DOMAIN cells = {}
  /\ active # Null => CellsMatch

\* What the storage invariant says of numbers and slots.
LEMMA StorageFacts ==
  ASSUME StorageInv
  PROVE  /\ cap \in Nat \ {0} /\ memory \in Nat /\ memory <= cap /\ buffer \in Nat
         /\ \A i \in 0 .. memory - 1 : slots[i] \in Ids
         /\ slots \in [0 .. cap - 1 -> Ids \cup {Raw}]
         /\ \A c \in Constructed : map[c] \in 0 .. memory - 1 /\ slots[map[c]] = c
BY DEF StorageInv, TypeOK, MapMatchesSlots

\* A new collection has a raw buffer.
LEMMA CellsInit == RegistryInit => CellsInv
<1> SUFFICES ASSUME RegistryInit PROVE CellsInv OBVIOUS
<1>1. StorageInv BY StorageInit DEF RegistryInit
<1>2. /\ active = 0 /\ buffer = 0 /\ cap = 2 /\ memory = 0 /\ lost = {}
      /\ cells = Malloc([c \in {} |-> Raw], 0, GrowthFactor)
  BY DEF RegistryInit, Init
<1>3. CellsMatch BY <1>2 DEF CellsMatch, Malloc
<1> QED BY <1>1, <1>2, <1>3 DEF CellsInv

\* The constructor runs in the first raw cell.
LEMMA CreateObjectMatches ==
  ASSUME CellsInv, NEW id \in Ids, CreateObject(id)
  PROVE  lost' = {} /\ active' # Null /\ CellsMatch'
<1>1. /\ active # Null /\ active' = active /\ CellsMatch /\ StorageInv /\ lost = {}
      /\ memory < cap /\ memory' = memory + 1 /\ slots' = [slots EXCEPT ![memory] = id]
      /\ UNCHANGED <<cap, buffer>>
      /\ cells' = [cells EXCEPT ![<<active, memory>>] = Object(id)]
      /\ lost' = lost \cup ObjectsIn(cells, {Slot(memory)})
  BY DEF CreateObject, Living, CreateInPlace, Construct, Slot, CellsInv
<1>2. <<active, memory>> \in DOMAIN cells /\ cells[<<active, memory>>] = Raw
  BY <1>1, StorageFacts DEF CellsMatch
<1>3. lost' = {} BY <1>1, <1>2 DEF ObjectsIn, Slot
<1>4. ASSUME NEW i \in 0 .. cap
      PROVE  cells'[<<active, i>>] = IF i < memory' THEN Object(slots'[i]) ELSE Raw
  <2>1. CASE i = memory BY <2>1, <1>1, <1>2, StorageFacts
  <2>2. CASE i # memory
    <3>1. cells'[<<active, i>>] = cells[<<active, i>>] BY <2>2, <1>1 DEF CellsMatch
    <3>2. i < memory' <=> i < memory BY <2>2, <1>1, StorageFacts
    <3>3. i < memory => slots'[i] = slots[i] BY <2>2, <1>1, StorageFacts
    <3> QED BY <3>1, <3>2, <3>3, <1>1 DEF CellsMatch
  <2> QED BY <2>1, <2>2
<1> QED BY <1>1, <1>3, <1>4 DEF CellsMatch

\* reallocate() moves every object to the cell of the same number and destroys
\* what it leaves; then the old buffer goes and the constructor runs.
LEMMA CreateObjectGrowingMatches ==
  ASSUME CellsInv, NEW id \in Ids, CreateObjectGrowing(id)
  PROVE  lost' = {} /\ active' # Null /\ CellsMatch'
<1> DEFINE new == active + 1
           moved == Reallocated(new)
<1>1. /\ active # Null /\ active' = new /\ CellsMatch /\ StorageInv /\ lost = {}
      /\ memory >= cap /\ memory' = memory + 1 /\ slots' = [Grown EXCEPT ![memory] = id]
      /\ cap' = 2 * cap /\ buffer' = buffer + 1
      /\ cells' = [Free(moved, active) EXCEPT ![<<new, memory>>] = Object(id)]
      /\ lost' = lost \cup ObjectsIn(moved, CellsOf(moved, active))
  BY DEF CreateObjectGrowing, Living, CreateGrowing, Construct, CellsInv
<1>2. /\ active = buffer /\ active \in Nat /\ new \in Nat /\ new # active /\ new # Null
      /\ memory = cap /\ cap \in Nat \ {0}
  BY <1>1, StorageFacts DEF CellsMatch
<1>3. /\ DOMAIN moved = ({active} \X (0 .. cap)) \cup ({new} \X (0 .. 2 * cap))
      /\ \A c \in DOMAIN moved :
           moved[c] = IF c[1] = new /\ c[2] < memory THEN cells[<<active, c[2]>>] ELSE Raw
  BY <1>1 DEF Reallocated, Malloc, CellsMatch, Slot
<1>4. lost' = {}
  <2> HIDE DEF moved, new
  <2>1. \A c \in CellsOf(moved, active) : moved[c] = Raw BY <1>2, <1>3 DEF CellsOf
  <2> QED BY <2>1, <1>1 DEF ObjectsIn, CellsOf
<1>5. /\ DOMAIN Free(moved, active) = {new} \X (0 .. 2 * cap)
      /\ \A c \in {new} \X (0 .. 2 * cap) : Free(moved, active)[c] = moved[c]
  <2> HIDE DEF moved, new
  <2> QED BY <1>2, <1>3 DEF Free
<1>6. DOMAIN cells' = {new} \X (0 .. 2 * cap)
  <2> HIDE DEF moved, new
  <2> QED BY <1>1, <1>5
<1>7. ASSUME NEW i \in 0 .. 2 * cap
      PROVE  cells'[<<new, i>>] = IF i < memory' THEN Object(slots'[i]) ELSE Raw
  <2> HIDE DEF moved, new
  <2>1. cells'[<<new, i>>] = IF i = memory THEN Object(id) ELSE moved[<<new, i>>]
    BY <1>1, <1>5
  <2>2. moved[<<new, i>>] = IF i < memory THEN cells[<<active, i>>] ELSE Raw
    BY <1>3
  <2>3. Grown \in [0 .. 2 * cap - 1 -> Ids \cup {Raw}] /\ \A j \in 0 .. memory - 1 : Grown[j] = slots[j]
    BY <1>1, <1>2, StorageFacts DEF Grown
  <2>4. CASE i = memory BY <2>1, <2>3, <2>4, <1>1, <1>2
  <2>5. CASE i < memory
    <3>1. slots'[i] = slots[i] BY <2>3, <2>5, <1>1, <1>2
    <3>2. cells[<<active, i>>] = Object(slots[i]) BY <2>5, <1>1, <1>2 DEF CellsMatch
    <3> QED BY <2>1, <2>2, <2>5, <3>1, <3>2, <1>1, <1>2
  <2>6. CASE i > memory BY <2>1, <2>2, <2>6, <1>1, <1>2
  <2> QED BY <2>4, <2>5, <2>6, <1>2
<1> QED BY <1>1, <1>2, <1>4, <1>6, <1>7 DEF CellsMatch

\* The last object takes the place of the removed one, whose family is destroyed
\* with what is left of the last one.
LEMMA RemoveObjectMatches ==
  ASSUME CellsInv, NEW id \in Ids, RemoveObject(id)
  PROVE  lost' = {} /\ active' # Null /\ CellsMatch'
<1> DEFINE hole == map[id]
           last == memory - 1
<1>1. /\ active # Null /\ active' = active /\ CellsMatch /\ StorageInv /\ lost = {} /\ lost' = lost
      /\ id \in Constructed /\ memory' = last
      /\ slots' = [slots EXCEPT ![hole] = slots[last], ![last] = Raw]
      /\ UNCHANGED <<cap, buffer>>
      /\ cells' = Destruct(MoveAssign(cells, <<active, hole>>, <<active, last>>), {<<active, last>>})
  BY DEF RemoveObject, Living, Remove, Slot, CellsInv
<1>2. /\ hole \in 0 .. memory - 1 /\ last \in 0 .. memory - 1 /\ memory <= cap /\ cap \in Nat /\ memory \in Nat
      /\ slots \in [0 .. cap - 1 -> Ids \cup {Raw}]
  BY <1>1, StorageFacts
<1> HIDE DEF hole, last
<1>3. DOMAIN cells' = DOMAIN cells BY <1>1 DEF Destruct, MoveAssign
<1>4. ASSUME NEW i \in 0 .. cap
      PROVE  cells'[<<active, i>>] = IF i < memory' THEN Object(slots'[i]) ELSE Raw
  <2>1. <<active, i>> \in DOMAIN cells BY <1>1 DEF CellsMatch
  <2>2. CASE i = last BY <2>1, <2>2, <1>1, <1>2 DEF Destruct, MoveAssign
  <2>3. CASE i # last /\ i = hole
    <3>1. cells'[<<active, i>>] = cells[<<active, last>>] BY <2>1, <2>3, <1>1 DEF Destruct, MoveAssign
    <3>2. slots'[i] = slots[last] /\ i < last BY <2>3, <1>1, <1>2 DEF last
    <3> QED BY <3>1, <3>2, <1>1, <1>2 DEF CellsMatch, last
  <2>4. CASE i # last /\ i # hole
    <3>1. cells'[<<active, i>>] = cells[<<active, i>>] BY <2>1, <2>4, <1>1 DEF Destruct, MoveAssign
    <3>2. i < memory => slots'[i] = slots[i] BY <2>4, <1>1, <1>2
    <3>3. i < memory' <=> i < memory BY <2>4, <1>1, <1>2 DEF last
    <3> QED BY <3>1, <3>2, <3>3, <1>1 DEF CellsMatch
  <2> QED BY <2>2, <2>3, <2>4
<1> QED BY <1>1, <1>3, <1>4 DEF CellsMatch

\* Three moves through the swap slot make the objects of two cells trade places.
LEMMA SwapTrades ==
  ASSUME CellsMatch, NEW i \in 0 .. cap - 1, NEW j \in 0 .. cap - 1, memory \in 0 .. cap, cap \in Nat
  PROVE  /\ DOMAIN Swapped(i, j) = DOMAIN cells
         /\ \A k \in 0 .. cap :
              Swapped(i, j)[<<active, k>>] =
                IF k = i THEN cells[<<active, j>>] ELSE IF k = j THEN cells[<<active, i>>] ELSE cells[<<active, k>>]
<1>1. CASE i = j BY <1>1 DEF Swapped
<1>2. CASE i # j
  <2> DEFINE aside == MoveConstruct(cells, <<active, cap>>, <<active, j>>)
             first == MoveAssign(aside, <<active, j>>, <<active, i>>)
             second == MoveAssign(first, <<active, i>>, <<active, cap>>)
  <2>1. Swapped(i, j) = Destruct(second, {<<active, cap>>}) BY <1>2 DEF Swapped, Slot
  <2>2. \A k \in 0 .. cap : <<active, k>> \in DOMAIN cells BY DEF CellsMatch
  <2>3. cells[<<active, cap>>] = Raw BY DEF CellsMatch
  <2>4. /\ DOMAIN aside = DOMAIN cells
        /\ aside[<<active, cap>>] = cells[<<active, j>>]
        /\ \A k \in 0 .. cap - 1 : k # j => aside[<<active, k>>] = cells[<<active, k>>]
    BY <2>2 DEF MoveConstruct
  <2>5. /\ DOMAIN first = DOMAIN cells
        /\ first[<<active, cap>>] = cells[<<active, j>>]
        /\ first[<<active, j>>] = cells[<<active, i>>]
        /\ \A k \in 0 .. cap - 1 : k # i /\ k # j => first[<<active, k>>] = cells[<<active, k>>]
    <3> HIDE DEF aside
    <3> QED BY <2>2, <2>4, <1>2 DEF MoveAssign
  <2>6. /\ DOMAIN second = DOMAIN cells
        /\ second[<<active, i>>] = cells[<<active, j>>]
        /\ second[<<active, j>>] = cells[<<active, i>>]
        /\ \A k \in 0 .. cap - 1 : k # i /\ k # j => second[<<active, k>>] = cells[<<active, k>>]
    <3> HIDE DEF first
    <3> QED BY <2>2, <2>5, <1>2 DEF MoveAssign
  <2> HIDE DEF second
  <2> QED BY <2>1, <2>2, <2>3, <2>6, <1>2 DEF Destruct
<1> QED BY <1>1, <1>2

\* A transition swaps the objects as it swaps the slots.
LEMMA TransitionMatches ==
  ASSUME CellsInv, NEW id \in Ids, NEW b \in Int,
         NEW from \in Stages \ {"absent"}, NEW to \in Stages \ {"absent"},
         Living, Transition(id, from, to, b), SwapObjects(id, b)
  PROVE  lost' = {} /\ active' # Null /\ CellsMatch'
<1>1. /\ active # Null /\ active' = active /\ CellsMatch /\ StorageInv /\ lost = {}
      /\ UNCHANGED <<memory, cap, buffer>>
      /\ id \in Constructed /\ b \in 0 .. memory - 1
      /\ cells' = Swapped(map[id], b)
      /\ lost' = lost \cup ObjectsIn(cells, {Slot(cap)})
  BY DEF Living, Transition, SwapObjects, CellsInv
<1>2. /\ map[id] \in 0 .. memory - 1 /\ memory \in 0 .. cap /\ cap \in Nat /\ slots[map[id]] = id
      /\ slots \in [0 .. cap - 1 -> Ids \cup {Raw}]
  BY <1>1, StorageFacts
<1>3. slots' = [slots EXCEPT ![map[id]] = slots[b], ![b] = id] BY <1>1, TransitionMoves
<1>4. lost' = {} BY <1>1, <1>2 DEF CellsMatch, ObjectsIn, Slot
<1>5. /\ DOMAIN cells' = DOMAIN cells
      /\ \A k \in 0 .. cap :
           cells'[<<active, k>>] =
             IF k = map[id] THEN cells[<<active, b>>]
             ELSE IF k = b THEN cells[<<active, map[id]>>] ELSE cells[<<active, k>>]
  BY <1>1, <1>2, SwapTrades
<1>6. ASSUME NEW k \in 0 .. cap
      PROVE  cells'[<<active, k>>] = IF k < memory THEN Object(slots'[k]) ELSE Raw
  <2>1. CASE k = map[id]
    <3>1. slots'[k] = slots[b] BY <2>1, <1>1, <1>2, <1>3
    <3> QED BY <2>1, <3>1, <1>1, <1>2, <1>5 DEF CellsMatch
  <2>2. CASE k # map[id] /\ k = b
    <3>1. slots'[k] = id BY <2>2, <1>1, <1>2, <1>3
    <3> QED BY <2>2, <3>1, <1>1, <1>2, <1>5 DEF CellsMatch
  <2>3. CASE k # map[id] /\ k # b
    <3>1. k < memory => slots'[k] = slots[k] BY <2>3, <1>1, <1>2, <1>3
    <3> QED BY <2>3, <3>1, <1>1, <1>5 DEF CellsMatch
  <2> QED BY <2>1, <2>2, <2>3
<1> QED BY <1>1, <1>4, <1>5, <1>6 DEF CellsMatch

\* ~ComponentCollection() runs the destructors of all objects and frees the buffer.
LEMMA DestroyEmpties ==
  ASSUME CellsInv, Destroy
  PROVE  lost' = {} /\ active' = Null /\ DOMAIN cells' = {}
<1>1. /\ active # Null /\ active' = Null /\ CellsMatch /\ StorageInv /\ lost = {}
      /\ cells' = Free(Destruct(cells, InUse), active)
      /\ lost' = lost \cup ObjectsIn(Destruct(cells, InUse), CellsOf(cells, active))
  BY DEF Destroy, Living, Destroyed, CellsInv
<1>2. DOMAIN Destruct(cells, InUse) = DOMAIN cells BY DEF Destruct
<1>3. DOMAIN cells' = {} BY <1>1, <1>2 DEF Free, CellsMatch
<1>4. ASSUME NEW c \in DOMAIN cells PROVE Destruct(cells, InUse)[c] = Raw
  <2>1. PICK i \in 0 .. cap : c = <<active, i>> BY <1>1 DEF CellsMatch
  <2>2. CASE i < memory
    <3>1. c \in InUse BY <2>1, <2>2, <1>1, StorageFacts DEF InUse, Slot
    <3> QED BY <3>1 DEF Destruct
  <2>3. CASE ~(i < memory) BY <2>1, <2>3, <1>1 DEF Destruct, CellsMatch
  <2> QED BY <2>2, <2>3
<1>5. lost' = {} BY <1>1, <1>2, <1>4 DEF ObjectsIn
<1> QED BY <1>1, <1>3, <1>5

\* Every step of the registry is one of the collection, or leaves it alone.
LEMMA RegistryStepsCollection == [RegistryNext]_allVars => [Next]_vars
BY DEF RegistryNext, allVars, Next, CreateObject, CreateObjectGrowing, RemoveObject, Transitions, UseHandle,
       RegisterComponent, Destroy

\* The invariant of the cells is inductive.
LEMMA CellsStep == CellsInv /\ [RegistryNext]_allVars => CellsInv'
<1> SUFFICES ASSUME CellsInv, [RegistryNext]_allVars PROVE CellsInv' OBVIOUS
<1>1. StorageInv' BY RegistryStepsCollection, StorageStep DEF CellsInv
<1>2. inactive \in Int /\ hibernating \in Int BY DEF CellsInv, StorageInv, TypeOK
<1>3. ASSUME NEW id \in Ids, CreateObject(id) PROVE CellsInv'
  BY <1>1, <1>3, CreateObjectMatches DEF CellsInv
<1>4. ASSUME NEW id \in Ids, CreateObjectGrowing(id) PROVE CellsInv'
  BY <1>1, <1>4, CreateObjectGrowingMatches DEF CellsInv
<1>5. ASSUME NEW id \in Ids, RemoveObject(id) PROVE CellsInv'
  BY <1>1, <1>5, RemoveObjectMatches DEF CellsInv
<1>6. ASSUME NEW id \in Ids, Living, Transitions(id) PROVE CellsInv'
  <2>1. PICK b \in Int, from \in Stages \ {"absent"}, to \in Stages \ {"absent"} :
          Transition(id, from, to, b) /\ SwapObjects(id, b)
    BY <1>2, <1>6 DEF Transitions, Awake, Activate, Deactivate, Hibernate, Stages
  <2> QED BY <1>1, <1>6, <2>1, TransitionMatches DEF CellsInv
<1>7. CASE UNCHANGED <<slots, memory, cap, buffer, cells, active, lost>>
  BY <1>1, <1>7 DEF CellsInv, CellsMatch
<1>8. ASSUME NEW h \in Handles, UseHandle(h) PROVE CellsInv'
  BY <1>7, <1>8 DEF UseHandle, GetComponent, Dereference, layout
<1>9. ASSUME RegisterComponent PROVE CellsInv'
  BY <1>7, <1>9 DEF RegisterComponent, Destroyed, LeftBehind, vars, layout
<1>10. ASSUME Destroy PROVE CellsInv'
  BY <1>1, <1>10, DestroyEmpties DEF CellsInv
<1>11. CASE UNCHANGED allVars
  BY <1>7, <1>11 DEF allVars, registryVars, vars, layout
<1> QED
  BY <1>3, <1>4, <1>5, <1>6, <1>8, <1>9, <1>10, <1>11 DEF RegistryNext

\* Storage, map, handles and the objects in the cells fit each other, for every client.
THEOREM RegistrySound == RegistrySpec => []CellsInv
BY CellsInit, CellsStep, PTL DEF RegistrySpec

\* A component keeps what it was created with, through every swap, reallocation
\* and move of its collection.
THEOREM ComponentsKeepContents == RegistrySpec => []ContentsKept
<1>1. CellsInv => ContentsKept
  BY StorageFacts DEF CellsInv, CellsMatch, ContentsKept, Slot
<1> QED BY <1>1, RegistrySound, PTL

\* The destructor of every object runs once and before its memory is freed, and no
\* buffer outlives the collection.
THEOREM NoObjectLost == RegistrySpec => []ObjectsAccounted
<1>1. CellsInv => ObjectsAccounted
  <2> SUFFICES ASSUME CellsInv, active # Null
               PROVE  {c \in DOMAIN cells : cells[c] # Raw} = InUse
    BY DEF CellsInv, ObjectsAccounted, CellsMatch
  <2>1. CellsMatch /\ memory \in 0 .. cap /\ cap \in Nat /\ \A i \in 0 .. memory - 1 : Object(slots[i]) # Raw
    BY StorageFacts, ObjectAssumption DEF CellsInv
  <2>2. ASSUME NEW i \in 0 .. cap PROVE cells[<<active, i>>] # Raw <=> i \in 0 .. memory - 1
    BY <2>1 DEF CellsMatch
  <2> QED BY <2>1, <2>2 DEF CellsMatch, InUse, Slot
<1> QED BY <1>1, RegistrySound, PTL

\* The registry's steps on the storage are those of ComponentCollection, so that
\* handles stay right while their collection is used as its header demands.
THEOREM HandlesSurvive == RegistrySpec => []HandlesNeverStale
<1>1. RegistryInit => Init BY DEF RegistryInit
<1>2. RegistrySpec => Spec BY <1>1, RegistryStepsCollection, PTL DEF RegistrySpec, Spec
<1> QED BY <1>2, HandlesSound, PTL
=============================================================================
