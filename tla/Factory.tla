------------------------------- MODULE Factory -------------------------------
(***************************************************************************)
(* nox::ecs::Factory: entities are created from definitions (JSON).  A     *)
(* definition may extend another one, and may name definitions from which  *)
(* the children of the entity are created, by the same operation again.    *)
(* Several threads create entities; they share the counter of the ids and  *)
(* the stack of creation requests of EntityManager (module LockFreeStack;  *)
(* its order matters to no property, so it is a set here).                 *)
(*                                                                         *)
(* Of a component's JSON value, its members are modelled and their values  *)
(* are scalars; deeper values are merged by the same rule.                 *)
(***************************************************************************)
EXTENDS Integers, Sequences, FiniteSets

CONSTANTS
  Threads,
  Names,            \* names of definitions
  Catalogue,        \* the definitions that the exploration chooses from
  CHILDREN, PARENT, \* the types of the family components
  Identifier,       \* the member "identifier" of a component's JSON value
  None,             \* null
  MaxDefinitions,   \* bound of the exploration on createEntityDefinition()
  MaxEntities       \* bound of the exploration on calls of createEntity()

\* Definitions: the components of a definition are objects by name.
IsFcn(f) == f = [k \in DOMAIN f |-> f[k]]
ASSUME DefinitionsAssumption ==
  \A d \in Catalogue :
    /\ d.name \in Names /\ d.extend \in {None} \cup Names
    /\ d.children \in {None} \cup Seq(Names)
    /\ IsFcn(d.components) /\ \A c \in DOMAIN d.components : IsFcn(d.components[c])
ASSUME NamesAssumption == IsFiniteSet(Names) /\ None \notin Names \cup Nat \cup Seq(Names) /\ CHILDREN # PARENT

\* A definition leads to itself neither by "extend" nor by its children: the
\* code does not look for a cycle and would not return.
Uses(d) ==
  {d.extend} \cup (IF d.children = None THEN {} ELSE {d.children[i] : i \in DOMAIN d.children})
ASSUME CatalogueAssumption ==
  \E rank \in [Names -> 0 .. Cardinality(Names)] :
    \A d \in Catalogue : \A n \in Uses(d) \cap Names : rank[n] < rank[d.name]
ASSUME BoundsAssumption == MaxDefinitions \in Nat /\ MaxEntities \in Nat

VARIABLES
  definitions,        \* the sequence of the definitions, oldest first
  currentEntityId,
  creationRequests,   \* what assignComponent() was called with
  calls,              \* calls[t]: the running calls of createEntity(), innermost last
  origin              \* history: the name that each entity was created from

vars == <<definitions, currentEntityId, creationRequests, calls, origin>>

Init ==
  /\ definitions = <<>>
  /\ currentEntityId = 0
  /\ creationRequests = {}
  /\ calls = [t \in Threads |-> <<>>]
  /\ origin = <<>>

-----------------------------------------------------------------------------
(* Definitions *)

CreateEntityDefinition(d) ==
  /\ currentEntityId = 0      \* definitions are loaded before entities are made
  /\ Len(definitions) < MaxDefinitions
  /\ \A i \in DOMAIN definitions : definitions[i] # d   \* a copy would not be found
  /\ definitions' = Append(definitions, d)
  /\ UNCHANGED <<currentEntityId, creationRequests, calls, origin>>

Defined(n) == \E i \in DOMAIN definitions : definitions[i].name = n

\* The first definition of that name.
Find(n) ==
  definitions[CHOOSE i \in DOMAIN definitions :
                /\ definitions[i].name = n
                /\ \A j \in 1 .. i - 1 : definitions[j].name # n]

\* extendJsonValue() for two objects: the members of `source' replace those of
\* the same name.
ExtendObject(destination, source) ==
  [k \in DOMAIN destination \cup DOMAIN source |->
     IF k \in DOMAIN source THEN source[k] ELSE destination[k]]

ExtendComponents(destination, source) ==
  [n \in DOMAIN destination \cup DOMAIN source |->
     IF n \notin DOMAIN source THEN destination[n]
     ELSE IF n \notin DOMAIN destination THEN source[n]
     ELSE ExtendObject(destination[n], source[n])]

\* The member "Children" is an array: it is extended place by place.
ExtendChildren(destination, source) ==
  IF source = None THEN destination
  ELSE IF destination = None THEN source
  ELSE source \o SubSeq(destination, Len(source) + 1, Len(destination))

\* getTypeIdentifier()
TypeOf(name, object) == IF Identifier \in DOMAIN object THEN object[Identifier] ELSE name

\* No definition holds a family component by another name than "Children": as "Parent", or
\* with the number of one of the two types as its "identifier".
FamilyFree(components) ==
  \A n \in DOMAIN components : TypeOf(n, components[n]) \notin {CHILDREN, PARENT}
NoFamilyByHand == \A d \in Catalogue : FamilyFree(d.components)

-----------------------------------------------------------------------------
(* EntityManager::createEntity(name) and Factory::createEntity(id, name).  *)

\* What createEntity() starts with: the components of the definition itself,
\* which is also the first one on the stack of extensions.
NewCall(id, n) ==
  [id |-> id, extend |-> Find(n).extend, stack |-> <<Find(n)>>,
   components |-> Find(n).components, children |-> Find(n).children,
   next |-> 1, child |-> None, kids |-> <<>>, family |-> FALSE]

\* The stack of t with the calls cs below, and the call for n on top if there is
\* such a definition.
Enter(cs, n) == IF Defined(n) THEN Append(cs, NewCall(currentEntityId, n)) ELSE cs

\* Fault: the counter is read and not incremented.
TakeIdTwice(n) ==
  /\ currentEntityId' = IF currentEntityId = 0 THEN 1 ELSE currentEntityId
  /\ origin' = Append(origin, n)

\* currentEntityId.fetch_add(1)
TakeId(n) ==
  /\ currentEntityId' = currentEntityId + 1
  /\ origin' = Append(origin, n)

CreateEntity(t, n) ==
  /\ calls[t] = <<>>
  /\ currentEntityId < MaxEntities
  /\ TakeId(n)
  /\ calls' = [calls EXCEPT ![t] = Enter(<<>>, n)]
  /\ UNCHANGED <<definitions, creationRequests>>

Running(t) == calls[t] # <<>>
Depth(t) == Len(calls[t])
Top(t) == calls[t][Depth(t)]

\* The innermost call of t goes on as c.
Continue(t, c) == calls' = [calls EXCEPT ![t][Depth(t)] = c]

\* Fault: the loop looks for an unknown name again and again.
ExtendForever(t) ==
  /\ Running(t) /\ Top(t).extend # None
  /\ Continue(t, IF Defined(Top(t).extend)
                 THEN [Top(t) EXCEPT !.extend = Find(@).extend, !.stack = Append(@, Find(Top(t).extend))]
                 ELSE Top(t))
  /\ UNCHANGED <<definitions, currentEntityId, creationRequests, origin>>

\* createExtensionStack(): one iteration.  An unknown name ends the loop.
Extend(t) ==
  /\ Running(t) /\ Top(t).extend # None
  /\ Continue(t, IF Defined(Top(t).extend)
                 THEN [Top(t) EXCEPT !.extend = Find(@).extend, !.stack = Append(@, Find(Top(t).extend))]
                 ELSE [Top(t) EXCEPT !.extend = None])
  /\ UNCHANGED <<definitions, currentEntityId, creationRequests, origin>>

\* Fault: the extensions are applied from the definition up.
MergeFirst(t) ==
  /\ Running(t) /\ Top(t).extend = None /\ Top(t).stack # <<>>
  /\ LET value == Head(Top(t).stack) IN
     Continue(t, [Top(t) EXCEPT !.components = ExtendComponents(@, value.components),
                                !.children = ExtendChildren(@, value.children),
                                !.stack = Tail(@)])
  /\ UNCHANGED <<definitions, currentEntityId, creationRequests, origin>>

\* The extensions are applied from the top of the stack down.
Merge(t) ==
  /\ Running(t) /\ Top(t).extend = None /\ Top(t).stack # <<>>
  /\ LET depth == Len(Top(t).stack)
         value == Top(t).stack[depth]
     IN Continue(t, [Top(t) EXCEPT !.components = ExtendComponents(@, value.components),
                                   !.children = ExtendChildren(@, value.children),
                                   !.stack = SubSeq(@, 1, depth - 1)])
  /\ UNCHANGED <<definitions, currentEntityId, creationRequests, origin>>

Merged(t) == Running(t) /\ Top(t).extend = None /\ Top(t).stack = <<>>

\* assignComponent(): the request is pushed.
Request(id, type, json, kids, parent) ==
  creationRequests' = creationRequests \cup
    {[id |-> id, type |-> type, json |-> json, kids |-> kids, parent |-> parent]}

HasMoreChildren(t) == Top(t).children # None /\ Top(t).next <= Len(Top(t).children)

\* parseChildren(): the next child is created, in a call of its own.
CreateChild(t) ==
  /\ Merged(t) /\ Top(t).child = None /\ HasMoreChildren(t)
  /\ LET name == Top(t).children[Top(t).next]
         waiting == [Top(t) EXCEPT !.child = currentEntityId, !.next = @ + 1]
     IN /\ TakeId(name)
        /\ calls' = [calls EXCEPT ![t] = Enter([@ EXCEPT ![Depth(t)] = waiting], name)]
  /\ UNCHANGED <<definitions, creationRequests>>

\* addChild(): an id is listed once.
AddChild(kids, id) == IF id \in {kids[i] : i \in DOMAIN kids} THEN kids ELSE Append(kids, id)

\* The child was created: it gets its parent, and the parent gets the child.
AssignParent(t) ==
  /\ Merged(t) /\ Top(t).child # None
  /\ Request(Top(t).child, PARENT, <<>>, <<>>, Top(t).id)
  /\ Continue(t, [Top(t) EXCEPT !.kids = AddChild(@, Top(t).child), !.child = None])
  /\ UNCHANGED <<definitions, currentEntityId, origin>>

AssignChildren(t) ==
  /\ Merged(t) /\ Top(t).child = None /\ ~HasMoreChildren(t)
  /\ Top(t).children # None /\ ~Top(t).family
  /\ Request(Top(t).id, CHILDREN, <<>>, Top(t).kids, None)
  /\ Continue(t, [Top(t) EXCEPT !.family = TRUE])
  /\ UNCHANGED <<definitions, currentEntityId, origin>>

FamilyDone(t) == Merged(t) /\ (Top(t).children = None \/ Top(t).family)

\* The other components, one after the other.
AssignComponent(t, n) ==
  /\ FamilyDone(t)
  /\ n \in DOMAIN Top(t).components
  /\ LET object == Top(t).components[n] IN
     Request(Top(t).id, TypeOf(n, object), object, <<>>, None)
  /\ Continue(t, [Top(t) EXCEPT !.components = [m \in DOMAIN @ \ {n} |-> @[m]]])
  /\ UNCHANGED <<definitions, currentEntityId, origin>>

Return(t) ==
  /\ FamilyDone(t)
  /\ DOMAIN Top(t).components = {}
  /\ calls' = [calls EXCEPT ![t] = SubSeq(@, 1, Depth(t) - 1)]
  /\ UNCHANGED <<definitions, currentEntityId, creationRequests, origin>>

Step(t) ==
  /\ Running(t)
  /\ \/ Extend(t)
     \/ Merge(t)
     \/ CreateChild(t)
     \/ AssignParent(t)
     \/ AssignChildren(t)
     \/ \E n \in DOMAIN Top(t).components : AssignComponent(t, n)
     \/ Return(t)

Next ==
  \/ \E d \in Catalogue : CreateEntityDefinition(d)
  \/ \E t \in Threads : \/ \E n \in Names : CreateEntity(t, n)
                        \/ Step(t)

Spec == Init /\ [][Next]_vars

\* A thread in createEntity() keeps running.
FairSpec == Spec /\ \A t \in Threads : WF_vars(Step(t))

-----------------------------------------------------------------------------
(* Properties. *)

Frames == UNION {{calls[t][i] : i \in DOMAIN calls[t]} : t \in Threads}
Ids == 0 .. currentEntityId - 1

TypeOK ==
  /\ Len(definitions) <= MaxDefinitions
  /\ Len(origin) = currentEntityId
  /\ \A r \in creationRequests :
       /\ r.id \in Ids
       /\ r.parent \in Ids \cup {None}
       /\ \A i \in DOMAIN r.kids : r.kids[i] \in Ids
  /\ \A f \in Frames :
       /\ f.id \in Ids
       /\ f.child \in Ids \cup {None}
       /\ f.extend \in Names \cup {None}

\* What the definitions say of an entity created from n, read off the chain of
\* extensions: a member has the value that the nearest definition gives it.
Chain(n) ==
  LET at[i \in 0 .. Len(definitions)] ==
        IF i = 0 THEN n
        ELSE IF Defined(at[i - 1]) THEN Find(at[i - 1]).extend ELSE None
      length == Cardinality({i \in DOMAIN at : Defined(at[i])})
  IN [i \in 1 .. length |-> Find(at[i - 1])]

Nearest(chain, Has(_)) ==
  chain[CHOOSE i \in DOMAIN chain : Has(chain[i]) /\ \A j \in 1 .. i - 1 : ~Has(chain[j])]

DefinedComponents(n) ==
  LET chain == Chain(n)
      names == UNION {DOMAIN chain[i].components : i \in DOMAIN chain}
      with(c) == {i \in DOMAIN chain : c \in DOMAIN chain[i].components}
      members(c) == UNION {DOMAIN chain[i].components[c] : i \in with(c)}
      Gives(c, k) ==
        LET has(d) == c \in DOMAIN d.components /\ k \in DOMAIN d.components[c]
        IN Nearest(chain, has).components[c][k]
  IN [c \in names |-> [k \in members(c) |-> Gives(c, k)]]

DefinedChildren(n) ==
  LET chain == Chain(n)
      lists == {chain[i].children : i \in DOMAIN chain} \ {None}
      length == CHOOSE l \in {Len(c) : c \in lists} : \A c \in lists : Len(c) <= l
      Place(i) ==
        LET has(d) == d.children # None /\ i <= Len(d.children)
        IN Nearest(chain, has).children[i]
  IN IF lists = {} THEN None ELSE [i \in 1 .. length |-> Place(i)]

Built(id) == \A f \in Frames : f.id # id /\ f.child # id
OfType(id, types) == {r \in creationRequests : r.id = id /\ r.type \in types}

\* Once createEntity() is through with an entity, the components asked for are
\* those that its definition and the ones it extends name, the nearest
\* definition winning member by member, whatever other threads create at the
\* same time; and its children were created from the definitions named.
BuiltAsDefined ==
  \A id \in Ids : Built(id) =>
    LET components == DefinedComponents(origin[id + 1])
        children == DefinedChildren(origin[id + 1])
        family == OfType(id, {CHILDREN})
    IN /\ {<<r.type, r.json>> : r \in {q \in creationRequests : q.id = id} \ OfType(id, {CHILDREN, PARENT})}
            = {<<TypeOf(c, components[c]), components[c]>> : c \in DOMAIN components}
       /\ IF children = None THEN family = {} ELSE
            \E r \in family :
              /\ family = {r}
              /\ [i \in DOMAIN r.kids |-> origin[r.kids[i] + 1]] = children

\* An entity is the child of one parent at most, and parent and children know
\* each other: the family components that parseChildren() makes never point
\* past each other.
FamiliesAgree ==
  /\ \A r \in creationRequests : r.type = CHILDREN =>
       \A i, j \in DOMAIN r.kids :
         /\ \E q \in OfType(r.kids[i], {PARENT}) : q.parent = r.id
         /\ r.kids[i] = r.kids[j] => i = j
  /\ \A q, r \in creationRequests : q.type = PARENT /\ r.type = PARENT /\ q.id = r.id => q = r
  /\ \A q \in creationRequests : q.type = PARENT =>
       \E f \in Frames \cup OfType(q.parent, {CHILDREN}) :
         f.id = q.parent /\ \E i \in DOMAIN f.kids : f.kids[i] = q.id

\* Requests name entities that exist, and families agree.
RequestsSound == TypeOK /\ FamiliesAgree

\* A call of createEntity() returns, unknown names notwithstanding.
CreationReturns == \A t \in Threads : Running(t) ~> ~Running(t)

=============================================================================
