--------------------------- MODULE ExecutionLayers ---------------------------
(***************************************************************************)
(* createExecutionLayers (EntityManager.cpp): the component types that     *)
(* implement an operation are divided into layers.  The types of a layer   *)
(* are executed concurrently by the pool, the layers one after the other.  *)
(* The operation is that of one phase: update, receiveLogicEvent or        *)
(* receiveEntityEvent.  configureComponents() does all of it three times.  *)
(*                                                                         *)
(* One action is one iteration of a loop.  Types are numbers because the   *)
(* code orders them by TypeIdentifier::getValue().  A layer is kept sorted *)
(* in the code and its order is of no consequence: here it is a set.       *)
(***************************************************************************)
EXTENDS ComponentTypes, Integers, Sequences, FiniteSets

CONSTANTS
  Registrations,    \* inputs: [phase, classes], the classes in the order of registration
  ThreadCounts      \* inputs: numbers of threads of the pool

ASSUME RegistrationsAssumption ==
  \A r \in Registrations :
    /\ r.phase \in Phases
    /\ r.classes \in Seq(Classes)
    /\ \A i, j \in DOMAIN r.classes : r.classes[i].type = r.classes[j].type => i = j
ASSUME ThreadCountsAssumption == ThreadCounts \subseteq Nat \ {0}

VARIABLES
  registration,      \* the classes, and the phase the layers are for
  collections,       \* what the getters return for the registered components
  threadCount,
  pc,
  next,              \* the collection that initializeData looks at next
  pending,           \* the types in componentAccessLists
  connectionSet,     \* connectionSet[t], for the types t that were pending
  executionOrder,    \* the layers so far; the last one is being filled
  accessListsCopy,   \* the types that may still join the last layer
  connected,         \* connectedComponents
  executionLayers    \* the result: layers of indices into collections

input == <<registration, collections, threadCount>>
vars == <<input, pc, next, pending, connectionSet, executionOrder, accessListsCopy,
          connected, executionLayers>>

Types == {collections[i].type : i \in DOMAIN collections}

Init ==
  /\ registration \in Registrations
  /\ collections = [i \in DOMAIN registration.classes |->
                      LayerInput(registration.classes[i], registration.phase)]
  /\ threadCount \in ThreadCounts
  /\ pc = "collect"
  /\ next = 1
  /\ pending = {}
  /\ connectionSet = [t \in Types |-> {}]
  /\ executionOrder = <<>>
  /\ accessListsCopy = {}
  /\ connected = {}
  /\ executionLayers = <<>>

Back == executionOrder[Len(executionOrder)]
SetBack(layer) == executionOrder' = [executionOrder EXCEPT ![Len(executionOrder)] = layer]

-----------------------------------------------------------------------------
(* initializeData *)

Collecting == pc = "collect" /\ next <= Len(collections)

Alone(c) == c.access \in {"READ_WRITE", "UNKNOWN"}

\* Components without the operation are not executed.
CollectNone ==
  /\ Collecting
  /\ ~collections[next].executed
  /\ next' = next + 1
  /\ UNCHANGED <<input, pc, pending, connectionSet, executionOrder, accessListsCopy, connected, executionLayers>>

\* READ_WRITE and UNKNOWN types get a layer of their own.
CollectAlone ==
  /\ Collecting
  /\ LET c == collections[next] IN
       /\ c.executed /\ Alone(c)
       /\ executionOrder' = Append(executionOrder, {c.type})
  /\ next' = next + 1
  /\ UNCHANGED <<input, pc, pending, connectionSet, accessListsCopy, connected, executionLayers>>

\* The others become pending with the types they read, themselves excepted.
\* (For INDEPENDENT types the connections of a copy are cleared.)
Collect ==
  /\ Collecting
  /\ LET c == collections[next] IN
       /\ c.executed /\ ~Alone(c)
       /\ pending' = pending \cup {c.type}
       /\ connectionSet' = [connectionSet EXCEPT ![c.type] = c.deps \ {c.type}]
  /\ next' = next + 1
  /\ UNCHANGED <<input, pc, executionOrder, accessListsCopy, connected, executionLayers>>

\* Fault: connections are left one-way.
ConnectOneWay ==
  /\ pc = "collect" /\ next > Len(collections)
  /\ pc' = "start"
  /\ UNCHANGED <<input, next, pending, connectionSet, executionOrder, accessListsCopy, connected, executionLayers>>

\* "If A reads B, B also needs to read A in this model", for pending A and B.
Connect ==
  /\ pc = "collect" /\ next > Len(collections)
  /\ pc' = "start"
  /\ connectionSet' = [t \in Types |->
       connectionSet[t] \cup
         {s \in pending : t \in pending /\ t \in connectionSet[s]}]
  /\ UNCHANGED <<input, next, pending, executionOrder, accessListsCopy, connected, executionLayers>>

-----------------------------------------------------------------------------
(* createExecutionLayers *)

Degree(t) == Cardinality(connectionSet[t])

\* A new layer starts with a type that has the most connections (std::sort
\* leaves the order of equals open).
StartLayer ==
  /\ pc = "start"
  /\ \E t \in pending :
       /\ \A s \in pending : Degree(s) <= Degree(t)
       /\ executionOrder' = Append(executionOrder, {t})
       /\ connected' = connectionSet[t]
       /\ accessListsCopy' = pending \ {t}
  /\ pc' = "fill"
  /\ UNCHANGED <<input, next, pending, connectionSet, executionLayers>>

\* The candidates without a connection to the layer.
Candidates == {t \in accessListsCopy : connectionSet[t] \cap Back = {}}

\* The one that shares the most connections with the layer joins it; among
\* equals the one that was sorted first.
Shared(t) == Cardinality(connectionSet[t] \cap connected)
Better(t, s) == Shared(t) > Shared(s) \/ (Shared(t) = Shared(s) /\ Degree(t) > Degree(s))

\* Fault: the type that joined stays in accessListsCopy.
AddKeeping ==
  /\ pc = "fill"
  /\ \E t \in Candidates :
       /\ \A s \in Candidates : ~Better(s, t)
       /\ SetBack(Back \cup {t})
       /\ connected' = connected \cup connectionSet[t]
       /\ accessListsCopy' = Candidates
  /\ UNCHANGED <<input, pc, next, pending, connectionSet, executionLayers>>

AddToLayer ==
  /\ pc = "fill"
  /\ \E t \in Candidates :
       /\ \A s \in Candidates : ~Better(s, t)
       /\ SetBack(Back \cup {t})
       /\ connected' = connected \cup connectionSet[t]
       /\ accessListsCopy' = Candidates \ {t}
  /\ UNCHANGED <<input, pc, next, pending, connectionSet, executionLayers>>

\* The types with the largest values, as many as do not fill the pool evenly.
Overshot(layer) ==
  LET n == Cardinality(layer) % threadCount IN
  IF n = Cardinality(layer) THEN {}
  ELSE {t \in layer : Cardinality({s \in layer : s > t}) < n}

\* Fault: the types that were removed from the layer are not executed.
FinishLosing ==
  /\ pc = "fill"
  /\ Candidates = {}
  /\ SetBack(Back \ Overshot(Back))
  /\ pending' = pending \ Back
  /\ accessListsCopy' = {}
  /\ pc' = "start"
  /\ UNCHANGED <<input, next, connectionSet, connected, executionLayers>>

\* The layer is complete: trim it, and take its types off the pending ones.
FinishLayer ==
  /\ pc = "fill"
  /\ Candidates = {}
  /\ SetBack(Back \ Overshot(Back))
  /\ pending' = pending \ (Back \ Overshot(Back))
  /\ accessListsCopy' = {}
  /\ pc' = "start"
  /\ UNCHANGED <<input, next, connectionSet, connected, executionLayers>>

(* parseExecutionOrder: types become indices of collections. *)

\* std::find_if over the collections.
IndexOf(t) == CHOOSE i \in DOMAIN collections : collections[i].type = t

Parse ==
  /\ pc = "start"
  /\ pending = {}
  /\ executionLayers' = [k \in DOMAIN executionOrder |-> {IndexOf(t) : t \in executionOrder[k]}]
  /\ pc' = "done"
  /\ UNCHANGED <<input, next, pending, connectionSet, executionOrder, accessListsCopy, connected>>

-----------------------------------------------------------------------------

Step ==
  \/ CollectNone
  \/ CollectAlone
  \/ Collect
  \/ Connect
  \/ StartLayer
  \/ AddToLayer
  \/ FinishLayer
  \/ Parse

Returned == pc = "done" /\ UNCHANGED vars

Next == Step \/ Returned

Spec == Init /\ [][Next]_vars /\ WF_vars(Step)

-----------------------------------------------------------------------------
(* Properties. *)

TypeOK ==
  /\ registration.phase \in Phases
  /\ threadCount \in ThreadCounts
  /\ pc \in {"collect", "start", "fill", "done"}
  /\ next \in 1 .. Len(collections) + 1
  /\ pending \subseteq Types
  /\ connectionSet \in [Types -> SUBSET Nat]
  /\ executionOrder \in Seq(SUBSET Types)
  /\ accessListsCopy \subseteq pending
  /\ connected \subseteq Nat
  /\ executionLayers \in Seq(SUBSET (1 .. Len(collections)))

\* What the author of a class says of its function, or nothing.
Says(i)     == registration.classes[i].access[registration.phase]
Names(i)    == registration.classes[i].deps[registration.phase]
HasHook(i)  == registration.phase \in registration.classes[i].overridden
Reads(i, j) == i # j /\ registration.classes[j].type \in Names(i)
Layer(k)    == {i \in DOMAIN collections : collections[i].type \in executionOrder[k]}

\* The function of a class may read the types it names as dependencies: they
\* are never in one layer, at no point of the computation.
NoReaderInLayer ==
  \A k \in DOMAIN executionOrder : \A i, j \in Layer(k) : ~Reads(i, j)

\* A class that writes to others, or whose author did not say, is executed
\* alone: UNKNOWN is what createMetaInformation leaves for it.
WritersAlone ==
  \A k \in DOMAIN executionOrder : \A i \in Layer(k) :
    Says(i) \in {"READ_WRITE", "UNKNOWN", "undeclared"} => Layer(k) = {i}

\* What runs at the same time is independent of each other.
LayersIndependent == NoReaderInLayer /\ WritersAlone

\* In the end every class that overrides the function of the phase is in exactly
\* one layer, and the others are in none.
ExecutedOnce ==
  pc = "done" =>
    \A i \in DOMAIN collections :
      /\ HasHook(i) <=> \E k \in DOMAIN executionLayers : i \in executionLayers[k]
      /\ \A k, l \in DOMAIN executionLayers :
           i \in executionLayers[k] /\ i \in executionLayers[l] => k = l

\* The computation ends.
Terminates == <>(pc = "done")

=============================================================================
