---------------------------- MODULE ExecutionProofs ----------------------------
(***************************************************************************)
(* Proofs about ExecutionLayers: for any number of component classes, any   *)
(* accesses and dependencies, any number of threads, and whatever types the *)
(* heuristic prefers; and about FrameExecution: for any collections, any    *)
(* layers without a reader beside what it reads, any events and any number  *)
(* of frames.  The layers that the first computes are layers that the       *)
(* second assumes (ResultFitsFrames).                                       *)
(***************************************************************************)
EXTENDS ExecutionLayers, FrameExecution, TLAPS

Registered == 1 .. Len(collections)
TypeOf(i) == collections[i].type

\* Collection i is executed, and may share a layer.
Executed(i) == collections[i].executed
Sharing(i) == Executed(i) /\ ~Alone(collections[i])

-----------------------------------------------------------------------------
(* The inductive invariant of the layers. *)

\* The collections describe the classes, each by a type of its own.
InputKept ==
  /\ registration \in Registrations
  /\ threadCount \in ThreadCounts
  /\ collections = [i \in DOMAIN registration.classes |->
                      LayerInput(registration.classes[i], registration.phase)]

Typed ==
  /\ pc \in {"collect", "start", "fill", "done"}
  /\ next \in 1 .. Len(collections) + 1
  /\ pc # "collect" => next = Len(collections) + 1
  /\ connectionSet \in [Types -> SUBSET Nat]
  /\ executionOrder \in Seq(SUBSET Types)
  /\ accessListsCopy \subseteq pending
  /\ connected \subseteq Nat

\* Pending types share layers.
PendingShare == \A t \in pending : \E i \in Registered : i < next /\ TypeOf(i) = t /\ Sharing(i)

\* Types in layers are executed, and those that must be alone are.
LayersExecute ==
  \A k \in DOMAIN executionOrder : \A t \in executionOrder[k] :
    \E i \in Registered : /\ i < next /\ TypeOf(i) = t /\ Executed(i)
                          /\ Alone(collections[i]) => executionOrder[k] = {t}

\* No type gets lost on its way from the collections to the layers.
NoneLost ==
  \A i \in Registered : i < next /\ Executed(i) =>
    TypeOf(i) \in pending \/ \E k \in DOMAIN executionOrder : TypeOf(i) \in executionOrder[k]

\* Layers have no type in common, and only the layer that is being filled holds
\* pending types.
LayersDisjoint ==
  /\ \A k, l \in DOMAIN executionOrder : k # l => executionOrder[k] \cap executionOrder[l] = {}
  /\ \A k \in DOMAIN executionOrder :
       executionOrder[k] \cap pending = {} \/ (pc = "fill" /\ k = Len(executionOrder))
  /\ pc = "fill" => executionOrder # <<>> /\ Back \subseteq pending

\* Connections are what the authors declared, and from "start" on mutual.
ConnectionsMutual ==
  /\ pc = "collect" =>
       \A i \in Registered : i < next /\ Sharing(i) =>
         TypeOf(i) \in pending /\ collections[i].deps \ {TypeOf(i)} \subseteq connectionSet[TypeOf(i)]
  /\ pc # "collect" =>
       \A i, j \in Registered : Sharing(i) /\ Sharing(j) /\ i # j =>
         /\ TypeOf(j) \in collections[i].deps => TypeOf(j) \in connectionSet[TypeOf(i)]
         /\ TypeOf(i) \in connectionSet[TypeOf(j)] => TypeOf(j) \in connectionSet[TypeOf(i)]

\* No two types of a layer are connected; before "start" layers are single types.
LayersUnconnected ==
  /\ \A k \in DOMAIN executionOrder : \A s, t \in executionOrder[k] : s # t => s \notin connectionSet[t]
  /\ pc = "collect" => \A k \in DOMAIN executionOrder : \E t \in Types : executionOrder[k] = {t}

\* The result, once there is one.
ResultParsed ==
  IF pc = "done"
  THEN /\ pending = {}
       /\ executionLayers = [k \in DOMAIN executionOrder |-> {IndexOf(t) : t \in executionOrder[k]}]
  ELSE executionLayers = <<>>

IInv ==
  /\ InputKept /\ Typed /\ PendingShare /\ LayersExecute /\ NoneLost /\ LayersDisjoint
  /\ ConnectionsMutual /\ LayersUnconnected /\ ResultParsed

-----------------------------------------------------------------------------
(* The input. *)

\* What the getters return for a class says what its author said of it.
LEMMA InputsFaithful ==
  ASSUME NEW class \in Classes, NEW p \in Phases
  PROVE  LET c == LayerInput(class, p) IN
         /\ c.type = class.type /\ c.type \in Nat
         /\ c.deps = class.deps[p] /\ c.deps \subseteq Nat
         /\ c.executed <=> p \in class.overridden
         /\ c.executed /\ class.access[p] \in {"READ_WRITE", "UNKNOWN", "undeclared"} => Alone(c)
<1> DEFINE info == Declared(class)
<1>1. Always \cap Phases = {} BY DEF Always, Phases
<1>2. Phases \subseteq Hooks BY DEF Hooks
<1>3. p \in Always \cup {h \in Hooks : GetOperation(class, h) # "nullptr"} <=> p \in class.overridden
  BY <1>1, <1>2 DEF GetOperation
<1>4. /\ info.type = class.type
      /\ info.deps = class.deps
      /\ p \in info.set <=> p \in class.overridden
      /\ info.access[p] = IF class.access[p] = "undeclared"
                              THEN IF p \in class.overridden THEN "UNKNOWN" ELSE "INDEPENDENT"
                              ELSE class.access[p]
  BY <1>3 DEF Declared, CreateMetaInformation
<1>5. class.type \in Nat /\ class.deps[p] \subseteq Nat BY DEF Classes
<1> QED BY <1>4, <1>5 DEF LayerInput, GetDataAccess, GetDependencies, ShouldBeExecuted, Alone

\* The collections are a sequence, in which every type occurs once.
LEMMA InputsTyped ==
  ASSUME InputKept
  PROVE  /\ registration.phase \in Phases
         /\ Len(collections) \in Nat /\ DOMAIN collections = Registered
         /\ \A i \in Registered : /\ registration.classes[i] \in Classes
                                  /\ collections[i] = LayerInput(registration.classes[i], registration.phase)
                                  /\ TypeOf(i) \in Types
                                  /\ Executed(i) <=> HasHook(i)
                                  /\ collections[i].deps = Names(i)
                                  /\ TypeOf(i) = registration.classes[i].type
         /\ \A i, j \in Registered : TypeOf(i) = TypeOf(j) => i = j
         /\ Types \subseteq Nat
         /\ \A t \in Types : \E i \in Registered : TypeOf(i) = t
<1>1. registration.phase \in Phases /\ registration.classes \in Seq(Classes)
  BY RegistrationsAssumption DEF InputKept
<1>2. DOMAIN registration.classes = 1 .. Len(registration.classes) /\ Len(registration.classes) \in Nat
  BY <1>1
<1>3. Len(collections) = Len(registration.classes)
  BY <1>2 DEF InputKept
<1>4. DOMAIN collections = Registered BY <1>2, <1>3 DEF InputKept, Registered
<1>5. \A i \in Registered : registration.classes[i] \in Classes BY <1>1, <1>2, <1>3 DEF Registered
<1>6. \A i \in Registered : collections[i] = LayerInput(registration.classes[i], registration.phase)
  BY <1>2, <1>3 DEF InputKept, Registered
<1>7. \A i \in Registered : /\ TypeOf(i) = registration.classes[i].type /\ TypeOf(i) \in Nat
                            /\ Executed(i) <=> HasHook(i)
                            /\ collections[i].deps = Names(i)
  BY <1>1, <1>5, <1>6, InputsFaithful DEF TypeOf, Executed, HasHook, Names
<1>8. \A i, j \in Registered : TypeOf(i) = TypeOf(j) => i = j
  <2>1. \A i, j \in DOMAIN registration.classes :
          registration.classes[i].type = registration.classes[j].type => i = j
    BY RegistrationsAssumption DEF InputKept
  <2> QED BY <1>2, <1>3, <1>7, <2>1 DEF Registered
<1> QED BY <1>1, <1>2, <1>3, <1>4, <1>5, <1>6, <1>7, <1>8 DEF Types, TypeOf

\* The inputs do not change.
LEMMA InputStep == InputKept /\ UNCHANGED input => InputKept' /\ Registered' = Registered /\ Types' = Types
                   /\ \A i : TypeOf(i)' = TypeOf(i) /\ (Sharing(i)' <=> Sharing(i))
                             /\ (Executed(i)' <=> Executed(i))
                             /\ (Alone(collections[i])' <=> Alone(collections[i]))
BY DEF InputKept, input, Registered, Types, TypeOf, Sharing, Executed, Alone

-----------------------------------------------------------------------------
(* initializeData *)

\* Nothing was looked at.
LEMMA InvariantInit == Init => IInv
<1> SUFFICES ASSUME Init PROVE IInv OBVIOUS
<1>1. InputKept BY DEF Init, InputKept
<1>2. Typed
  <2>1. Len(collections) \in Nat BY <1>1, InputsTyped
  <2>2. connectionSet \in [Types -> SUBSET Nat] BY DEF Init
  <2>3. executionOrder \in Seq(SUBSET Types) BY DEF Init
  <2> QED BY <2>1, <2>2, <2>3 DEF Init, Typed
<1>3. PendingShare /\ LayersExecute BY DEF Init, PendingShare, LayersExecute
<1>4. NoneLost BY DEF Init, NoneLost, Registered
<1>5. LayersDisjoint BY DEF Init, LayersDisjoint
<1>6. ConnectionsMutual BY DEF Init, ConnectionsMutual, Registered
<1>7. LayersUnconnected /\ ResultParsed BY DEF Init, LayersUnconnected, ResultParsed
<1> QED BY <1>1, <1>2, <1>3, <1>4, <1>5, <1>6, <1>7 DEF IInv

\* What initializeData looks at next, and what it saw before.
LEMMA NextInput ==
  ASSUME IInv, Collecting
  PROVE  /\ next \in Registered /\ next + 1 \in 1 .. Len(collections) + 1
         /\ TypeOf(next) \in Types /\ TypeOf(next) \notin pending
         /\ \A k \in DOMAIN executionOrder : TypeOf(next) \notin executionOrder[k]
         /\ \A i \in Registered : i < next + 1 <=> i < next \/ i = next
<1> USE DEF IInv
<1>1. next \in Registered /\ Len(collections) \in Nat BY InputsTyped DEF Collecting, Typed, Registered
<1>2. \A i \in Registered : TypeOf(i) = TypeOf(next) => i = next BY <1>1, InputsTyped
<1>3. TypeOf(next) \notin pending BY <1>1, <1>2 DEF PendingShare, Registered
<1>4. \A k \in DOMAIN executionOrder : TypeOf(next) \notin executionOrder[k]
  BY <1>1, <1>2 DEF LayersExecute, Registered
<1>5. \A i \in Registered : i < next + 1 <=> i < next \/ i = next BY <1>1 DEF Registered
<1> QED BY <1>1, <1>3, <1>4, <1>5, InputsTyped DEF Registered

\* A class without the function.
LEMMA CollectNoneStep == IInv /\ CollectNone => IInv'
<1> SUFFICES ASSUME IInv, CollectNone PROVE IInv' OBVIOUS
<1> USE DEF IInv, CollectNone
<1>1. InputKept' /\ Registered' = Registered /\ Types' = Types BY InputStep
<1>2. pc = "collect" /\ ~Executed(next) BY DEF Collecting, Executed
<1>3. Typed' BY <1>1, <1>2, NextInput DEF Typed, input
<1>4. PendingShare'
  BY <1>1, NextInput, InputStep DEF PendingShare
<1>5. LayersExecute'
  BY <1>1, NextInput, InputStep DEF LayersExecute
<1>6. NoneLost' BY <1>1, <1>2, NextInput, InputStep DEF NoneLost
<1>7. LayersDisjoint' BY DEF LayersDisjoint, Back
<1>8. ConnectionsMutual'
  BY <1>1, <1>2, NextInput, InputStep DEF ConnectionsMutual, Sharing, input
<1>9. LayersUnconnected' /\ ResultParsed'
  BY <1>1, <1>2 DEF LayersUnconnected, ResultParsed
<1> QED BY <1>1, <1>3, <1>4, <1>5, <1>6, <1>7, <1>8, <1>9

\* A class that must be alone.
LEMMA CollectAloneStep == IInv /\ CollectAlone => IInv'
<1> SUFFICES ASSUME IInv, CollectAlone PROVE IInv' OBVIOUS
<1> USE DEF IInv, CollectAlone
<1> DEFINE t == TypeOf(next)
<1>1. InputKept' /\ Registered' = Registered /\ Types' = Types BY InputStep
<1>2. /\ pc = "collect" /\ Executed(next) /\ ~Sharing(next)
      /\ executionOrder' = Append(executionOrder, {t})
  BY DEF Collecting, Executed, Sharing, TypeOf
<1>3. t \in Types BY NextInput
<1>4. /\ executionOrder' \in Seq(SUBSET Types)
      /\ Len(executionOrder') = Len(executionOrder) + 1
      /\ DOMAIN executionOrder' = 1 .. Len(executionOrder) + 1
      /\ DOMAIN executionOrder = 1 .. Len(executionOrder)
      /\ Len(executionOrder) \in Nat
      /\ \A k \in DOMAIN executionOrder : executionOrder'[k] = executionOrder[k]
      /\ executionOrder'[Len(executionOrder) + 1] = {t}
  BY <1>2, <1>3 DEF Typed
<1> HIDE DEF t
<1>5. Typed' BY <1>1, <1>2, <1>4, NextInput DEF Typed, input
<1>6. PendingShare' BY <1>1, NextInput, InputStep DEF PendingShare
<1>7. LayersExecute'
  <2> SUFFICES ASSUME NEW k \in DOMAIN executionOrder', NEW s \in executionOrder'[k]
               PROVE  \E i \in Registered : /\ i < next + 1 /\ TypeOf(i) = s /\ Executed(i)
                                            /\ Alone(collections[i]) => executionOrder'[k] = {s}
    BY <1>1, InputStep DEF LayersExecute
  <2>1. CASE k = Len(executionOrder) + 1
    BY <1>2, <1>4, <2>1, NextInput DEF t
  <2>2. CASE k # Len(executionOrder) + 1
    <3>1. k \in DOMAIN executionOrder BY <1>4, <2>2
    <3> QED BY <1>4, <3>1, NextInput DEF LayersExecute
  <2> QED BY <2>1, <2>2
<1>8. NoneLost'
  <2> SUFFICES ASSUME NEW i \in Registered, i < next + 1, Executed(i)
               PROVE  TypeOf(i) \in pending \/ \E k \in DOMAIN executionOrder' : TypeOf(i) \in executionOrder'[k]
    BY <1>1, InputStep DEF NoneLost
  <2>1. CASE i = next
    <3>1. Len(executionOrder) + 1 \in DOMAIN executionOrder' BY <1>4
    <3>2. TypeOf(i) \in executionOrder'[Len(executionOrder) + 1] BY <1>4, <2>1 DEF t
    <3> QED BY <3>1, <3>2
  <2>2. CASE i < next BY <1>4, <2>2 DEF NoneLost
  <2> QED BY <2>1, <2>2, NextInput
<1>9. LayersDisjoint'
  <2>1. t \notin pending /\ \A k \in DOMAIN executionOrder : t \notin executionOrder[k]
    BY NextInput DEF t
  <2>2. \A k, l \in DOMAIN executionOrder' : k # l => executionOrder'[k] \cap executionOrder'[l] = {}
    BY <1>4, <2>1 DEF LayersDisjoint
  <2> QED BY <1>2, <1>4, <2>1, <2>2 DEF LayersDisjoint
<1>10. ConnectionsMutual'
  BY <1>1, <1>2, NextInput, InputStep DEF ConnectionsMutual, input
<1>11. LayersUnconnected'
  BY <1>1, <1>2, <1>3, <1>4 DEF LayersUnconnected
<1>12. ResultParsed' BY <1>2 DEF ResultParsed
<1> QED BY <1>1, <1>5, <1>6, <1>7, <1>8, <1>9, <1>10, <1>11, <1>12

\* A class that may share a layer.
LEMMA CollectStep == IInv /\ Collect => IInv'
<1> SUFFICES ASSUME IInv, Collect PROVE IInv' OBVIOUS
<1> USE DEF IInv, Collect
<1> DEFINE t == TypeOf(next)
<1>1. InputKept' /\ Registered' = Registered /\ Types' = Types BY InputStep
<1>2. /\ pc = "collect" /\ Sharing(next)
      /\ pending' = pending \cup {t}
      /\ connectionSet' = [connectionSet EXCEPT ![t] = collections[next].deps \ {t}]
  BY DEF Collecting, Executed, Sharing, TypeOf
<1>3. t \in Types BY NextInput
<1>4. \A i \in Registered : TypeOf(i) = t => i = next BY NextInput, InputsTyped
<1>5. Typed'
  <2>1. collections[next].deps \subseteq Nat
    <3>1. registration.classes[next] \in Classes /\ registration.phase \in Phases
          /\ collections[next] = LayerInput(registration.classes[next], registration.phase)
      BY NextInput, InputsTyped
    <3> QED BY <3>1, InputsFaithful
  <2>2. connectionSet' \in [Types -> SUBSET Nat] BY <1>2, <2>1 DEF Typed
  <2>3. accessListsCopy' \subseteq pending' BY <1>2 DEF Typed
  <2> QED BY <1>1, <1>2, <2>2, <2>3, NextInput DEF Typed, input
<1> HIDE DEF t
<1>6. PendingShare'
  <2> SUFFICES ASSUME NEW s \in pending'
               PROVE  \E i \in Registered : i < next + 1 /\ TypeOf(i) = s /\ Sharing(i)
    BY <1>1, InputStep DEF PendingShare
  <2>1. CASE s = t BY <1>2, <2>1, NextInput DEF t
  <2>2. CASE s # t BY <1>2, <2>2, NextInput DEF PendingShare
  <2> QED BY <2>1, <2>2
<1>7. LayersExecute' BY <1>1, NextInput, InputStep DEF LayersExecute
<1>8. NoneLost'
  <2> SUFFICES ASSUME NEW i \in Registered, i < next + 1, Executed(i)
               PROVE  TypeOf(i) \in pending' \/ \E k \in DOMAIN executionOrder : TypeOf(i) \in executionOrder[k]
    BY <1>1, InputStep DEF NoneLost
  <2> QED BY <1>2, NextInput DEF NoneLost, t
<1>9. LayersDisjoint'
  BY <1>2, NextInput DEF LayersDisjoint, t
<1>10. ConnectionsMutual'
  <2> SUFFICES ASSUME NEW i \in Registered, i < next + 1, Sharing(i)
               PROVE  TypeOf(i) \in pending'
                      /\ collections[i].deps \ {TypeOf(i)} \subseteq connectionSet'[TypeOf(i)]
    BY <1>1, <1>2, InputStep DEF ConnectionsMutual, input
  <2>1. CASE i = next BY <1>2, <1>3, <2>1 DEF Typed, t
  <2>2. CASE i # next
    <3>1. TypeOf(i) # t /\ i < next BY <1>4, <2>2, NextInput
    <3> QED BY <1>2, <3>1 DEF ConnectionsMutual, Typed
  <2> QED BY <2>1, <2>2
<1>11. LayersUnconnected'
  <2>1. \A k \in DOMAIN executionOrder : \E s \in Types : executionOrder[k] = {s}
    BY <1>2 DEF LayersUnconnected
  <2> QED BY <1>1, <1>2, <2>1 DEF LayersUnconnected
<1>12. ResultParsed' BY <1>2 DEF ResultParsed
<1> QED BY <1>1, <1>5, <1>6, <1>7, <1>8, <1>9, <1>10, <1>11, <1>12

\* Connections become mutual.
LEMMA ConnectStep == IInv /\ Connect => IInv'
<1> SUFFICES ASSUME IInv, Connect PROVE IInv' OBVIOUS
<1> USE DEF IInv, Connect
<1>1. InputKept' /\ Registered' = Registered /\ Types' = Types BY InputStep
<1>2. pc = "collect" /\ next = Len(collections) + 1 /\ \A i \in Registered : i < next
  BY InputsTyped DEF Typed, Registered
<1>3. Types \subseteq Nat /\ pending \subseteq Types BY <1>1, InputsTyped DEF PendingShare
<1>4. Typed'
  <2>1. connectionSet' \in [Types -> SUBSET Nat] BY <1>3 DEF Typed
  <2> QED BY <1>1, <1>2, <2>1 DEF Typed, input
<1>5. PendingShare' BY <1>1, InputStep DEF PendingShare
<1>6. LayersExecute' BY <1>1, InputStep DEF LayersExecute
<1>7. NoneLost' BY <1>1, InputStep DEF NoneLost
<1>8. LayersDisjoint' BY <1>2 DEF LayersDisjoint
<1>9. ConnectionsMutual'
  <2> SUFFICES ASSUME NEW i \in Registered, NEW j \in Registered, Sharing(i), Sharing(j), i # j
               PROVE  /\ TypeOf(j) \in collections[i].deps => TypeOf(j) \in connectionSet'[TypeOf(i)]
                      /\ TypeOf(i) \in connectionSet'[TypeOf(j)] => TypeOf(j) \in connectionSet'[TypeOf(i)]
    BY <1>1, InputStep DEF ConnectionsMutual, input
  <2>1. /\ TypeOf(i) \in pending /\ TypeOf(j) \in pending
        /\ collections[i].deps \ {TypeOf(i)} \subseteq connectionSet[TypeOf(i)]
    BY <1>2 DEF ConnectionsMutual
  <2>2. TypeOf(i) # TypeOf(j) BY InputsTyped
  <2>3. \A t \in pending : connectionSet'[t] = connectionSet[t] \cup {s \in pending : t \in connectionSet[s]}
    BY <1>3
  <2> QED BY <2>1, <2>2, <2>3
<1>10. LayersUnconnected'
  <2>1. \A k \in DOMAIN executionOrder : \E t \in Types : executionOrder[k] = {t}
    BY <1>2 DEF LayersUnconnected
  <2> QED BY <1>1, <2>1 DEF LayersUnconnected
<1>11. ResultParsed' BY <1>2 DEF ResultParsed
<1> QED BY <1>1, <1>4, <1>5, <1>6, <1>7, <1>8, <1>9, <1>10, <1>11

-----------------------------------------------------------------------------
(* createExecutionLayers *)

\* From "start" on connections between types that share layers are mutual.
LEMMA Mutual ==
  ASSUME IInv, pc # "collect", NEW s \in Types, NEW t \in Types, s # t,
         \E i \in Registered : TypeOf(i) = s /\ Sharing(i),
         \E i \in Registered : TypeOf(i) = t /\ Sharing(i),
         s \in connectionSet[t]
  PROVE  t \in connectionSet[s]
BY DEF IInv, ConnectionsMutual

\* A type that is pending starts a layer.
LEMMA StartLayerStep == IInv /\ StartLayer => IInv'
<1> SUFFICES ASSUME IInv, StartLayer PROVE IInv' OBVIOUS
<1> USE DEF IInv
<1>0. PICK t \in pending : /\ executionOrder' = Append(executionOrder, {t})
                           /\ connected' = connectionSet[t]
                           /\ accessListsCopy' = pending \ {t}
  BY DEF StartLayer
<1>1. pc = "start" /\ pc' = "fill" /\ UNCHANGED <<input, next, pending, connectionSet, executionLayers>>
  BY DEF StartLayer
<1>2. InputKept' /\ Registered' = Registered /\ Types' = Types BY <1>1, InputStep
<1>3. PICK n \in Registered : n < next /\ TypeOf(n) = t /\ Sharing(n) BY DEF PendingShare
<1>4. t \in Types BY <1>3, InputsTyped
<1>5. /\ executionOrder' \in Seq(SUBSET Types)
      /\ Len(executionOrder') = Len(executionOrder) + 1
      /\ DOMAIN executionOrder' = 1 .. Len(executionOrder) + 1
      /\ DOMAIN executionOrder = 1 .. Len(executionOrder)
      /\ Len(executionOrder) \in Nat
      /\ \A k \in DOMAIN executionOrder : executionOrder'[k] = executionOrder[k]
      /\ executionOrder'[Len(executionOrder) + 1] = {t}
  BY <1>0, <1>4 DEF Typed
<1>6. Typed' BY <1>0, <1>1, <1>2, <1>4, <1>5 DEF Typed, input
<1>7. PendingShare' BY <1>1, <1>2, InputStep DEF PendingShare
<1>8. LayersExecute'
  <2> SUFFICES ASSUME NEW k \in DOMAIN executionOrder', NEW s \in executionOrder'[k]
               PROVE  \E i \in Registered : /\ i < next /\ TypeOf(i) = s /\ Executed(i)
                                            /\ Alone(collections[i]) => executionOrder'[k] = {s}
    BY <1>1, <1>2, InputStep DEF LayersExecute
  <2>1. CASE k = Len(executionOrder) + 1 BY <1>3, <1>5, <2>1 DEF Sharing
  <2>2. CASE k # Len(executionOrder) + 1
    <3>1. k \in DOMAIN executionOrder BY <1>5, <2>2
    <3> QED BY <1>5, <3>1 DEF LayersExecute
  <2> QED BY <2>1, <2>2
<1>9. NoneLost' BY <1>1, <1>2, <1>5, InputStep DEF NoneLost
<1>10. LayersDisjoint'
  <2>1. \A k \in DOMAIN executionOrder : executionOrder[k] \cap pending = {}
    BY <1>1 DEF LayersDisjoint
  <2>2. \A k, l \in DOMAIN executionOrder' : k # l => executionOrder'[k] \cap executionOrder'[l] = {}
    BY <1>5, <2>1 DEF LayersDisjoint
  <2>3. Back' = {t} /\ executionOrder' # <<>> BY <1>5 DEF Back
  <2> QED BY <1>1, <1>5, <2>1, <2>2, <2>3 DEF LayersDisjoint
<1>11. ConnectionsMutual' BY <1>1, <1>2, InputStep DEF ConnectionsMutual, input
<1>12. LayersUnconnected'
  <2> SUFFICES ASSUME NEW k \in DOMAIN executionOrder', NEW r \in executionOrder'[k],
                      NEW s \in executionOrder'[k], r # s
               PROVE  r \notin connectionSet[s]
    BY <1>1 DEF LayersUnconnected
  <2>1. k \in DOMAIN executionOrder BY <1>5
  <2> QED BY <1>5, <2>1 DEF LayersUnconnected
<1>13. ResultParsed' BY <1>1 DEF ResultParsed
<1> QED BY <1>2, <1>6, <1>7, <1>8, <1>9, <1>10, <1>11, <1>12, <1>13

\* The layer in hand is replaced by another of its kind.
LEMMA SetBackTyped ==
  ASSUME IInv, pc = "fill", NEW new \in SUBSET Types, SetBack(new)
  PROVE  /\ executionOrder' \in Seq(SUBSET Types)
         /\ Len(executionOrder) \in DOMAIN executionOrder
         /\ Len(executionOrder') = Len(executionOrder)
         /\ DOMAIN executionOrder' = DOMAIN executionOrder
         /\ executionOrder'[Len(executionOrder)] = new
         /\ \A k \in DOMAIN executionOrder : k # Len(executionOrder) => executionOrder'[k] = executionOrder[k]
         /\ Back \subseteq pending /\ Back = executionOrder[Len(executionOrder)]
BY DEF IInv, Typed, SetBack, LayersDisjoint, Back

\* A candidate joins the layer.
LEMMA AddToLayerStep == IInv /\ AddToLayer => IInv'
<1> SUFFICES ASSUME IInv, AddToLayer PROVE IInv' OBVIOUS
<1> USE DEF IInv
<1>0. PICK t \in Candidates : /\ SetBack(Back \cup {t})
                              /\ connected' = connected \cup connectionSet[t]
                              /\ accessListsCopy' = Candidates \ {t}
  BY DEF AddToLayer
<1>1. pc = "fill" /\ UNCHANGED <<input, pc, next, pending, connectionSet, executionLayers>>
  BY DEF AddToLayer
<1>2. InputKept' /\ Registered' = Registered /\ Types' = Types BY <1>1, InputStep
<1>3. t \in pending /\ connectionSet[t] \cap Back = {} BY DEF Candidates, Typed
<1>4. \A s \in pending : s \in Types /\ \E i \in Registered : i < next /\ TypeOf(i) = s /\ Sharing(i)
  BY InputsTyped DEF PendingShare
<1>5. Back \cup {t} \in SUBSET Types /\ Back \cup {t} \subseteq pending
  BY <1>1, <1>3, <1>4 DEF LayersDisjoint
<1> DEFINE n == Len(executionOrder)
<1>6. /\ executionOrder' \in Seq(SUBSET Types)
      /\ n \in DOMAIN executionOrder /\ Len(executionOrder') = n
      /\ DOMAIN executionOrder' = DOMAIN executionOrder
      /\ executionOrder'[n] = Back \cup {t}
      /\ \A k \in DOMAIN executionOrder : k # n => executionOrder'[k] = executionOrder[k]
      /\ Back = executionOrder[n]
  BY <1>0, <1>1, <1>5, SetBackTyped
<1> HIDE DEF n
<1>7. Typed'
  <2>1. accessListsCopy' \subseteq pending BY <1>0 DEF Candidates, Typed
  <2>2. connected' \subseteq Nat BY <1>0, <1>3, <1>4 DEF Typed
  <2> QED BY <1>1, <1>2, <1>6, <2>1, <2>2 DEF Typed, input
<1>8. PendingShare' BY <1>1, <1>2, InputStep DEF PendingShare
<1>9. LayersExecute'
  <2> SUFFICES ASSUME NEW k \in DOMAIN executionOrder', NEW s \in executionOrder'[k]
               PROVE  \E i \in Registered : /\ i < next /\ TypeOf(i) = s /\ Executed(i)
                                            /\ Alone(collections[i]) => executionOrder'[k] = {s}
    BY <1>1, <1>2, InputStep DEF LayersExecute
  <2>1. CASE k = n BY <1>4, <1>5, <1>6, <2>1 DEF Sharing
  <2>2. CASE k # n BY <1>6, <2>2 DEF LayersExecute
  <2> QED BY <2>1, <2>2
<1>10. NoneLost' BY <1>1, <1>2, <1>6, InputStep DEF NoneLost
<1>11. LayersDisjoint'
  <2>1. \A k \in DOMAIN executionOrder : k # n => executionOrder[k] \cap pending = {}
    BY DEF LayersDisjoint, n
  <2>2. \A k, l \in DOMAIN executionOrder' : k # l => executionOrder'[k] \cap executionOrder'[l] = {}
    BY <1>5, <1>6, <2>1 DEF LayersDisjoint
  <2>3. Back' = Back \cup {t} /\ executionOrder' # <<>> BY <1>6 DEF Back
  <2> QED BY <1>1, <1>5, <1>6, <2>1, <2>2, <2>3 DEF LayersDisjoint
<1>12. ConnectionsMutual' BY <1>1, <1>2, InputStep DEF ConnectionsMutual, input
<1>13. LayersUnconnected'
  <2> SUFFICES ASSUME NEW k \in DOMAIN executionOrder', NEW r \in executionOrder'[k],
                      NEW s \in executionOrder'[k], r # s
               PROVE  r \notin connectionSet[s]
    BY <1>1 DEF LayersUnconnected
  <2>1. CASE k # n BY <1>6, <2>1 DEF LayersUnconnected
  <2>2. CASE k = n /\ s = t BY <1>3, <1>6, <2>2
  <2>3. CASE k = n /\ r = t
    <3>1. s \in Back /\ s \in Types /\ t \in Types BY <1>4, <1>5, <1>6, <2>3
    <3>2. s \notin connectionSet[t] BY <1>3, <3>1
    <3> QED BY <1>1, <1>3, <1>4, <1>5, <2>3, <3>1, <3>2, Mutual
  <2>4. CASE k = n /\ r # t /\ s # t BY <1>6, <2>4 DEF LayersUnconnected
  <2> QED BY <2>1, <2>2, <2>3, <2>4
<1>14. ResultParsed' BY <1>1 DEF ResultParsed
<1> QED BY <1>2, <1>7, <1>8, <1>9, <1>10, <1>11, <1>12, <1>13, <1>14

\* The layer is trimmed; what is left of it is not pending any more.
LEMMA FinishLayerStep == IInv /\ FinishLayer => IInv'
<1> SUFFICES ASSUME IInv, FinishLayer PROVE IInv' OBVIOUS
<1> USE DEF IInv
<1> DEFINE n == Len(executionOrder)
           rest == Back \ Overshot(Back)
<1>1. /\ pc = "fill" /\ pc' = "start" /\ accessListsCopy' = {}
      /\ pending' = pending \ rest /\ SetBack(rest)
      /\ UNCHANGED <<input, next, connectionSet, connected, executionLayers>>
  BY DEF FinishLayer
<1>2. InputKept' /\ Registered' = Registered /\ Types' = Types BY <1>1, InputStep
<1>3. \A s \in pending : s \in Types BY InputsTyped DEF PendingShare
<1>4. rest \subseteq Back /\ rest \in SUBSET Types BY <1>1, <1>3 DEF LayersDisjoint
<1> HIDE DEF rest
<1>5. /\ executionOrder' \in Seq(SUBSET Types)
      /\ n \in DOMAIN executionOrder /\ Len(executionOrder') = n
      /\ DOMAIN executionOrder' = DOMAIN executionOrder
      /\ executionOrder'[n] = rest
      /\ \A k \in DOMAIN executionOrder : k # n => executionOrder'[k] = executionOrder[k]
      /\ Back = executionOrder[n] /\ Back \subseteq pending
  BY <1>1, <1>4, SetBackTyped
<1> HIDE DEF n
<1>6. Typed' BY <1>1, <1>2, <1>5 DEF Typed, input
<1>7. PendingShare' BY <1>1, <1>2, InputStep DEF PendingShare
<1>8. LayersExecute'
  <2> SUFFICES ASSUME NEW k \in DOMAIN executionOrder', NEW s \in executionOrder'[k]
               PROVE  \E i \in Registered : /\ i < next /\ TypeOf(i) = s /\ Executed(i)
                                            /\ Alone(collections[i]) => executionOrder'[k] = {s}
    BY <1>1, <1>2, InputStep DEF LayersExecute
  <2>1. CASE k = n
    <3>1. s \in pending BY <1>4, <1>5, <2>1
    <3> QED BY <3>1 DEF PendingShare, Sharing
  <2>2. CASE k # n BY <1>5, <2>2 DEF LayersExecute
  <2> QED BY <2>1, <2>2
<1>9. NoneLost'
  <2> SUFFICES ASSUME NEW i \in Registered, i < next, Executed(i)
               PROVE  TypeOf(i) \in pending' \/ \E k \in DOMAIN executionOrder' : TypeOf(i) \in executionOrder'[k]
    BY <1>1, <1>2, InputStep DEF NoneLost
  <2>1. CASE TypeOf(i) \in rest BY <1>5, <2>1
  <2>2. CASE TypeOf(i) \in pending /\ TypeOf(i) \notin rest BY <1>1, <2>2
  <2>3. CASE TypeOf(i) \notin pending
    <3>1. PICK k \in DOMAIN executionOrder : TypeOf(i) \in executionOrder[k] BY <2>3 DEF NoneLost
    <3>2. k # n BY <1>5, <2>3, <3>1
    <3> QED BY <1>5, <3>1, <3>2
  <2> QED BY <2>1, <2>2, <2>3
<1>10. LayersDisjoint'
  <2>1. \A k \in DOMAIN executionOrder : k # n => executionOrder[k] \cap pending = {}
    BY DEF LayersDisjoint, n
  <2>2. \A k, l \in DOMAIN executionOrder' : k # l => executionOrder'[k] \cap executionOrder'[l] = {}
    BY <1>4, <1>5, <2>1 DEF LayersDisjoint
  <2> QED BY <1>1, <1>5, <2>1, <2>2 DEF LayersDisjoint
<1>11. ConnectionsMutual' BY <1>1, <1>2, InputStep DEF ConnectionsMutual, input
<1>12. LayersUnconnected'
  <2> SUFFICES ASSUME NEW k \in DOMAIN executionOrder', NEW r \in executionOrder'[k],
                      NEW s \in executionOrder'[k], r # s
               PROVE  r \notin connectionSet[s]
    BY <1>1 DEF LayersUnconnected
  <2> QED BY <1>4, <1>5 DEF LayersUnconnected
<1>13. ResultParsed' BY <1>1 DEF ResultParsed
<1> QED BY <1>2, <1>6, <1>7, <1>8, <1>9, <1>10, <1>11, <1>12, <1>13

\* Types become indices.
LEMMA ParseStep == IInv /\ Parse => IInv'
<1> SUFFICES ASSUME IInv, Parse PROVE IInv' OBVIOUS
<1> USE DEF IInv, Parse
<1>1. InputKept' /\ Registered' = Registered /\ Types' = Types BY InputStep
<1>2. Typed' BY <1>1 DEF Typed, input
<1>3. PendingShare' /\ LayersExecute' /\ NoneLost'
  BY <1>1, InputStep DEF PendingShare, LayersExecute, NoneLost
<1>4. LayersDisjoint' BY DEF LayersDisjoint
<1>5. ConnectionsMutual' BY <1>1, InputStep DEF ConnectionsMutual, input
<1>6. LayersUnconnected' BY DEF LayersUnconnected
<1>7. ResultParsed' BY DEF ResultParsed, IndexOf, input
<1> QED BY <1>1, <1>2, <1>3, <1>4, <1>5, <1>6, <1>7

\* The invariant is inductive.
LEMMA InvariantStep == IInv /\ [Next]_vars => IInv'
<1> SUFFICES ASSUME IInv, [Next]_vars PROVE IInv' OBVIOUS
<1>1. CASE UNCHANGED vars
  <2> USE <1>1 DEF vars, IInv
  <2>1. InputKept' /\ Registered' = Registered /\ Types' = Types BY InputStep
  <2>2. Typed' BY <2>1 DEF Typed, input
  <2>3. PendingShare' /\ LayersExecute' /\ NoneLost'
    BY <2>1, InputStep DEF PendingShare, LayersExecute, NoneLost
  <2>4. LayersDisjoint' BY DEF LayersDisjoint, Back
  <2>5. ConnectionsMutual' BY <2>1, InputStep DEF ConnectionsMutual, input
  <2>6. LayersUnconnected' BY <2>1 DEF LayersUnconnected
  <2>7. ResultParsed' BY DEF ResultParsed, IndexOf, input
  <2> QED BY <2>1, <2>2, <2>3, <2>4, <2>5, <2>6, <2>7
<1> QED
  BY <1>1, CollectNoneStep, CollectAloneStep, CollectStep, ConnectStep, StartLayerStep,
     AddToLayerStep, FinishLayerStep, ParseStep
  DEF Next, Step, Returned

-----------------------------------------------------------------------------
(* The theorems. *)

\* Whatever the heuristic prefers, layers are disjoint, hold no two connected
\* types, and lose none.
THEOREM LayersSound == Spec => []IInv
BY InvariantInit, InvariantStep, PTL DEF Spec

\* No class is executed beside one that it reads, and those that write or did not
\* say are executed alone.
THEOREM LayersAreIndependent == Spec => []LayersIndependent
<1>1. IInv => LayersIndependent
  <2> SUFFICES ASSUME IInv PROVE LayersIndependent OBVIOUS
  <2> USE DEF IInv
  <2>1. ASSUME NEW k \in DOMAIN executionOrder, NEW i \in Layer(k)
        PROVE  /\ i \in Registered /\ TypeOf(i) \in executionOrder[k] /\ Executed(i)
               /\ Alone(collections[i]) => Layer(k) = {i}
    <3>1. i \in Registered /\ TypeOf(i) \in executionOrder[k]
      BY <2>1, InputsTyped DEF Layer, TypeOf
    <3>2. PICK j \in Registered : /\ TypeOf(j) = TypeOf(i) /\ Executed(j)
                                  /\ Alone(collections[j]) => executionOrder[k] = {TypeOf(i)}
      BY <3>1 DEF LayersExecute
    <3>3. j = i BY <3>1, <3>2, InputsTyped
    <3>4. executionOrder[k] = {TypeOf(i)} => Layer(k) = {i}
      BY <3>1, InputsTyped DEF Layer, TypeOf
    <3> QED BY <3>1, <3>2, <3>3, <3>4
  <2>2. NoReaderInLayer
    <3> SUFFICES ASSUME NEW k \in DOMAIN executionOrder, NEW i \in Layer(k), NEW j \in Layer(k),
                        i # j, TypeOf(j) \in collections[i].deps
                 PROVE  FALSE
      BY <2>1, InputsTyped DEF NoReaderInLayer, Reads
    <3>1. /\ i \in Registered /\ TypeOf(i) \in executionOrder[k]
          /\ j \in Registered /\ TypeOf(j) \in executionOrder[k]
          /\ Sharing(i) /\ Sharing(j)
      BY <2>1 DEF Sharing
    <3>2. TypeOf(i) # TypeOf(j) BY <3>1, InputsTyped
    <3>3. CASE pc = "collect" BY <3>1, <3>2, <3>3 DEF LayersUnconnected
    <3>4. CASE pc # "collect" BY <3>1, <3>2, <3>4 DEF LayersUnconnected, ConnectionsMutual
    <3> QED BY <3>3, <3>4
  <2>3. WritersAlone
    <3> SUFFICES ASSUME NEW k \in DOMAIN executionOrder, NEW i \in Layer(k),
                        Says(i) \in {"READ_WRITE", "UNKNOWN", "undeclared"}
                 PROVE  Layer(k) = {i}
      BY DEF WritersAlone
    <3>1. i \in Registered /\ Executed(i) BY <2>1
    <3>2. Alone(collections[i])
      <4>1. registration.phase \in Phases /\ registration.classes[i] \in Classes
            /\ collections[i] = LayerInput(registration.classes[i], registration.phase)
        BY <3>1, InputsTyped
      <4> QED BY <3>1, <4>1, InputsFaithful DEF Executed, Says
    <3> QED BY <2>1, <3>2
  <2> QED BY <2>2, <2>3 DEF LayersIndependent
<1> QED BY <1>1, LayersSound, PTL

\* Every class that overrides the function is in exactly one layer of the result.
THEOREM EachExecutedOnce == Spec => []ExecutedOnce
<1>1. IInv => ExecutedOnce
  <2> SUFFICES ASSUME IInv, pc = "done", NEW i \in Registered
               PROVE  /\ HasHook(i) <=> \E k \in DOMAIN executionLayers : i \in executionLayers[k]
                      /\ \A k, l \in DOMAIN executionLayers :
                           i \in executionLayers[k] /\ i \in executionLayers[l] => k = l
    BY InputsTyped DEF ExecutedOnce, IInv
  <2> USE DEF IInv
  <2>1. \A j \in Registered : IndexOf(TypeOf(j)) = j
    BY InputsTyped DEF IndexOf, TypeOf
  <2>2. \A k \in DOMAIN executionOrder : \A t \in executionOrder[k] :
          \E j \in Registered : TypeOf(j) = t /\ Executed(j)
    BY DEF LayersExecute
  <2>3. DOMAIN executionLayers = DOMAIN executionOrder BY DEF ResultParsed
  <2>4. \A k \in DOMAIN executionOrder : i \in executionLayers[k] <=> TypeOf(i) \in executionOrder[k]
    BY <2>1, <2>2 DEF ResultParsed
  <2>5. i < next BY InputsTyped DEF Typed, Registered
  <2>6. Executed(i) => \E k \in DOMAIN executionOrder : TypeOf(i) \in executionOrder[k]
    BY <2>5 DEF NoneLost, ResultParsed
  <2>7. ASSUME NEW k \in DOMAIN executionOrder, TypeOf(i) \in executionOrder[k] PROVE Executed(i)
    <3>1. PICK j \in Registered : TypeOf(j) = TypeOf(i) /\ Executed(j) BY <2>2, <2>7
    <3> QED BY <3>1, InputsTyped
  <2>8. HasHook(i) <=> Executed(i) BY InputsTyped
  <2> QED BY <2>3, <2>4, <2>6, <2>7, <2>8 DEF LayersDisjoint
<1> QED BY <1>1, LayersSound, PTL

\* The variables keep their types, and layers hold indices of collections.
THEOREM TypesCorrect == Spec => []TypeOK
<1>1. IInv => TypeOK
  <2> SUFFICES ASSUME IInv PROVE TypeOK OBVIOUS
  <2> USE DEF IInv
  <2>1. pending \subseteq Types BY InputsTyped DEF PendingShare
  <2>2. executionLayers \in Seq(SUBSET (1 .. Len(collections)))
    <3>1. \A k \in DOMAIN executionOrder : \A t \in executionOrder[k] : IndexOf(t) \in 1 .. Len(collections)
      <4> SUFFICES ASSUME NEW t \in Types PROVE IndexOf(t) \in 1 .. Len(collections)
        BY DEF Typed
      <4>1. \E i \in DOMAIN collections : collections[i].type = t BY DEF Types
      <4>2. DOMAIN collections = 1 .. Len(collections) BY InputsTyped DEF Registered
      <4> QED BY <4>1, <4>2 DEF IndexOf
    <3>2. CASE pc = "done"
      <4>1. DOMAIN executionOrder = 1 .. Len(executionOrder) /\ Len(executionOrder) \in Nat
        BY DEF Typed
      <4>2. executionLayers \in [1 .. Len(executionOrder) -> SUBSET (1 .. Len(collections))]
        BY <3>1, <3>2, <4>1 DEF ResultParsed
      <4> QED BY <4>1, <4>2
    <3>3. CASE pc # "done" BY <3>3 DEF ResultParsed
    <3> QED BY <3>2, <3>3
  <2>3. registration.phase \in Phases BY InputsTyped
  <2> QED BY <2>1, <2>2, <2>3 DEF TypeOK, Typed, InputKept
<1> QED BY <1>1, LayersSound, PTL

\* When createExecutionLayers returns, what it returns is what a frame relies on:
\* layers of collections, disjoint, and none with a class beside one that it reads.
THEOREM ResultFitsFrames ==
  Spec => [](pc = "done" =>
    LayersOf(Registered, {r \in Registered \X Registered : Reads(r[1], r[2])}, executionLayers))
<1> DEFINE pairs == {r \in Registered \X Registered : Reads(r[1], r[2])}
           Fits == pc = "done" => LayersOf(Registered, pairs, executionLayers)
<1>1. IInv /\ TypeOK /\ LayersIndependent => Fits
  <2> SUFFICES ASSUME IInv, TypeOK, LayersIndependent, pc = "done"
               PROVE  LayersOf(Registered, pairs, executionLayers)
    OBVIOUS
  <2> HIDE DEF pairs
  <2>1. executionLayers \in Seq(SUBSET Registered) BY DEF TypeOK, Registered
  <2>2. \A j \in Registered : IndexOf(TypeOf(j)) = j
    BY InputsTyped DEF IndexOf, TypeOf, IInv
  <2>3. /\ executionLayers = [k \in DOMAIN executionOrder |-> {IndexOf(t) : t \in executionOrder[k]}]
        /\ \A k \in DOMAIN executionOrder : \A t \in executionOrder[k] : \E j \in Registered : TypeOf(j) = t
    BY DEF IInv, ResultParsed, LayersExecute
  <2>4. ASSUME NEW k \in DOMAIN executionLayers, NEW i \in executionLayers[k]
        PROVE  i \in Registered /\ TypeOf(i) \in executionOrder[k] /\ i \in Layer(k)
    <3>1. PICK t \in executionOrder[k] : i = IndexOf(t) BY <2>3, <2>4
    <3>2. PICK j \in Registered : TypeOf(j) = t BY <2>3, <2>4, <3>1
    <3>3. i = j BY <2>2, <3>1, <3>2
    <3>4. DOMAIN collections = Registered BY InputsTyped DEF IInv, Registered
    <3> QED BY <3>1, <3>2, <3>3, <3>4 DEF Layer, TypeOf
  <2>5. \A k \in DOMAIN executionLayers : \A c, d \in executionLayers[k] : <<c, d>> \notin pairs
    BY <2>3, <2>4 DEF LayersIndependent, NoReaderInLayer, pairs
  <2>6. \A k, l \in DOMAIN executionLayers : k # l => executionLayers[k] \cap executionLayers[l] = {}
    BY <2>3, <2>4 DEF IInv, LayersDisjoint
  <2> QED BY <2>1, <2>5, <2>6 DEF LayersOf
<1> QED BY <1>1, LayersSound, TypesCorrect, LayersAreIndependent, PTL

-----------------------------------------------------------------------------
(* The inductive invariant of the frames. *)

\* The ranges of the variables; tasks are never discarded here.
FrameTyped ==
  /\ status \in [Tasks -> {"new", "queued", "running", "done"}]
  /\ waiting \in BOOLEAN
  /\ phase \in Phases \cup {"idle"}
  /\ frame \in 0 .. MaxFrames
  /\ event \in Jobs \cup {None}
  /\ layer \in Nat
  /\ eventState \in [Events -> {"new", "held", "queued", "taken"}]
  /\ maker \in [EntityEvents -> Tasks \cup {Main, None}]
  /\ allocated \in [EntityEvents -> 0 .. MaxFrames]

\* Each phase runs its layers for jobs of its own, and the arguments were
\* cleared once for every frame that is over.
JobFits ==
  /\ phase = "idle" => event = None
  /\ phase = "receiveLogicEvent" => event \in LogicEvents \cup {None}
  /\ phase = "update" => event = frame
  /\ phase = "receiveEntityEvent" => event \in EntityEvents \cup {None}
  /\ event # None => layer \in 1 .. LayerCount + 1
  /\ phase # "idle" => frame >= 1
  /\ cleared = IF phase = "idle" THEN frame ELSE frame - 1

\* Whatever the pool still has to do belongs to the layer that is run.
TasksInLayer == \A t \in Tasks : Unfinished(t) => InLayer /\ t \in LayerTasks

\* wait() is called when the tasks of the layer were added.
WaitsForLayer == waiting => InLayer /\ AllAdded

\* The layers before it are done.
LayersBefore ==
  event # None =>
    \A k \in 1 .. LayerCount : k < layer =>
      \A c \in Layers[phase][k] : status[<<event, c>>] = "done"

\* An event that was created and not sent is in the hands of a function that runs.
HeldByRunning ==
  \A e \in EntityEvents : eventState[e] = "held" =>
    maker[e] \in Tasks \cup {Main} /\ Running(maker[e])

FrameInv ==
  /\ FrameTyped /\ JobFits
  /\ TasksInLayer /\ WaitsForLayer /\ LayersBefore
  /\ HeldByRunning /\ ArgumentsAlive /\ HeardByAll

-----------------------------------------------------------------------------
\* The layers of a phase are sets of collections, without a reader beside what
\* it reads.
LEMMA LayerTyped ==
  ASSUME phase \in Phases, NEW k \in 1 .. LayerCount
  PROVE  /\ LayerCount \in Nat
         /\ Layers[phase][k] \subseteq Collections
         /\ \A c, d \in Layers[phase][k] : <<c, d>> \notin ReadPairs[phase]
<1>1. Layers[phase] \in Seq(SUBSET Collections) BY LayersAssumption DEF LayersOf
<1>2. LayerCount = Len(Layers[phase]) BY DEF LayerCount
<1>3. k \in DOMAIN Layers[phase] BY <1>1, <1>2
<1> QED BY <1>1, <1>2, <1>3, LayersAssumption DEF LayersOf

\* The number of layers is a natural number, 0 outside of the phases.
LEMMA LayerCountTyped == LayerCount \in Nat
BY LayersAssumption DEF LayersOf, LayerCount

\* The initial state satisfies the invariant.
LEMMA FrameInvInit == FrameInit => FrameInv
<1> SUFFICES ASSUME FrameInit PROVE FrameInv OBVIOUS
<1>1. \A t \in Tasks : status[t] = "new" BY DEF FrameInit, Pool!Init
<1>2. FrameTyped
  <2>1. 0 \in 0 .. MaxFrames BY MaxFramesAssumption
  <2>2. status \in [Tasks -> {"new", "queued", "running", "done"}] /\ waiting \in BOOLEAN
    BY DEF FrameInit, Pool!Init
  <2>3. eventState \in [Events -> {"new", "held", "queued", "taken"}] BY DEF FrameInit
  <2>4. maker \in [EntityEvents -> Tasks \cup {Main, None}] BY DEF FrameInit
  <2>5. allocated \in [EntityEvents -> 0 .. MaxFrames] BY <2>1 DEF FrameInit
  <2> QED BY <2>1, <2>2, <2>3, <2>4, <2>5 DEF FrameInit, FrameTyped
<1>3. JobFits BY DEF FrameInit, JobFits
<1>4. TasksInLayer BY <1>1 DEF TasksInLayer, Unfinished
<1>5. WaitsForLayer BY DEF FrameInit, Pool!Init, WaitsForLayer
<1>6. LayersBefore BY DEF FrameInit, LayersBefore
<1>7. HeldByRunning /\ HeardByAll BY DEF FrameInit, HeldByRunning, HeardByAll, Events
<1>8. ArgumentsAlive BY EventsAssumption DEF FrameInit, ArgumentsAlive, Events
<1> QED BY <1>2, <1>3, <1>4, <1>5, <1>6, <1>7, <1>8 DEF FrameInv

-----------------------------------------------------------------------------
(* The pool: a task is added, taken or finished. *)

\* Nothing leaves "done".
LEMMA DoneStays ==
  ASSUME FrameTyped, NEW t \in Tasks, Pool!Take(t) \/ Pool!Finish(t) \/ Pool!Add(t)
  PROVE  /\ status' \in [Tasks -> {"new", "queued", "running", "done"}]
         /\ waiting' = waiting
         /\ \A u \in Tasks : status[u] = "done" => status'[u] = "done"
         /\ \A u \in Tasks : u # t => status'[u] = status[u]
         /\ status'[t] # "new"
BY DEF FrameTyped, Pool!Take, Pool!Finish, Pool!Add, Pool!Move

\* The invariant survives if tasks enter the layer only, nothing leaves "done",
\* and functions that hold events go on running.
LEMMA PoolStep ==
  ASSUME FrameInv, NEW t \in Tasks,
         Pool!Take(t) \/ (Pool!Finish(t) /\ HoldsNone(t)) \/ (Pool!Add(t) /\ InLayer /\ t \in LayerTasks),
         UNCHANGED <<stepVars, eventVars>>
  PROVE  FrameInv'
<1> USE DEF FrameInv, stepVars, eventVars
<1>1. FrameTyped' BY DoneStays DEF FrameTyped
<1>2. JobFits' BY DEF JobFits, LayerCount
<1>3. InLayer' = InLayer /\ LayerTasks' = LayerTasks BY DEF InLayer, LayerTasks, LayerCount
<1>4. TasksInLayer'
  <2>1. Unfinished(t) \/ (InLayer /\ t \in LayerTasks)
    BY DEF Unfinished, Pool!Take, Pool!Finish, Pool!Move
  <2>2. \A u \in Tasks : u # t => Unfinished(u)' = Unfinished(u) BY DoneStays DEF Unfinished
  <2> QED BY <1>3, <2>1, <2>2 DEF TasksInLayer
<1>5. WaitsForLayer'
  <2>1. LayerTasks \subseteq Tasks \/ ~InLayer
    BY LayerTyped DEF LayerTasks, InLayer, Tasks, FrameTyped, JobFits, LayerCount
  <2>2. \A u \in Tasks : status[u] # "new" => status'[u] # "new" BY DoneStays
  <2> QED BY <1>3, <2>1, <2>2, DoneStays DEF WaitsForLayer, AllAdded
<1>6. LayersBefore'
  <2> SUFFICES ASSUME event # None, NEW k \in 1 .. LayerCount, k < layer, NEW c \in Layers[phase][k]
               PROVE  status'[<<event, c>>] = "done"
    BY DEF LayersBefore, LayerCount
  <2>1. status[<<event, c>>] = "done" BY DEF LayersBefore
  <2>2. phase \in Phases BY DEF LayerCount
  <2>3. <<event, c>> \in Tasks BY <2>2, LayerTyped DEF Tasks, FrameTyped
  <2> QED BY <2>1, <2>3, DoneStays
<1>7. HeldByRunning'
  <2> SUFFICES ASSUME NEW e \in EntityEvents, eventState[e] = "held"
               PROVE  maker[e] \in Tasks \cup {Main} /\ Running(maker[e])'
    BY DEF HeldByRunning
  <2>1. maker[e] \in Tasks \cup {Main} /\ Running(maker[e]) BY DEF HeldByRunning
  <2>2. CASE maker[e] = Main BY <2>1, <2>2 DEF Running
  <2>3. CASE maker[e] # Main /\ maker[e] # t BY <2>1, <2>3, DoneStays DEF Running
  <2>4. CASE maker[e] # Main /\ maker[e] = t
    BY <2>1, <2>4 DEF Running, HoldsNone, Pool!Take, Pool!Add, Pool!Move
  <2> QED BY <2>2, <2>3, <2>4
<1>8. ArgumentsAlive' BY DEF ArgumentsAlive
<1>9. HeardByAll'
  <2> DEFINE p(e) == IF e \in LogicEvents THEN "receiveLogicEvent" ELSE "receiveEntityEvent"
  <2> SUFFICES ASSUME NEW e \in Events, eventState[e] = "taken", event # e,
                      NEW k \in DOMAIN Layers[p(e)], NEW c \in Layers[p(e)][k]
               PROVE  status'[<<e, c>>] = "done"
    BY DEF HeardByAll
  <2>1. status[<<e, c>>] = "done" BY DEF HeardByAll
  <2>2. p(e) \in Phases BY DEF Phases
  <2>3. <<e, c>> \in Tasks BY <2>2, LayersAssumption DEF LayersOf, Tasks, Jobs
  <2> QED BY <2>1, <2>3, DoneStays
<1> QED BY <1>1, <1>2, <1>4, <1>5, <1>6, <1>7, <1>8, <1>9

-----------------------------------------------------------------------------
(* step(). *)

\* The owner of the pool calls wait().
LEMMA WaitStep == FrameInv /\ Wait => FrameInv'
<1> SUFFICES ASSUME FrameInv, Wait PROVE FrameInv' OBVIOUS
<1>1. FrameTyped' /\ JobFits' /\ LayersBefore' /\ ArgumentsAlive' /\ HeardByAll' /\ HeldByRunning'
  BY DEF FrameInv, Wait, Pool!WaitCall, stepVars, eventVars, FrameTyped, JobFits, LayersBefore,
         ArgumentsAlive, HeardByAll, HeldByRunning, Running, LayerCount
<1>2. TasksInLayer' /\ WaitsForLayer'
  BY DEF FrameInv, Wait, Pool!WaitCall, stepVars, TasksInLayer, WaitsForLayer, Unfinished, InLayer,
         LayerTasks, LayerCount, AllAdded
<1> QED BY <1>1, <1>2 DEF FrameInv

\* When wait() returns the layer is done, and so is every task of the pool.
LEMMA LayerDone ==
  ASSUME FrameInv, Pool!WaitReturn
  PROVE  /\ InLayer /\ phase \in Phases /\ layer \in 1 .. LayerCount
         /\ \A t \in Tasks : ~Unfinished(t)
         /\ \A c \in Layers[phase][layer] : status[<<event, c>>] = "done"
<1> USE DEF FrameInv
<1>1. InLayer /\ AllAdded BY DEF Pool!WaitReturn, WaitsForLayer
<1>2. phase \in Phases /\ layer \in 1 .. LayerCount
  BY <1>1, LayerCountTyped DEF InLayer, JobFits, LayerCount, FrameTyped
<1>3. \A t \in Tasks : ~Unfinished(t) BY DEF Pool!WaitReturn, Unfinished
<1>4. ASSUME NEW c \in Layers[phase][layer] PROVE status[<<event, c>>] = "done"
  <2>1. <<event, c>> \in Tasks BY <1>1, <1>2, <1>4, LayerTyped DEF InLayer, Tasks, FrameTyped
  <2>2. status[<<event, c>>] # "new" BY <1>1, <1>4 DEF AllAdded, LayerTasks
  <2> QED BY <1>3, <2>1, <2>2 DEF FrameTyped, Unfinished
<1> QED BY <1>1, <1>2, <1>3, <1>4

\* On to the next layer.
LEMMA NextLayerStep == FrameInv /\ NextLayer => FrameInv'
<1> SUFFICES ASSUME FrameInv, NextLayer PROVE FrameInv' OBVIOUS
<1> USE DEF FrameInv, NextLayer, eventVars
<1>1. layer' = layer + 1 /\ waiting' = FALSE /\ status' = status
  BY DEF Pool!WaitReturn
<1>2. FrameTyped'
  <2>1. layer' \in Nat BY <1>1 DEF FrameTyped
  <2> QED BY <1>1, <2>1 DEF FrameTyped
<1>3. JobFits' BY <1>1, LayerDone, LayerCountTyped DEF JobFits, LayerCount
<1>4. TasksInLayer' /\ WaitsForLayer'
  BY <1>1, LayerDone DEF TasksInLayer, WaitsForLayer, Unfinished
<1>5. LayersBefore'
  <2>1. \A k \in 1 .. LayerCount : k < layer + 1 => k < layer \/ k = layer
    BY LayerDone, LayerCountTyped DEF FrameTyped
  <2> QED BY <1>1, <2>1, LayerDone DEF LayersBefore, LayerCount
<1>6. HeldByRunning' /\ ArgumentsAlive' /\ HeardByAll'
  BY <1>1 DEF HeldByRunning, Running, ArgumentsAlive, HeardByAll
<1> QED BY <1>2, <1>3, <1>4, <1>5, <1>6

\* While the variable holds no event, the pool has nothing to do and nobody
\* waits for it.
LEMMA PoolQuiet ==
  ASSUME FrameInv, ~InLayer
  PROVE  waiting = FALSE /\ \A t \in Tasks : ~Unfinished(t)
BY DEF FrameInv, TasksInLayer, WaitsForLayer, FrameTyped

\* Steps that leave the pool alone, between jobs: from a state and into a state
\* where no layer is run for an unfinished job.
LEMMA PoolUntouched ==
  ASSUME FrameInv, UNCHANGED poolVars, ~InLayer
  PROVE  TasksInLayer' /\ WaitsForLayer'
BY PoolQuiet DEF TasksInLayer, WaitsForLayer, Unfinished, poolVars

\* step() is called.
LEMMA StartStep == FrameInv /\ Start => FrameInv'
<1> SUFFICES ASSUME FrameInv, Start PROVE FrameInv' OBVIOUS
<1> USE DEF FrameInv, Start, eventVars
<1>1. event = None /\ ~InLayer BY DEF JobFits, InLayer
<1>2. FrameTyped' BY MaxFramesAssumption DEF FrameTyped, Phases, poolVars
<1>3. JobFits' BY <1>1 DEF JobFits, FrameTyped
<1>4. TasksInLayer' /\ WaitsForLayer' BY <1>1, PoolUntouched
<1>5. LayersBefore' BY <1>1 DEF LayersBefore
<1>6. HeldByRunning' BY DEF HeldByRunning, HoldsNone, Running, poolVars
<1>7. ArgumentsAlive' /\ HeardByAll' BY DEF ArgumentsAlive, HeardByAll, poolVars
<1> QED BY <1>2, <1>3, <1>4, <1>5, <1>6, <1>7

\* An event is popped.
LEMMA PopStep == FrameInv /\ PopEvent => FrameInv'
<1> SUFFICES ASSUME FrameInv, PopEvent PROVE FrameInv' OBVIOUS
<1> USE DEF FrameInv
<1>1. PICK e \in Queued(IF phase = "receiveLogicEvent" THEN LogicEvents ELSE EntityEvents) :
        /\ phase \in {"receiveLogicEvent", "receiveEntityEvent"}
        /\ Run(e)
        /\ eventState' = [eventState EXCEPT ![e] = "taken"]
  BY DEF PopEvent
<1>2. /\ e \in Events /\ e # None /\ eventState[e] = "queued"
      /\ event' = e /\ layer' = 1 /\ event = None /\ ~InLayer
      /\ UNCHANGED <<poolVars, phase, frame, cleared, maker, allocated>>
  BY <1>1, EventsAssumption DEF Queued, Run, Events, PopEvent, InLayer
<1>3. FrameTyped' BY <1>1, <1>2 DEF FrameTyped, poolVars, Jobs
<1>4. JobFits'
  BY <1>1, <1>2, LayerCountTyped, EventsAssumption DEF JobFits, LayerCount, Queued, Events
<1>5. TasksInLayer' /\ WaitsForLayer' BY <1>2, PoolUntouched
<1>6. LayersBefore' BY <1>2 DEF LayersBefore
<1>7. HeldByRunning' BY <1>1, <1>2 DEF HeldByRunning, Running, poolVars, FrameTyped, Events
<1>8. ArgumentsAlive'
  BY <1>1, <1>2, EventsAssumption DEF ArgumentsAlive, FrameTyped, Events
<1>9. HeardByAll' BY <1>1, <1>2, EventsAssumption DEF HeardByAll, poolVars, FrameTyped, Events
<1> QED BY <1>3, <1>4, <1>5, <1>6, <1>7, <1>8, <1>9

\* When the layers of a job are done, every collection in them had its task.
LEMMA JobDone ==
  ASSUME FrameInv, LayersDone
  PROVE  /\ ~InLayer /\ phase \in Phases
         /\ \A k \in DOMAIN Layers[phase] : \A c \in Layers[phase][k] : status[<<event, c>>] = "done"
<1> USE DEF FrameInv, LayersDone
<1>1. ~InLayer BY LayerCountTyped DEF InLayer, FrameTyped
<1>2. phase \in Phases BY DEF JobFits, FrameTyped
<1>3. Layers[phase] \in Seq(SUBSET Collections) BY <1>2, LayersAssumption DEF LayersOf
<1>4. \A k \in DOMAIN Layers[phase] : k \in 1 .. LayerCount /\ k < layer
  BY <1>2, <1>3 DEF LayerCount, FrameTyped
<1> QED BY <1>1, <1>2, <1>4 DEF LayersBefore

\* The event of the last layer leaves the variable.
LEMMA EndEventStep == FrameInv /\ EndEvent => FrameInv'
<1> SUFFICES ASSUME FrameInv, EndEvent PROVE FrameInv' OBVIOUS
<1> USE DEF FrameInv, EndEvent, eventVars
<1>1. FrameTyped' BY DEF FrameTyped, poolVars
<1>2. JobFits' BY DEF JobFits
<1>3. TasksInLayer' /\ WaitsForLayer' BY JobDone, PoolUntouched
<1>4. LayersBefore' BY DEF LayersBefore
<1>5. HeldByRunning' BY DEF HeldByRunning, Running, poolVars
<1>6. ArgumentsAlive' BY EventsAssumption DEF ArgumentsAlive, Events
<1>7. HeardByAll'
  <2> DEFINE p(e) == IF e \in LogicEvents THEN "receiveLogicEvent" ELSE "receiveEntityEvent"
  <2> SUFFICES ASSUME NEW e \in Events, eventState[e] = "taken",
                      NEW k \in DOMAIN Layers[p(e)], NEW c \in Layers[p(e)][k]
               PROVE  status[<<e, c>>] = "done"
    BY DEF HeardByAll, poolVars
  <2>1. CASE e # event BY <2>1 DEF HeardByAll
  <2>2. CASE e = event
    <3>1. p(e) = phase BY <2>2, EventsAssumption DEF JobFits, LayersDone
    <3> QED BY <2>2, <3>1, JobDone
  <2> QED BY <2>1, <2>2
<1> QED BY <1>1, <1>2, <1>3, <1>4, <1>5, <1>6, <1>7

\* The update begins.
LEMMA StartUpdateStep == FrameInv /\ StartUpdate => FrameInv'
<1> SUFFICES ASSUME FrameInv, StartUpdate PROVE FrameInv' OBVIOUS
<1> USE DEF FrameInv, StartUpdate, Run, eventVars
<1>1. ~InLayer BY DEF InLayer
<1>2. frame \in Frames BY DEF FrameTyped, JobFits, Frames
<1>3. FrameTyped' BY <1>2 DEF FrameTyped, poolVars, Phases, Jobs
<1>4. JobFits' BY LayerCountTyped, LayersAssumption DEF LayersOf, JobFits, LayerCount, Phases
<1>5. TasksInLayer' /\ WaitsForLayer' BY <1>1, PoolUntouched
<1>6. LayersBefore' BY DEF LayersBefore
<1>7. HeldByRunning' BY DEF HeldByRunning, Running, poolVars
<1>8. ArgumentsAlive' /\ HeardByAll'
  BY <1>2, EventsAssumption DEF ArgumentsAlive, HeardByAll, poolVars, Events
<1> QED BY <1>3, <1>4, <1>5, <1>6, <1>7, <1>8

\* The update is over.
LEMMA EndUpdateStep == FrameInv /\ EndUpdate => FrameInv'
<1> SUFFICES ASSUME FrameInv, EndUpdate PROVE FrameInv' OBVIOUS
<1> USE DEF FrameInv, EndUpdate, eventVars
<1>1. event \in Frames BY DEF FrameTyped, JobFits, Frames
<1>2. FrameTyped' BY DEF FrameTyped, poolVars, Phases
<1>3. JobFits' BY DEF JobFits
<1>4. TasksInLayer' /\ WaitsForLayer' BY JobDone, PoolUntouched
<1>5. LayersBefore' BY DEF LayersBefore
<1>6. HeldByRunning' BY DEF HeldByRunning, Running, poolVars
<1>7. ArgumentsAlive' /\ HeardByAll'
  BY <1>1, EventsAssumption DEF ArgumentsAlive, HeardByAll, poolVars, Events
<1> QED BY <1>2, <1>3, <1>4, <1>5, <1>6, <1>7

\* The memory of the arguments is reused when nobody holds an event, and none
\* is queued.
LEMMA EndFrameStep == FrameInv /\ EndFrame => FrameInv'
<1> SUFFICES ASSUME FrameInv, EndFrame PROVE FrameInv' OBVIOUS
<1> USE DEF FrameInv, EndFrame, eventVars
<1>1. ~InLayer /\ \A t \in Tasks : ~Unfinished(t) BY PoolQuiet DEF InLayer
<1>2. \A e \in EntityEvents : eventState[e] # "held"
  BY <1>1 DEF HeldByRunning, Running, Unfinished
<1>3. FrameTyped' BY DEF FrameTyped, poolVars
<1>4. JobFits' BY DEF JobFits, FrameTyped
<1>5. TasksInLayer' /\ WaitsForLayer' BY <1>1, PoolUntouched
<1>6. LayersBefore' BY DEF LayersBefore
<1>7. HeldByRunning' BY <1>2 DEF HeldByRunning
<1>8. ArgumentsAlive' BY <1>2, EventsAssumption DEF ArgumentsAlive, Queued, Events
<1>9. HeardByAll' BY DEF HeardByAll, poolVars
<1> QED BY <1>3, <1>4, <1>5, <1>6, <1>7, <1>8, <1>9

-----------------------------------------------------------------------------
(* Events and the theorems. *)

\* Functions of components make and send events, the engine queues its own.
LEMMA EventStep ==
  ASSUME FrameInv,
         \/ \E who \in Tasks \cup {Main} :
              \/ \E e \in LogicEvents : OnEvent(who, e)
              \/ \E e \in EntityEvents : CreateEntityEvent(who, e)
         \/ \E e \in EntityEvents : SendEntityEvent(e)
  PROVE  FrameInv'
<1> USE DEF FrameInv, stepVars
<1>1. UNCHANGED <<poolVars, stepVars>> BY DEF OnEvent, CreateEntityEvent, SendEntityEvent
<1>2. cleared \in 0 .. MaxFrames BY MaxFramesAssumption DEF JobFits, FrameTyped
<1>3. FrameTyped'
  BY <1>1, <1>2 DEF FrameTyped, poolVars, OnEvent, CreateEntityEvent, SendEntityEvent, Events
<1>4. JobFits' BY <1>1 DEF JobFits, LayerCount
<1>5. TasksInLayer' /\ WaitsForLayer' /\ LayersBefore'
  BY <1>1 DEF TasksInLayer, WaitsForLayer, LayersBefore, Unfinished, InLayer, LayerTasks,
              LayerCount, AllAdded, poolVars
<1>6. HeldByRunning'
  BY <1>1, EventsAssumption DEF HeldByRunning, Running, poolVars, OnEvent, CreateEntityEvent,
     SendEntityEvent, FrameTyped, Events
<1>7. \A e \in Events : eventState[e] = "taken" <=> eventState'[e] = "taken"
  BY DEF OnEvent, CreateEntityEvent, SendEntityEvent, FrameTyped, Events
<1>8. HeardByAll' BY <1>1, <1>7 DEF HeardByAll, poolVars
<1>9. ArgumentsAlive'
  BY <1>1, EventsAssumption
     DEF ArgumentsAlive, OnEvent, CreateEntityEvent, SendEntityEvent, FrameTyped, Events
<1> QED BY <1>3, <1>4, <1>5, <1>6, <1>8, <1>9

\* The invariant is inductive.
LEMMA FrameInvStep == FrameInv /\ [FrameNext]_frameVars => FrameInv'
<1> SUFFICES ASSUME FrameInv, [FrameNext]_frameVars PROVE FrameInv' OBVIOUS
<1>1. ASSUME NEW c \in Collections, AddTask(c) PROVE FrameInv'
  <2>1. <<event, c>> \in Tasks
    BY <1>1, EventsAssumption DEF AddTask, InLayer, FrameInv, FrameTyped, Tasks
  <2> QED BY <1>1, <2>1, PoolStep DEF AddTask, LayerTasks
<1>2. ASSUME NEW t \in Tasks, Take(t) \/ Finish(t) PROVE FrameInv'
  BY <1>2, PoolStep DEF Take, Finish
<1>3. CASE UNCHANGED frameVars
  BY <1>3 DEF frameVars, poolVars, stepVars, eventVars, FrameInv, FrameTyped, JobFits, TasksInLayer,
     WaitsForLayer, LayersBefore, HeldByRunning, ArgumentsAlive, HeardByAll, Unfinished,
     InLayer, LayerTasks, LayerCount, AllAdded, Running
<1> QED
  BY <1>1, <1>2, <1>3, StartStep, PopStep, WaitStep, NextLayerStep, EndEventStep,
     StartUpdateStep, EndUpdateStep, EndFrameStep, EventStep
  DEF FrameNext, StepThread

\* In every behaviour the pool works for the layer that is run, events are held
\* by functions that run, and their arguments are as old as the frame.
THEOREM FrameSound == FrameSpec => []FrameInv
BY FrameInvInit, FrameInvStep, PTL DEF FrameSpec

\* The variables of the step keep their types, and tasks are never discarded.
THEOREM FrameTypesCorrect == FrameSpec => []FrameTypeOK
<1>1. FrameInv => FrameTypeOK
  <2> SUFFICES ASSUME FrameInv PROVE FrameTypeOK OBVIOUS
  <2>1. cleared \in 0 .. MaxFrames BY MaxFramesAssumption DEF FrameInv, FrameTyped, JobFits
  <2>2. layer \in 0 .. LayerCount + 1 \/ event = None
    BY LayerCountTyped DEF FrameInv, FrameTyped, JobFits
  <2> QED BY <2>1, <2>2 DEF FrameInv, FrameTyped, FrameTypeOK, Pool!Statuses
<1> QED BY <1>1, FrameSound, PTL

\* Tasks capture the variable `event' by reference and may: the loop does not
\* change it before they are done.
THEOREM EventCaptured == FrameSpec => []EventStable
<1>1. FrameInv => EventStable
  BY DEF FrameInv, TasksInLayer, EventStable, LayerTasks
<1> QED BY <1>1, FrameSound, PTL

\* Two collections, one of which reads the other, never run at the same time, and no
\* function of a component runs beside the lifecycle steps.
THEOREM AccessExclusive == FrameSpec => []ExclusiveAccess
<1>1. FrameInv => ExclusiveAccess
  <2> SUFFICES ASSUME FrameInv PROVE ExclusiveAccess OBVIOUS
  <2>1. CollectionsExclusive BY DEF CollectionsExclusive, FrameInv, TasksInLayer, InLayer, JobFits
  <2>2. NoConcurrentReader
    <3> SUFFICES ASSUME NEW t \in Tasks, NEW u \in Tasks, status[t] = "running",
                        status[u] = "running", phase \in Phases
                 PROVE  <<t[2], u[2]>> \notin ReadPairs[phase]
      BY DEF NoConcurrentReader
    <3>1. InLayer /\ t \in LayerTasks /\ u \in LayerTasks
      BY DEF FrameInv, TasksInLayer, Unfinished
    <3>2. layer \in 1 .. LayerCount BY <3>1, LayerCountTyped DEF InLayer, FrameInv, FrameTyped, JobFits
    <3>3. t[2] \in Layers[phase][layer] /\ u[2] \in Layers[phase][layer]
      BY <3>1 DEF LayerTasks
    <3> QED BY <3>2, <3>3, LayerTyped
  <2> QED BY <2>1, <2>2 DEF ExclusiveAccess
<1> QED BY <1>1, FrameSound, PTL

\* The arguments of an event are there until its last receiver has seen it,
\* although their memory is reused in every frame.
THEOREM ArgumentsOutlive == FrameSpec => []ArgumentsAlive
<1>1. FrameInv => ArgumentsAlive BY DEF FrameInv
<1> QED BY <1>1, FrameSound, PTL

\* An event that has left the variable was handed to every collection that has a
\* layer in its phase.
THEOREM EventsHeard == FrameSpec => []HeardByAll
<1>1. FrameInv => HeardByAll BY DEF FrameInv
<1> QED BY <1>1, FrameSound, PTL
=============================================================================
