----------------------------- MODULE FactoryProofs -----------------------------
(***************************************************************************)
(* Proofs about Factory: for any number of threads, any definitions that   *)
(* do not lead to themselves, and any number of entities.                  *)
(***************************************************************************)
EXTENDS Factory, FiniteSetTheorems, TLAPS

-----------------------------------------------------------------------------
(* The ranges of the variables. *)

ComponentNames == UNION {DOMAIN d.components : d \in Catalogue}
Members == UNION {UNION {DOMAIN d.components[c] : c \in DOMAIN d.components} : d \in Catalogue}
Values ==
  UNION {UNION {{d.components[c][k] : k \in DOMAIN d.components[c]} : c \in DOMAIN d.components} :
         d \in Catalogue}
Objects == UNION {[K -> Values] : K \in SUBSET Members}
Components == UNION {[C -> Objects] : C \in SUBSET ComponentNames}

Calls ==
  [id : Nat, extend : {None} \cup Names, stack : Seq(Catalogue),
   components : Components, children : {None} \cup Seq(Names),
   next : Nat \ {0}, child : {None} \cup Nat, kids : Seq(Nat), family : BOOLEAN]

Typed ==
  /\ definitions \in Seq(Catalogue) /\ Len(definitions) <= MaxDefinitions
  /\ currentEntityId \in Nat
  /\ origin \in Seq(Names) /\ Len(origin) = currentEntityId
  /\ calls \in [Threads -> Seq(Calls)]

-----------------------------------------------------------------------------
(* Definitions. *)

\* A set of natural numbers that is not empty has a least one.
LEMMA LeastNatural ==
  ASSUME NEW T \in SUBSET Nat, T # {}
  PROVE  \E n \in T : \A m \in T : n <= m
<1> DEFINE Below == {0 .. n - 1 : n \in T}
           R == StrictSubsetOrdering(Nat)
<1>1. Below \subseteq FiniteSubsetsOf(Nat) /\ Below # {}
  <2>1. ASSUME NEW n \in T PROVE 0 .. n - 1 \in FiniteSubsetsOf(Nat)
    BY FS_Interval DEF FiniteSubsetsOf
  <2> QED BY <2>1
<1>2. PICK B \in Below : \A C \in Below : <<C, B>> \notin R
  <2>1. IsWellFoundedOn(R, FiniteSubsetsOf(Nat)) BY FS_StrictSubsetOrderingWellFounded
  <2> HIDE DEF R, Below
  <2> QED BY <1>1, <2>1, WFMin
<1>3. PICK n \in T : B = 0 .. n - 1 BY <1>2
<1>4. ASSUME NEW m \in T PROVE n <= m
  <2> SUFFICES ASSUME m < n PROVE FALSE OBVIOUS
  <2>1. 0 .. m - 1 \subseteq 0 .. n - 1 /\ m \in 0 .. n - 1 /\ m \notin 0 .. m - 1 OBVIOUS
  <2>2. <<0 .. m - 1, 0 .. n - 1>> \in R BY <2>1 DEF StrictSubsetOrdering
  <2>3. 0 .. m - 1 \in Below OBVIOUS
  <2> QED BY <1>2, <1>3, <2>2, <2>3
<1> QED BY <1>4

\* A set that holds 0, and n + 1 with every n, holds every number.
LEMMA NatSetInduction ==
  ASSUME NEW T, 0 \in T, \A n \in Nat : n \in T => n + 1 \in T
  PROVE  Nat \subseteq T
<1> SUFFICES ASSUME Nat \ T # {} PROVE FALSE OBVIOUS
<1>1. PICK n \in Nat \ T : \A m \in Nat \ T : n <= m BY LeastNatural
<1>2. n - 1 \in Nat /\ n - 1 \in T BY <1>1
<1> QED BY <1>1, <1>2

\* The components of a definition are objects by name.
LEMMA DefinitionTyped ==
  ASSUME NEW d \in Catalogue
  PROVE  /\ d.name \in Names /\ d.extend \in {None} \cup Names /\ d.children \in {None} \cup Seq(Names)
         /\ d.components \in Components
<1>1. DOMAIN d.components \subseteq ComponentNames BY DEF ComponentNames
<1>2. ASSUME NEW c \in DOMAIN d.components PROVE d.components[c] \in Objects
  <2>1. DOMAIN d.components[c] \subseteq Members BY DEF Members
  <2>2. \A k \in DOMAIN d.components[c] : d.components[c][k] \in Values BY DEF Values
  <2>3. d.components[c] \in [DOMAIN d.components[c] -> Values]
    BY <2>2, DefinitionsAssumption DEF IsFcn
  <2> QED BY <2>1, <2>3 DEF Objects
<1>3. d.components \in [DOMAIN d.components -> Objects] BY <1>2, DefinitionsAssumption DEF IsFcn
<1> QED BY <1>1, <1>3, DefinitionsAssumption DEF Components

\* Find returns the first definition of the name.
LEMMA FindTyped ==
  ASSUME definitions \in Seq(Catalogue), NEW n, Defined(n)
  PROVE  /\ Find(n) \in Catalogue /\ Find(n).name = n
         /\ \E i \in DOMAIN definitions : Find(n) = definitions[i]
<1> DEFINE T == {i \in DOMAIN definitions : definitions[i].name = n}
<1>1. T \in SUBSET Nat /\ T # {} BY DEF Defined
<1>2. PICK i \in T : \A j \in T : i <= j
  <2> HIDE DEF T
  <2> QED BY <1>1, LeastNatural
<1>3. \A j \in 1 .. i - 1 : definitions[j].name # n
  <2> SUFFICES ASSUME NEW j \in 1 .. i - 1, definitions[j].name = n PROVE FALSE OBVIOUS
  <2>1. j \in T OBVIOUS
  <2> QED BY <1>2, <2>1
<1>4. \E k \in DOMAIN definitions :
        /\ definitions[k].name = n
        /\ \A j \in 1 .. k - 1 : definitions[j].name # n
  BY <1>2, <1>3
<1> DEFINE First(k) == definitions[k].name = n /\ \A j \in 1 .. k - 1 : definitions[j].name # n
           h == CHOOSE g \in DOMAIN definitions : First(g)
<1>5. h \in DOMAIN definitions /\ First(h)
  <2> HIDE DEF First
  <2>1. \E g \in DOMAIN definitions : First(g) BY <1>4 DEF First
  <2> QED BY <2>1
<1>6. Find(n) = definitions[h] BY DEF Find
<1> HIDE DEF h
<1> QED BY <1>5, <1>6

-----------------------------------------------------------------------------
(* The merge of components. *)

\* Objects are merged into an object.
LEMMA ExtendObjectTyped ==
  ASSUME NEW d \in Objects, NEW s \in Objects
  PROVE  ExtendObject(d, s) \in Objects
<1>1. /\ DOMAIN d \in SUBSET Members /\ DOMAIN s \in SUBSET Members
      /\ d \in [DOMAIN d -> Values] /\ s \in [DOMAIN s -> Values]
  BY DEF Objects
<1>2. ExtendObject(d, s) \in [DOMAIN d \cup DOMAIN s -> Values] BY <1>1 DEF ExtendObject
<1>3. DOMAIN d \cup DOMAIN s \in SUBSET Members BY <1>1
<1> QED BY <1>2, <1>3 DEF Objects

\* Components are merged into components.
LEMMA ExtendComponentsTyped ==
  ASSUME NEW d \in Components, NEW s \in Components
  PROVE  ExtendComponents(d, s) \in Components
<1>1. /\ DOMAIN d \in SUBSET ComponentNames /\ DOMAIN s \in SUBSET ComponentNames
      /\ d \in [DOMAIN d -> Objects] /\ s \in [DOMAIN s -> Objects]
  BY DEF Components
<1>2. \A n \in DOMAIN d \cap DOMAIN s : ExtendObject(d[n], s[n]) \in Objects
  BY <1>1, ExtendObjectTyped
<1>3. ExtendComponents(d, s) \in [DOMAIN d \cup DOMAIN s -> Objects]
  BY <1>1, <1>2 DEF ExtendComponents
<1>4. DOMAIN d \cup DOMAIN s \in SUBSET ComponentNames BY <1>1
<1> QED BY <1>3, <1>4 DEF Components

\* Lists of children are merged into a list.
LEMMA ExtendChildrenTyped ==
  ASSUME NEW d \in {None} \cup Seq(Names), NEW s \in {None} \cup Seq(Names)
  PROVE  /\ ExtendChildren(d, s) \in {None} \cup Seq(Names)
         /\ ExtendChildren(d, s) = None => d = None /\ s = None
<1>1. CASE s = None \/ d = None BY <1>1 DEF ExtendChildren
<1>2. CASE s # None /\ d # None
  <2>1. s \in Seq(Names) /\ d \in Seq(Names) BY <1>2
  <2>2. SubSeq(d, Len(s) + 1, Len(d)) \in Seq(Names) BY <2>1
  <2>3. s \o SubSeq(d, Len(s) + 1, Len(d)) \in Seq(Names) BY <2>1, <2>2
  <2>4. ExtendChildren(d, s) = s \o SubSeq(d, Len(s) + 1, Len(d)) BY <1>2 DEF ExtendChildren
  <2> QED BY <2>3, <2>4, NamesAssumption
<1> QED BY <1>1, <1>2

-----------------------------------------------------------------------------
(* The stack of calls of a thread. *)

\* A new call holds the definition and what it says.
LEMMA NewCallTyped ==
  ASSUME Typed, NEW id \in Nat, NEW n, Defined(n)
  PROVE  NewCall(id, n) \in Calls
<1>1. Find(n) \in Catalogue BY FindTyped DEF Typed
<1>2. /\ Find(n).extend \in {None} \cup Names /\ Find(n).children \in {None} \cup Seq(Names)
      /\ Find(n).components \in Components /\ <<Find(n)>> \in Seq(Catalogue)
  BY <1>1, DefinitionTyped
<1> QED BY <1>2 DEF NewCall, Calls

\* The innermost call of t goes on as c, the others stay.
LEMMA ContinueTyped ==
  ASSUME calls \in [Threads -> Seq(Calls)], NEW t \in Threads, Running(t), NEW c \in Calls,
         Continue(t, c)
  PROVE  /\ calls' \in [Threads -> Seq(Calls)]
         /\ Depth(t) \in DOMAIN calls[t]
         /\ \A u \in Threads : Len(calls'[u]) = Len(calls[u]) /\ DOMAIN calls'[u] = DOMAIN calls[u]
         /\ \A u \in Threads : \A i \in DOMAIN calls[u] :
              calls'[u][i] = IF u = t /\ i = Depth(t) THEN c ELSE calls[u][i]
<1>0. calls[t] \in Seq(Calls) /\ Depth(t) = Len(calls[t]) /\ Depth(t) \in 1 .. Len(calls[t])
  BY DEF Running, Depth
<1>1. PICK cs \in Seq(Calls), d \in Nat : cs = calls[t] /\ d = Len(cs) /\ d = Depth(t)
  BY <1>0
<1>2. d \in 1 .. Len(cs) /\ DOMAIN cs = 1 .. Len(cs) BY <1>0, <1>1
<1>3. PICK s : s = [cs EXCEPT ![d] = c] OBVIOUS
<1>4. s \in Seq(Calls) /\ Len(s) = Len(cs) /\ \A i \in 1 .. Len(cs) : s[i] = IF i = d THEN c ELSE cs[i]
  BY <1>2, <1>3
<1>5. calls' = [calls EXCEPT ![t] = s]
  BY <1>1, <1>3 DEF Continue
<1>6. calls'[t] = s /\ \A u \in Threads \ {t} : calls'[u] = calls[u] BY <1>5
<1>7. calls' \in [Threads -> Seq(Calls)] BY <1>4, <1>5
<1>8. ASSUME NEW u \in Threads
      PROVE  /\ Len(calls'[u]) = Len(calls[u]) /\ DOMAIN calls'[u] = DOMAIN calls[u]
             /\ \A i \in DOMAIN calls[u] :
                  calls'[u][i] = IF u = t /\ i = Depth(t) THEN c ELSE calls[u][i]
  <2>1. CASE u = t
    <3>1. calls'[u] = s /\ calls[u] = cs BY <1>1, <1>6, <2>1
    <3>2. DOMAIN s = 1 .. Len(s) BY <1>4
    <3> QED BY <1>1, <1>2, <1>4, <2>1, <3>1, <3>2
  <2>2. CASE u # t BY <1>6, <2>2
  <2> QED BY <2>1, <2>2
<1>9. Depth(t) \in DOMAIN calls[t] BY <1>1, <1>2
<1> QED BY <1>7, <1>8, <1>9

\* A call is entered, or not if there is no definition of the name.
LEMMA EnterTyped ==
  ASSUME Typed, NEW cs \in Seq(Calls), NEW n
  PROVE  /\ Enter(cs, n) \in Seq(Calls)
         /\ Len(Enter(cs, n)) = IF Defined(n) THEN Len(cs) + 1 ELSE Len(cs)
         /\ \A i \in 1 .. Len(cs) : Enter(cs, n)[i] = cs[i]
         /\ Defined(n) => /\ Enter(cs, n)[Len(cs) + 1] = NewCall(currentEntityId, n)
                          /\ NewCall(currentEntityId, n) \in Calls
<1>1. CASE Defined(n)
  <2>1. NewCall(currentEntityId, n) \in Calls BY <1>1, NewCallTyped DEF Typed
  <2> QED BY <1>1, <2>1 DEF Enter
<1>2. CASE ~Defined(n) BY <1>2 DEF Enter
<1> QED BY <1>1, <1>2

\* The frames are the calls of all threads.
LEMMA FramesAre ==
  ASSUME NEW f
  PROVE  f \in Frames <=> \E t \in Threads : \E i \in DOMAIN calls[t] : f = calls[t][i]
BY DEF Frames

-----------------------------------------------------------------------------
(* The family invariant. *)

\* A call lists the children whose parent it has assigned, the one that it waits for has
\* none yet, and once it has assigned the children nothing is added.
FrameSound(f) ==
  /\ f.id \in Ids /\ f.child \in Ids \cup {None}
  /\ FamilyFree(f.components)
  /\ f.extend # None \/ f.stack # <<>> => f.kids = <<>> /\ f.child = None /\ ~f.family
  /\ f.children = None => f.kids = <<>> /\ f.child = None
  /\ \A i \in DOMAIN f.kids :
       f.kids[i] \in Ids /\ \E q \in OfType(f.kids[i], {PARENT}) : q.parent = f.id
  /\ \A i, j \in DOMAIN f.kids : f.kids[i] = f.kids[j] => i = j
  /\ f.child # None => OfType(f.child, {PARENT}) = {}
  /\ f.family => /\ f.child = None
                 /\ ~(f.children # None /\ f.next <= Len(f.children))
                 /\ \E r \in OfType(f.id, {CHILDREN}) : r.kids = f.kids

FramesSound == \A t \in Threads : \A i \in DOMAIN calls[t] : FrameSound(calls[t][i])

\* No two calls create the same entity, and no two wait for the same child.
FramesApart ==
  \A t, u \in Threads : \A i \in DOMAIN calls[t], j \in DOMAIN calls[u] : t # u \/ i # j =>
    /\ calls[t][i].id # calls[u][j].id
    /\ calls[t][i].child # None => calls[t][i].child # calls[u][j].child

RequestIds ==
  \A r \in creationRequests :
    /\ r.id \in Ids /\ r.parent \in Ids \cup {None}
    /\ \A i \in DOMAIN r.kids : r.kids[i] \in Ids

FamilyInv == Typed /\ FramesSound /\ FramesApart /\ RequestIds /\ FamiliesAgree

\* It says what the requests are to be.
LEMMA FamilyInvImplies == FamilyInv => RequestsSound
<1> SUFFICES ASSUME FamilyInv PROVE TypeOK BY DEF RequestsSound, FamilyInv
<1>1. ASSUME NEW f \in Frames PROVE f.id \in Ids /\ f.child \in Ids \cup {None} /\ f.extend \in Names \cup {None}
  <2>1. PICK t \in Threads : \E i \in DOMAIN calls[t] : f = calls[t][i] BY FramesAre
  <2>2. PICK i \in DOMAIN calls[t] : f = calls[t][i] BY <2>1
  <2>3. calls[t] \in Seq(Calls) BY DEF FamilyInv, Typed
  <2>4. f \in Calls BY <2>2, <2>3
  <2> QED BY <2>2, <2>4 DEF FamilyInv, FramesSound, FrameSound, Calls
<1> QED BY <1>1 DEF TypeOK, FamilyInv, Typed, RequestIds

\* Nothing exists yet.
LEMMA FamilyInit == NoFamilyByHand /\ Init => FamilyInv
<1> SUFFICES ASSUME Init PROVE FamilyInv OBVIOUS
<1>1. Typed BY BoundsAssumption DEF Init, Typed
<1>2. FramesSound /\ FramesApart BY DEF Init, FramesSound, FramesApart
<1>3. RequestIds /\ FamiliesAgree BY DEF Init, RequestIds, FamiliesAgree
<1> QED BY <1>1, <1>2, <1>3 DEF FamilyInv

LEMMA IntervalGrows ==
  ASSUME NEW m \in Nat, NEW n \in Nat, m <= n
  PROVE  \A i \in 0 .. m - 1 : i \in 0 .. n - 1
OBVIOUS

\* A call stays sound while others go on: ids and requests are only added, and no
\* parent is assigned to the child that it waits for.
LEMMA OthersSound ==
  ASSUME Typed, NEW f, FrameSound(f), currentEntityId' \in Nat, currentEntityId <= currentEntityId',
         creationRequests \subseteq creationRequests',
         f.child # None => OfType(f.child, {PARENT})' = {}
  PROVE  FrameSound(f)'
<1>1. \A i \in Ids : i \in Ids'
  <2>1. PICK m \in Nat, n \in Nat : m = currentEntityId /\ n = currentEntityId' /\ m <= n BY DEF Typed
  <2>2. Ids = 0 .. m - 1 /\ Ids' = 0 .. n - 1 BY <2>1 DEF Ids
  <2> QED BY <2>1, <2>2, IntervalGrows
<1>2. \A id, ts : OfType(id, ts) \subseteq OfType(id, ts)' BY DEF OfType
<1> QED BY <1>1, <1>2 DEF FrameSound

\* A new call is sound.
LEMMA NewCallSound ==
  ASSUME Typed, NoFamilyByHand, NEW n, Defined(n), currentEntityId' = currentEntityId + 1,
         NEW f, f = NewCall(currentEntityId, n)
  PROVE  FrameSound(f)'
<1>1. Find(n) \in Catalogue BY FindTyped DEF Typed
<1>2. FamilyFree(Find(n).components) BY <1>1 DEF NoFamilyByHand
<1>3. /\ f.id = currentEntityId /\ f.components = Find(n).components
      /\ f.kids = <<>> /\ f.child = None /\ f.family = FALSE
  BY DEF NewCall
<1>4. currentEntityId \in Ids' BY DEF Ids, Typed
<1> QED BY <1>2, <1>3, <1>4 DEF FrameSound

-----------------------------------------------------------------------------
(* The steps of a call. *)

\* What is left to show of a step that only goes on with the innermost call.
LEMMA ContinueSound ==
  ASSUME FamilyInv, NEW t \in Threads, Running(t), NEW c \in Calls, Continue(t, c),
         UNCHANGED <<definitions, currentEntityId, origin>>,
         creationRequests \subseteq creationRequests',
         c.id = Top(t).id, c.child \in {None, Top(t).child}, FrameSound(c)',
         \A f \in Frames : f.child # None /\ f.child # Top(t).child =>
            OfType(f.child, {PARENT})' = OfType(f.child, {PARENT})
  PROVE  /\ Typed' /\ FramesSound' /\ FramesApart'
         /\ c \in Frames' /\ \A f \in Frames : f \in Frames' \/ f = Top(t)
<1>1. calls \in [Threads -> Seq(Calls)] BY DEF FamilyInv, Typed
<1>2. /\ calls' \in [Threads -> Seq(Calls)]
      /\ Depth(t) \in DOMAIN calls[t]
      /\ \A u \in Threads : Len(calls'[u]) = Len(calls[u]) /\ DOMAIN calls'[u] = DOMAIN calls[u]
      /\ \A u \in Threads : \A i \in DOMAIN calls[u] :
           calls'[u][i] = IF u = t /\ i = Depth(t) THEN c ELSE calls[u][i]
  BY <1>1, ContinueTyped
<1>3. Typed' BY <1>2 DEF FamilyInv, Typed
<1>4. PICK d : d = Depth(t) /\ d \in DOMAIN calls[t] /\ Top(t) = calls[t][d] BY <1>2 DEF Top
<1>6. FramesSound'
  <2> SUFFICES ASSUME NEW u \in Threads, NEW i \in DOMAIN calls'[u]
               PROVE  \A f : f = calls'[u][i] => FrameSound(f)'
    BY DEF FramesSound
  <2>1. CASE u = t /\ i = d BY <1>2, <1>4, <2>1
  <2>2. CASE ~(u = t /\ i = d)
    <3>1. PICK f : f = calls[u][i] OBVIOUS
    <3>2. calls'[u][i] = f /\ i \in DOMAIN calls[u] BY <1>2, <1>4, <2>2, <3>1
    <3>3. FrameSound(f) /\ f \in Frames BY <3>1, <3>2, FramesAre DEF FamilyInv, FramesSound
    <3>4. f.child # None => f.child # Top(t).child
      BY <1>4, <2>2, <3>1, <3>2 DEF FamilyInv, FramesApart
    <3>5. f.child # None => OfType(f.child, {PARENT})' = {}
      BY <3>3, <3>4 DEF FrameSound
    <3>6. currentEntityId' \in Nat /\ currentEntityId <= currentEntityId'
      BY DEF FamilyInv, Typed
    <3>7. FrameSound(f)' BY <3>3, <3>5, <3>6, OthersSound DEF FamilyInv
    <3> QED BY <3>2, <3>7
  <2> QED BY <2>1, <2>2
<1>7. FramesApart'
  <2> SUFFICES ASSUME NEW u \in Threads, NEW v \in Threads,
                      NEW i \in DOMAIN calls'[u], NEW j \in DOMAIN calls'[v], u # v \/ i # j
               PROVE  /\ calls'[u][i].id # calls'[v][j].id
                      /\ calls'[u][i].child # None => calls'[u][i].child # calls'[v][j].child
    BY DEF FramesApart
  <2>1. i \in DOMAIN calls[u] /\ j \in DOMAIN calls[v] BY <1>2
  <2>2. /\ calls[u][i].id # calls[v][j].id
        /\ calls[u][i].child # None => calls[u][i].child # calls[v][j].child
        /\ calls[v][j].child # None => calls[u][i].child # calls[v][j].child
    BY <2>1 DEF FamilyInv, FramesApart
  <2>3. /\ calls'[u][i].id = calls[u][i].id /\ calls'[v][j].id = calls[v][j].id
        /\ calls'[u][i].child \in {None, calls[u][i].child}
        /\ calls'[v][j].child \in {None, calls[v][j].child}
    BY <1>2, <1>4, <2>1
  <2> QED BY <2>2, <2>3
<1>8. ASSUME NEW u \in Threads, NEW i \in DOMAIN calls[u] PROVE calls'[u][i] \in Frames'
  BY <1>2 DEF Frames
<1>9. c \in Frames' BY <1>2, <1>4, <1>8
<1>10. ASSUME NEW f \in Frames PROVE f \in Frames' \/ f = Top(t)
  <2>1. PICK u \in Threads : \E i \in DOMAIN calls[u] : f = calls[u][i] BY FramesAre
  <2>2. PICK i \in DOMAIN calls[u] : f = calls[u][i] BY <2>1
  <2>3. CASE u = t /\ i = d BY <1>4, <2>2, <2>3
  <2>4. CASE ~(u = t /\ i = d)
    <3>1. calls'[u][i] = f BY <1>2, <1>4, <2>2, <2>4
    <3> QED BY <1>8, <2>2, <3>1
  <2> QED BY <2>3, <2>4
<1> QED BY <1>9, <1>10, <1>3, <1>6, <1>7

\* An assigned parent is listed by the call that lists the child, or in its components.
Listed(q) ==
  \E f \in Frames \cup OfType(q.parent, {CHILDREN}) :
    f.id = q.parent /\ \E i \in DOMAIN f.kids : f.kids[i] = q.id

\* What is listed stays listed if every call stays with its list, or leaves it in a request.
LEMMA ListedKept ==
  ASSUME creationRequests \subseteq creationRequests',
         \A f \in Frames : f.kids # <<>> =>
            \E g \in Frames' \cup OfType(f.id, {CHILDREN})' :
              g.id = f.id /\ \A i \in DOMAIN f.kids : \E j \in DOMAIN g.kids : g.kids[j] = f.kids[i],
         NEW q, Listed(q)
  PROVE  Listed(q)'
<1>1. PICK f \in Frames \cup OfType(q.parent, {CHILDREN}) :
        f.id = q.parent /\ \E i \in DOMAIN f.kids : f.kids[i] = q.id
  BY DEF Listed
<1>2. CASE f \in OfType(q.parent, {CHILDREN})
  <2>1. f \in OfType(q.parent, {CHILDREN})' BY <1>2 DEF OfType
  <2> QED BY <1>1, <2>1 DEF Listed
<1>3. CASE f \in Frames
  <2>1. f.kids # <<>> BY <1>1
  <2>2. PICK g \in Frames' \cup OfType(f.id, {CHILDREN})' :
          g.id = f.id /\ \A i \in DOMAIN f.kids : \E j \in DOMAIN g.kids : g.kids[j] = f.kids[i]
    BY <1>3, <2>1
  <2>3. g.id = q.parent /\ \E j \in DOMAIN g.kids : g.kids[j] = q.id BY <1>1, <2>2
  <2>4. g \in Frames' \cup OfType(q.parent, {CHILDREN})' BY <1>1, <2>2
  <2> QED BY <2>3, <2>4 DEF Listed
<1> QED BY <1>1, <1>2, <1>3

\* Where no request is added, families agree as long as what was listed stays listed.
LEMMA AgreeKept ==
  ASSUME FamiliesAgree, creationRequests' = creationRequests, \A q : Listed(q) => Listed(q)'
  PROVE  FamiliesAgree'
<1>1. \A id, ts : OfType(id, ts)' = OfType(id, ts) BY DEF OfType
<1>2. \A q \in creationRequests : q.type = PARENT => Listed(q) BY DEF FamiliesAgree, Listed
<1>3. \A q \in creationRequests' : q.type = PARENT => Listed(q)' BY <1>2
<1>4. \A r \in creationRequests' : r.type = CHILDREN =>
        \A i, j \in DOMAIN r.kids :
          /\ \E q \in OfType(r.kids[i], {PARENT})' : q.parent = r.id
          /\ r.kids[i] = r.kids[j] => i = j
  BY <1>1 DEF FamiliesAgree
<1>5. \A q, r \in creationRequests' : q.type = PARENT /\ r.type = PARENT /\ q.id = r.id => q = r
  BY DEF FamiliesAgree
<1> QED BY <1>3, <1>4, <1>5 DEF FamiliesAgree, Listed

\* The innermost call of a thread.
LEMMA TopSound ==
  ASSUME FamilyInv, NEW t \in Threads, Running(t)
  PROVE  Top(t) \in Calls /\ Top(t) \in Frames /\ FrameSound(Top(t))
<1>1. calls[t] \in Seq(Calls) BY DEF FamilyInv, Typed
<1>2. Depth(t) \in DOMAIN calls[t] BY <1>1 DEF Running, Depth
<1>3. Top(t) = calls[t][Depth(t)] BY DEF Top
<1>4. Top(t) \in Calls BY <1>1, <1>2, <1>3
<1>5. Top(t) \in Frames BY <1>2, <1>3 DEF Frames
<1> QED BY <1>2, <1>3, <1>4, <1>5 DEF FamilyInv, FramesSound

\* A step that assigns nothing: the call goes on with its child and its list.
LEMMA QuietStep ==
  ASSUME FamilyInv, NEW t \in Threads, Running(t), NEW c \in Calls, Continue(t, c),
         UNCHANGED <<definitions, currentEntityId, creationRequests, origin>>,
         c.id = Top(t).id, c.child = Top(t).child, c.kids = Top(t).kids, FrameSound(c)
  PROVE  FamilyInv'
<1>1. \A id, ts : OfType(id, ts)' = OfType(id, ts) BY DEF OfType
<1>2. FrameSound(c)' BY <1>1 DEF FrameSound, Ids
<1>3. /\ Typed' /\ FramesSound' /\ FramesApart'
      /\ c \in Frames' /\ \A f \in Frames : f \in Frames' \/ f = Top(t)
  BY <1>1, <1>2, ContinueSound
<1>4. \A f \in Frames : \E g \in Frames' : g.id = f.id /\ g.kids = f.kids BY <1>3
<1>5. \A q : Listed(q) => Listed(q)'
  <2> SUFFICES ASSUME NEW q, Listed(q) PROVE Listed(q)' OBVIOUS
  <2>1. \A f \in Frames : f.kids # <<>> =>
          \E g \in Frames' \cup OfType(f.id, {CHILDREN})' :
            g.id = f.id /\ \A i \in DOMAIN f.kids : \E j \in DOMAIN g.kids : g.kids[j] = f.kids[i]
    BY <1>4
  <2> QED BY <2>1, ListedKept
<1>6. FamiliesAgree' BY <1>5, AgreeKept DEF FamilyInv
<1>7. RequestIds' BY DEF FamilyInv, RequestIds, Ids
<1> QED BY <1>3, <1>6, <1>7 DEF FamilyInv

LEMMA ExtendKeeps ==
  ASSUME FamilyInv, NEW t \in Threads, Extend(t)
  PROVE  FamilyInv'
<1>1. PICK f \in Calls : f = Top(t) /\ FrameSound(f) BY TopSound DEF Extend
<1>2. CASE Defined(f.extend)
  <2>1. PICK d \in Catalogue : d = Find(f.extend) BY <1>2, FindTyped DEF FamilyInv, Typed
  <2>2. PICK c : c = [f EXCEPT !.extend = d.extend, !.stack = Append(@, d)] OBVIOUS
  <2>3. Continue(t, c) BY <1>1, <1>2, <2>1, <2>2 DEF Extend
  <2>4. d.extend \in {None} \cup Names BY DefinitionTyped
  <2>5. c \in Calls
    <3>1. f.stack \in Seq(Catalogue) BY DEF Calls
    <3>2. Append(f.stack, d) \in Seq(Catalogue) BY <3>1
    <3> QED BY <2>2, <2>4, <3>2 DEF Calls
  <2>6. /\ c.id = f.id /\ c.child = f.child /\ c.kids = f.kids /\ c.components = f.components
        /\ c.children = f.children /\ c.family = f.family /\ c.next = f.next
    BY <2>2 DEF Calls
  <2>7. f.extend # None BY <1>1 DEF Extend
  <2>8. FrameSound(c) BY <1>1, <2>6, <2>7 DEF FrameSound
  <2> QED BY <1>1, <2>3, <2>5, <2>6, <2>8, QuietStep DEF Extend
<1>3. CASE ~Defined(f.extend)
  <2>2. PICK c : c = [f EXCEPT !.extend = None] OBVIOUS
  <2>3. Continue(t, c) BY <1>1, <1>3, <2>2 DEF Extend
  <2>5. c \in Calls BY <2>2 DEF Calls
  <2>6. /\ c.id = f.id /\ c.child = f.child /\ c.kids = f.kids /\ c.components = f.components
        /\ c.children = f.children /\ c.family = f.family /\ c.next = f.next
    BY <2>2 DEF Calls
  <2>7. f.extend # None BY <1>1 DEF Extend
  <2>8. FrameSound(c) BY <1>1, <2>6, <2>7 DEF FrameSound
  <2> QED BY <1>1, <2>3, <2>5, <2>6, <2>8, QuietStep DEF Extend
<1> QED BY <1>2, <1>3

\* A component keeps the type that one of the two merged objects has.
LEMMA ExtendFamilyFree ==
  ASSUME NEW d \in Components, NEW s \in Components, FamilyFree(d), FamilyFree(s)
  PROVE  FamilyFree(ExtendComponents(d, s))
<1>1. PICK e : e = ExtendComponents(d, s) OBVIOUS
<1>2. DOMAIN e = DOMAIN d \cup DOMAIN s BY <1>1 DEF ExtendComponents
<1>3. ASSUME NEW n \in DOMAIN e PROVE TypeOf(n, e[n]) \notin {CHILDREN, PARENT}
  <2>1. CASE n \notin DOMAIN s
    <3>1. e[n] = d[n] /\ n \in DOMAIN d BY <1>1, <1>2, <2>1 DEF ExtendComponents
    <3> QED BY <3>1 DEF FamilyFree
  <2>2. CASE n \in DOMAIN s /\ n \notin DOMAIN d
    <3>1. e[n] = s[n] BY <1>1, <1>2, <2>2 DEF ExtendComponents
    <3> QED BY <2>2, <3>1 DEF FamilyFree
  <2>3. CASE n \in DOMAIN s /\ n \in DOMAIN d
    <3>1. PICK o, p : o = d[n] /\ p = s[n] OBVIOUS
    <3>2. e[n] = ExtendObject(o, p) BY <1>1, <1>2, <2>3, <3>1 DEF ExtendComponents
    <3>3. TypeOf(n, e[n]) \in {TypeOf(n, o), TypeOf(n, p)}
      BY <3>2 DEF TypeOf, ExtendObject
    <3> QED BY <2>3, <3>1, <3>3 DEF FamilyFree
  <2> QED BY <1>2, <2>1, <2>2, <2>3
<1> QED BY <1>1, <1>3 DEF FamilyFree

LEMMA MergeKeeps ==
  ASSUME FamilyInv, NoFamilyByHand, NEW t \in Threads, Merge(t)
  PROVE  FamilyInv'
<1>1. PICK f \in Calls : f = Top(t) /\ FrameSound(f) BY TopSound DEF Merge
<1>2. f.stack \in Seq(Catalogue) /\ f.stack # <<>> BY <1>1 DEF Calls, Merge
<1>3. Len(f.stack) \in 1 .. Len(f.stack) BY <1>2
<1>4. PICK d \in Catalogue : d = f.stack[Len(f.stack)] BY <1>2, <1>3
<1>5. PICK c : c = [f EXCEPT !.components = ExtendComponents(@, d.components),
                             !.children = ExtendChildren(@, d.children),
                             !.stack = SubSeq(@, 1, Len(f.stack) - 1)]
  OBVIOUS
<1>6. Continue(t, c) BY <1>1, <1>4, <1>5 DEF Merge
<1>7. f.components \in Components /\ f.children \in {None} \cup Seq(Names) BY DEF Calls
<1>8. ExtendComponents(f.components, d.components) \in Components
  BY <1>7, DefinitionTyped, ExtendComponentsTyped
<1>9. /\ ExtendChildren(f.children, d.children) \in {None} \cup Seq(Names)
      /\ ExtendChildren(f.children, d.children) = None => f.children = None
  BY <1>7, DefinitionTyped, ExtendChildrenTyped
<1>10. SubSeq(f.stack, 1, Len(f.stack) - 1) \in Seq(Catalogue) BY <1>2
<1>11. c \in Calls BY <1>5, <1>8, <1>9, <1>10 DEF Calls
<1>12. /\ c.id = f.id /\ c.child = f.child /\ c.kids = f.kids
       /\ c.components = ExtendComponents(f.components, d.components)
       /\ c.children = ExtendChildren(f.children, d.children) /\ c.family = f.family
  BY <1>5 DEF Calls
<1>13. FamilyFree(c.components)
  BY <1>1, <1>7, <1>12, DefinitionTyped, ExtendFamilyFree DEF FrameSound, NoFamilyByHand
<1>14. f.kids = <<>> /\ f.child = None /\ ~f.family BY <1>1, <1>2 DEF FrameSound
<1>15. FrameSound(c) BY <1>1, <1>12, <1>13, <1>14 DEF FrameSound
<1> QED BY <1>1, <1>6, <1>11, <1>12, <1>15, QuietStep DEF Merge

\* A step that takes an id, and enters a call if the name is defined: the calls below stay
\* with their lists, the innermost may wait for the new id.
LEMMA EnterSound ==
  ASSUME FamilyInv, NoFamilyByHand, NEW t \in Threads, NEW n \in Names, NEW cs \in Seq(Calls),
         Len(cs) = Len(calls[t]), TakeId(n), UNCHANGED <<definitions, creationRequests>>,
         calls' = [calls EXCEPT ![t] = Enter(cs, n)],
         \A i \in 1 .. Len(cs) :
           /\ cs[i].id = calls[t][i].id /\ cs[i].kids = calls[t][i].kids /\ FrameSound(cs[i])'
           /\ \/ cs[i].child = calls[t][i].child
              \/ i = Len(cs) /\ cs[i].child = currentEntityId
  PROVE  FamilyInv'
<1>1. PICK e : e = Enter(cs, n) OBVIOUS
<1>2. /\ e \in Seq(Calls) /\ Len(e) = IF Defined(n) THEN Len(cs) + 1 ELSE Len(cs)
      /\ \A i \in 1 .. Len(cs) : e[i] = cs[i]
      /\ Defined(n) => e[Len(cs) + 1] = NewCall(currentEntityId, n)
  BY <1>1, EnterTyped DEF FamilyInv
<1>3. calls \in [Threads -> Seq(Calls)] /\ currentEntityId \in Nat /\ origin \in Seq(Names)
  BY DEF FamilyInv, Typed
<1>4. calls'[t] = e /\ \A u \in Threads \ {t} : calls'[u] = calls[u] BY <1>1, <1>3
<1>5. currentEntityId' = currentEntityId + 1 /\ origin' = Append(origin, n) BY DEF TakeId
<1>6. Typed'
  <2>1. calls' \in [Threads -> Seq(Calls)] BY <1>1, <1>2, <1>3
  <2>2. origin' \in Seq(Names) /\ Len(origin') = Len(origin) + 1 BY <1>3, <1>5
  <2> QED BY <1>3, <1>5, <2>1, <2>2 DEF FamilyInv, Typed
<1>7. /\ \A i \in Ids : i \in Ids' /\ i # currentEntityId
      /\ currentEntityId \in Ids' /\ currentEntityId # None
  <2>1. PICK m \in Nat : m = currentEntityId BY <1>3
  <2>2. Ids = 0 .. m - 1 /\ Ids' = 0 .. m BY <1>5, <2>1 DEF Ids
  <2> QED BY <2>1, <2>2, NamesAssumption
<1>8. \A id, ts : OfType(id, ts)' = OfType(id, ts) BY DEF OfType
\* Where a call of the new state comes from.
<1>9. ASSUME NEW u \in Threads, NEW i \in DOMAIN calls'[u]
      PROVE  \/ /\ u = t /\ i = Len(cs) + 1 /\ Defined(n)
                /\ calls'[u][i] = NewCall(currentEntityId, n)
             \/ /\ u = t /\ i \in 1 .. Len(cs) /\ calls'[u][i] = cs[i] /\ i \in DOMAIN calls[u]
             \/ /\ u # t /\ i \in DOMAIN calls[u] /\ calls'[u][i] = calls[u][i]
  <2>1. CASE u # t BY <1>4, <2>1
  <2>2. CASE u = t
    <3>1. calls'[u] = e /\ i \in 1 .. Len(e) BY <1>2, <1>4, <2>2
    <3>2. calls[t] \in Seq(Calls) /\ DOMAIN calls[t] = 1 .. Len(cs) BY <1>3
    <3>3. Len(cs) \in Nat OBVIOUS
    <3>4. CASE i \in 1 .. Len(cs) BY <1>2, <2>2, <3>1, <3>2, <3>4
    <3>5. CASE i \notin 1 .. Len(cs)
      <4>1. Defined(n) /\ i = Len(cs) + 1 BY <1>2, <3>1, <3>3, <3>5
      <4> QED BY <1>2, <2>2, <3>1, <4>1
    <3> QED BY <3>4, <3>5
  <2> QED BY <2>1, <2>2
<1>10. FramesSound'
  <2> SUFFICES ASSUME NEW u \in Threads, NEW i \in DOMAIN calls'[u]
               PROVE  \A f : f = calls'[u][i] => FrameSound(f)'
    BY DEF FramesSound
  <2>1. CASE u = t /\ i = Len(cs) + 1 /\ Defined(n) /\ calls'[u][i] = NewCall(currentEntityId, n)
    BY <1>5, <2>1, NewCallSound DEF FamilyInv
  <2>2. CASE u = t /\ i \in 1 .. Len(cs) /\ calls'[u][i] = cs[i] BY <2>2
  <2>3. CASE u # t /\ i \in DOMAIN calls[u] /\ calls'[u][i] = calls[u][i]
    <3>1. PICK f : f = calls[u][i] OBVIOUS
    <3>2. FrameSound(f) BY <2>3, <3>1 DEF FamilyInv, FramesSound
    <3>3. f.child # None => OfType(f.child, {PARENT})' = {} BY <1>8, <3>2 DEF FrameSound
    <3>4. currentEntityId' \in Nat /\ currentEntityId <= currentEntityId' BY <1>3, <1>5
    <3>5. FrameSound(f)' BY <3>2, <3>3, <3>4, OthersSound DEF FamilyInv
    <3> QED BY <2>3, <3>1, <3>5
  <2> QED BY <1>9, <2>1, <2>2, <2>3
<1>11. FramesApart'
  \* What a call of the new state is, as far as ids go.
  <2>1. ASSUME NEW u \in Threads, NEW i \in DOMAIN calls'[u]
        PROVE  \/ /\ u = t /\ i = Len(cs) + 1
                  /\ calls'[u][i].id = currentEntityId /\ calls'[u][i].child = None
               \/ /\ i \in DOMAIN calls[u] /\ calls'[u][i].id = calls[u][i].id
                  /\ calls[u][i].id \in Ids /\ calls[u][i].child \in Ids \cup {None}
                  /\ \/ calls'[u][i].child = calls[u][i].child
                     \/ u = t /\ i = Len(cs) /\ calls'[u][i].child = currentEntityId
    <3>1. i \in DOMAIN calls[u] =>
            calls[u][i].id \in Ids /\ calls[u][i].child \in Ids \cup {None}
      BY DEF FamilyInv, FramesSound, FrameSound
    <3> QED BY <1>9, <3>1 DEF NewCall
  <2> SUFFICES ASSUME NEW u \in Threads, NEW v \in Threads,
                      NEW i \in DOMAIN calls'[u], NEW j \in DOMAIN calls'[v], u # v \/ i # j
               PROVE  /\ calls'[u][i].id # calls'[v][j].id
                      /\ calls'[u][i].child # None => calls'[u][i].child # calls'[v][j].child
    BY DEF FramesApart
  <2>2. i \in DOMAIN calls[u] /\ j \in DOMAIN calls[v] =>
          /\ calls[u][i].id # calls[v][j].id
          /\ calls[u][i].child # None => calls[u][i].child # calls[v][j].child
    BY DEF FamilyInv, FramesApart
  <2>3. PICK p, q : p = calls'[u][i] /\ q = calls'[v][j] OBVIOUS
  <2>4. PICK a, b : a = calls[u][i] /\ b = calls[v][j] OBVIOUS
  <2>5. \/ u = t /\ i = Len(cs) + 1 /\ p.id = currentEntityId /\ p.child = None
        \/ /\ i \in DOMAIN calls[u] /\ p.id = a.id /\ a.id \in Ids /\ a.child \in Ids \cup {None}
           /\ p.child = a.child \/ (u = t /\ i = Len(cs) /\ p.child = currentEntityId)
    BY <2>1, <2>3, <2>4
  <2>6. \/ v = t /\ j = Len(cs) + 1 /\ q.id = currentEntityId /\ q.child = None
        \/ /\ j \in DOMAIN calls[v] /\ q.id = b.id /\ b.id \in Ids /\ b.child \in Ids \cup {None}
           /\ q.child = b.child \/ (v = t /\ j = Len(cs) /\ q.child = currentEntityId)
    BY <2>1, <2>3, <2>4
  <2>7. p.id # q.id BY <1>7, <2>2, <2>4, <2>5, <2>6
  <2>8. p.child # None => p.child # q.child BY <1>7, <2>2, <2>4, <2>5, <2>6
  <2> QED BY <2>3, <2>7, <2>8
<1>12. \A f \in Frames : \E g \in Frames' : g.id = f.id /\ g.kids = f.kids
  <2> SUFFICES ASSUME NEW f \in Frames PROVE \E g \in Frames' : g.id = f.id /\ g.kids = f.kids
    OBVIOUS
  <2>1. PICK u \in Threads : \E i \in DOMAIN calls[u] : f = calls[u][i] BY FramesAre
  <2>2. PICK i \in DOMAIN calls[u] : f = calls[u][i] BY <2>1
  <2>3. CASE u # t
    <3>1. calls'[u] = calls[u] BY <1>4, <2>3
    <3>2. f \in Frames' BY <2>2, <3>1 DEF Frames
    <3> QED BY <3>2
  <2>4. CASE u = t
    <3>1. calls[t] \in Seq(Calls) /\ i \in 1 .. Len(cs) BY <1>3, <2>2, <2>4
    <3>2. i \in DOMAIN e /\ calls'[t][i] = cs[i] BY <1>2, <1>4, <3>1
    <3>3. cs[i] \in Frames' BY <1>4, <3>2 DEF Frames
    <3> QED BY <2>2, <2>4, <3>1, <3>3
  <2> QED BY <2>3, <2>4
<1>13. \A q : Listed(q) => Listed(q)'
  <2> SUFFICES ASSUME NEW q, Listed(q) PROVE Listed(q)' OBVIOUS
  <2>1. \A f \in Frames : f.kids # <<>> =>
          \E g \in Frames' \cup OfType(f.id, {CHILDREN})' :
            g.id = f.id /\ \A i \in DOMAIN f.kids : \E j \in DOMAIN g.kids : g.kids[j] = f.kids[i]
    BY <1>12
  <2> QED BY <2>1, ListedKept
<1>14. FamiliesAgree' BY <1>13, AgreeKept DEF FamilyInv
<1>15. RequestIds' BY <1>7 DEF FamilyInv, RequestIds
<1> QED BY <1>6, <1>10, <1>11, <1>14, <1>15 DEF FamilyInv

LEMMA CreateEntityKeeps ==
  ASSUME FamilyInv, NoFamilyByHand, NEW t \in Threads, NEW n \in Names, CreateEntity(t, n)
  PROVE  FamilyInv'
<1>0. <<>> \in Seq(Calls) OBVIOUS
<1>1. PICK cs \in Seq(Calls) : cs = <<>> BY <1>0
<1>2. Len(cs) = Len(calls[t]) /\ 1 .. Len(cs) = {} BY <1>1 DEF CreateEntity
<1>3. calls' = [calls EXCEPT ![t] = Enter(cs, n)] BY <1>1 DEF CreateEntity
<1> QED BY <1>2, <1>3, EnterSound DEF CreateEntity

LEMMA CreateChildKeeps ==
  ASSUME FamilyInv, NoFamilyByHand, NEW t \in Threads, CreateChild(t)
  PROVE  FamilyInv'
<1>1. PICK f \in Calls : f = Top(t) /\ FrameSound(f) BY TopSound DEF CreateChild, Merged
<1>2. /\ f.extend = None /\ f.stack = <<>> /\ f.child = None /\ f.children # None
      /\ f.next <= Len(f.children)
  BY <1>1 DEF CreateChild, Merged, HasMoreChildren
<1>3. PICK n \in Names : n = f.children[f.next]
  <2>1. f.children \in Seq(Names) /\ f.next \in 1 .. Len(f.children) BY <1>2 DEF Calls
  <2> QED BY <2>1
<1>4. PICK w : w = [f EXCEPT !.child = currentEntityId, !.next = @ + 1] OBVIOUS
<1>5. PICK k \in Nat : k = currentEntityId BY DEF FamilyInv, Typed
<1>6. w \in Calls
  <2>1. f.next + 1 \in Nat \ {0} BY DEF Calls
  <2> QED BY <1>4, <1>5, <2>1 DEF Calls
<1>7. /\ w.id = f.id /\ w.kids = f.kids /\ w.child = k /\ w.components = f.components
      /\ w.extend = f.extend /\ w.stack = f.stack /\ w.children = f.children /\ w.family = f.family
  BY <1>4, <1>5 DEF Calls
<1>8. ~f.family BY <1>1, <1>2 DEF FrameSound
<1>9. currentEntityId' = k + 1 /\ creationRequests' = creationRequests
  BY <1>5 DEF CreateChild, TakeId
<1>10. Ids = 0 .. k - 1 /\ Ids' = 0 .. k BY <1>5, <1>9 DEF Ids
<1>11. \A id, ts : OfType(id, ts)' = OfType(id, ts) BY <1>9 DEF OfType
<1>12. OfType(k, {PARENT}) = {}
  <2>1. \A r \in creationRequests : r.id # k BY <1>10 DEF FamilyInv, RequestIds
  <2> QED BY <2>1 DEF OfType
<1>13. FrameSound(w)'
  <2>1. w.id \in Ids' /\ w.child \in Ids' /\ \A i \in DOMAIN w.kids : w.kids[i] \in Ids'
    BY <1>1, <1>7, <1>10 DEF FrameSound
  <2>2. FamilyFree(w.components)' BY <1>1, <1>7 DEF FrameSound, FamilyFree, TypeOf
  <2>3. \A i \in DOMAIN w.kids : \E q \in OfType(w.kids[i], {PARENT})' : q.parent = w.id
    <3>1. \A i \in DOMAIN f.kids : \E q \in OfType(f.kids[i], {PARENT}) : q.parent = f.id
      BY <1>1 DEF FrameSound
    <3> QED BY <1>7, <1>11, <3>1
  <2>4. \A i, j \in DOMAIN w.kids : w.kids[i] = w.kids[j] => i = j
    BY <1>1, <1>7 DEF FrameSound
  <2>5. w.extend = None /\ w.stack = <<>> /\ w.children # None /\ ~w.family BY <1>2, <1>7, <1>8
  <2>6. OfType(w.child, {PARENT})' = {} BY <1>7, <1>11, <1>12
  <2> QED BY <2>1, <2>2, <2>3, <2>4, <2>5, <2>6 DEF FrameSound
<1>14. calls[t] \in Seq(Calls) /\ calls \in [Threads -> Seq(Calls)] BY DEF FamilyInv, Typed
<1>15. PICK s \in Seq(Calls), d \in Nat : s = calls[t] /\ d = Depth(t) /\ d \in 1 .. Len(s) /\ f = s[d]
  BY <1>1, <1>14 DEF CreateChild, Merged, Running, Depth, Top
<1>16. PICK cs : cs = [s EXCEPT ![d] = w] OBVIOUS
<1>17. cs \in Seq(Calls) /\ Len(cs) = Len(s) /\ \A i \in 1 .. Len(s) : cs[i] = IF i = d THEN w ELSE s[i]
  BY <1>6, <1>15, <1>16
<1>18. d = Len(cs) BY <1>15, <1>17 DEF Depth
<1>19. TakeId(n) /\ calls' = [calls EXCEPT ![t] = Enter(cs, n)]
  BY <1>1, <1>3, <1>4, <1>5, <1>14, <1>15, <1>16 DEF CreateChild
<1>20. ASSUME NEW i \in 1 .. Len(cs)
       PROVE  /\ cs[i].id = calls[t][i].id /\ cs[i].kids = calls[t][i].kids /\ FrameSound(cs[i])'
              /\ \/ cs[i].child = calls[t][i].child
                 \/ i = Len(cs) /\ cs[i].child = currentEntityId
  <2>1. CASE i = d BY <1>5, <1>7, <1>13, <1>15, <1>17, <1>18, <2>1
  <2>2. CASE i # d
    <3>1. PICK g : g = s[i] OBVIOUS
    <3>2. cs[i] = g /\ i \in DOMAIN calls[t] /\ g = calls[t][i] BY <1>15, <1>17, <2>2, <3>1
    <3>3. FrameSound(g) BY <3>2 DEF FamilyInv, FramesSound
    <3>4. g.child # None => OfType(g.child, {PARENT})' = {} BY <1>11, <3>3 DEF FrameSound
    <3>5. currentEntityId' \in Nat /\ currentEntityId <= currentEntityId' BY <1>5, <1>9
    <3>6. FrameSound(g)' BY <1>9, <3>3, <3>4, <3>5, OthersSound DEF FamilyInv
    <3> QED BY <3>2, <3>6
  <2> QED BY <2>1, <2>2
<1>21. Len(cs) = Len(calls[t]) BY <1>15, <1>17
<1> QED BY <1>17, <1>19, <1>20, <1>21, EnterSound DEF CreateChild

\* A step that pushes the request r.
LEMMA RequestStep ==
  ASSUME FamilyInv, NEW t \in Threads, Running(t), NEW c \in Calls, Continue(t, c), NEW r,
         UNCHANGED <<definitions, currentEntityId, origin>>,
         creationRequests' = creationRequests \cup {r},
         r.id \in Ids, r.parent \in Ids \cup {None}, \A i \in DOMAIN r.kids : r.kids[i] \in Ids,
         c.id = Top(t).id, c.child \in {None, Top(t).child}, FrameSound(c)',
         \A i \in DOMAIN Top(t).kids : \E j \in DOMAIN c.kids : c.kids[j] = Top(t).kids[i],
         r.type = PARENT =>
           /\ r.id = Top(t).child /\ Top(t).child # None
           /\ r.parent = c.id /\ \E j \in DOMAIN c.kids : c.kids[j] = r.id,
         r.type = CHILDREN =>
           \A i, j \in DOMAIN r.kids :
             /\ \E q \in OfType(r.kids[i], {PARENT}) : q.parent = r.id
             /\ r.kids[i] = r.kids[j] => i = j
  PROVE  FamilyInv'
<1>1. PICK f \in Calls : f = Top(t) /\ FrameSound(f) BY TopSound
<1>2. \A id : id # f.child => OfType(id, {PARENT})' = OfType(id, {PARENT}) BY <1>1 DEF OfType
<1>3. /\ Typed' /\ FramesSound' /\ FramesApart'
      /\ c \in Frames' /\ \A g \in Frames : g \in Frames' \/ g = Top(t)
  BY <1>1, <1>2, ContinueSound
<1>4. RequestIds' BY DEF FamilyInv, RequestIds, Ids
<1>5. \A id, ts : OfType(id, ts) \subseteq OfType(id, ts)' BY DEF OfType
<1>6. \A g \in Frames : g.kids # <<>> =>
        \E h \in Frames' \cup OfType(g.id, {CHILDREN})' :
          h.id = g.id /\ \A i \in DOMAIN g.kids : \E j \in DOMAIN h.kids : h.kids[j] = g.kids[i]
  BY <1>3
<1>7. ASSUME NEW q \in creationRequests', q.type = PARENT PROVE Listed(q)'
  <2>1. CASE q \in creationRequests
    <3>1. Listed(q) BY <1>7, <2>1 DEF FamilyInv, FamiliesAgree, Listed
    <3> QED BY <1>6, <3>1, ListedKept
  <2>2. CASE q = r
    <3>1. c.id = q.parent /\ \E j \in DOMAIN c.kids : c.kids[j] = q.id BY <1>7, <2>2
    <3> QED BY <1>3, <3>1 DEF Listed
  <2> QED BY <2>1, <2>2
<1>8. ASSUME NEW q \in creationRequests', q.type = CHILDREN, NEW i \in DOMAIN q.kids, NEW j \in DOMAIN q.kids
      PROVE  /\ \E p \in OfType(q.kids[i], {PARENT})' : p.parent = q.id
             /\ q.kids[i] = q.kids[j] => i = j
  <2>1. /\ \E p \in OfType(q.kids[i], {PARENT}) : p.parent = q.id
        /\ q.kids[i] = q.kids[j] => i = j
    <3>1. CASE q \in creationRequests BY <1>8, <3>1 DEF FamilyInv, FamiliesAgree
    <3>2. CASE q = r BY <1>8, <3>2
    <3> QED BY <3>1, <3>2
  <2> QED BY <1>5, <2>1
<1>9. ASSUME NEW p \in creationRequests', NEW q \in creationRequests',
             p.type = PARENT, q.type = PARENT, p.id = q.id
      PROVE  p = q
  <2>1. OfType(f.child, {PARENT}) = {} \/ f.child = None BY <1>1 DEF FrameSound
  <2>2. ASSUME NEW o \in creationRequests, o.type = PARENT, r.type = PARENT PROVE o.id # r.id
    BY <1>1, <2>1, <2>2 DEF OfType
  <2>3. CASE p \in creationRequests /\ q \in creationRequests
    BY <1>9, <2>3 DEF FamilyInv, FamiliesAgree
  <2>4. CASE p = r \/ q = r BY <1>9, <2>2, <2>4
  <2> QED BY <2>3, <2>4
<1>10. FamiliesAgree' BY <1>7, <1>8, <1>9 DEF FamiliesAgree, Listed
<1> QED BY <1>3, <1>4, <1>10 DEF FamilyInv

LEMMA AssignParentKeeps ==
  ASSUME FamilyInv, NEW t \in Threads, AssignParent(t)
  PROVE  FamilyInv'
<1>1. PICK f \in Calls : f = Top(t) /\ f \in Frames /\ FrameSound(f)
  BY TopSound DEF AssignParent, Merged
<1>2. f.extend = None /\ f.stack = <<>> /\ f.child # None BY <1>1 DEF AssignParent, Merged
<1>3. f.children # None /\ ~f.family BY <1>1, <1>2 DEF FrameSound
<1>4. PICK k \in Seq(Nat) : k = AddChild(f.kids, f.child)
  <2>1. PICK g \in Seq(Nat), a \in Nat : g = f.kids /\ a = f.child BY <1>2 DEF Calls
  <2>2. Append(g, a) \in Seq(Nat) BY <2>1
  <2> QED BY <2>1, <2>2 DEF AddChild
<1>5. PICK c : c = [f EXCEPT !.kids = k, !.child = None] OBVIOUS
<1>6. c \in Calls BY <1>4, <1>5 DEF Calls
<1>7. /\ c.id = f.id /\ c.kids = k /\ c.child = None /\ c.components = f.components
      /\ c.extend = f.extend /\ c.stack = f.stack /\ c.children = f.children /\ c.family = f.family
  BY <1>5 DEF Calls
<1>8. Running(t) /\ Continue(t, c)
  <2>1. c = [Top(t) EXCEPT !.kids = AddChild(@, Top(t).child), !.child = None]
    BY <1>1, <1>4, <1>5 DEF Calls
  <2> QED BY <2>1 DEF AssignParent, Merged
<1>9. PICK r : r = [id |-> f.child, type |-> PARENT, json |-> <<>>, kids |-> <<>>, parent |-> f.id]
  OBVIOUS
<1>10. r.id = f.child /\ r.type = PARENT /\ r.kids = <<>> /\ r.parent = f.id BY <1>9
<1>11. creationRequests' = creationRequests \cup {r} BY <1>1, <1>9 DEF AssignParent, Request
\* The list holds what it held, and the child.
<1>12. /\ \A i \in DOMAIN f.kids : \E j \in DOMAIN k : k[j] = f.kids[i]
       /\ \E j \in DOMAIN k : k[j] = f.child
       /\ \A j \in DOMAIN k : k[j] = f.child \/ \E i \in DOMAIN f.kids : k[j] = f.kids[i]
       /\ \A i, j \in DOMAIN k : k[i] = k[j] => i = j
  <2>1. PICK g \in Seq(Nat), a \in Nat : g = f.kids /\ a = f.child BY <1>2 DEF Calls
  <2>2. \A i, j \in DOMAIN g : g[i] = g[j] => i = j BY <1>1, <2>1 DEF FrameSound
  <2>3. CASE a \in {g[i] : i \in DOMAIN g}
    <3>1. k = g BY <1>4, <2>1, <2>3 DEF AddChild
    <3> QED BY <2>1, <2>2, <2>3, <3>1
  <2>4. CASE a \notin {g[i] : i \in DOMAIN g}
    <3>1. k = Append(g, a) BY <1>4, <2>1, <2>4 DEF AddChild
    <3>2. /\ DOMAIN k = 1 .. Len(g) + 1 /\ DOMAIN g = 1 .. Len(g) /\ Len(g) \in Nat
          /\ k[Len(g) + 1] = a /\ \A i \in 1 .. Len(g) : k[i] = g[i]
      BY <3>1
    <3>3. \A i, j \in DOMAIN k : k[i] = k[j] => i = j BY <2>2, <2>4, <3>2
    <3>4. \A i \in DOMAIN g : i \in DOMAIN k /\ k[i] = g[i] BY <3>2
    <3>5. Len(g) + 1 \in DOMAIN k BY <3>2
    <3>6. \A j \in DOMAIN k : j = Len(g) + 1 \/ j \in DOMAIN g BY <3>2
    <3>7. \A i \in DOMAIN g : \E j \in DOMAIN k : k[j] = g[i] BY <3>4
    <3>8. \E j \in DOMAIN k : k[j] = a BY <3>2, <3>5
    <3>9. \A j \in DOMAIN k : k[j] = a \/ \E i \in DOMAIN g : k[j] = g[i] BY <3>2, <3>4, <3>6
    <3> QED BY <2>1, <3>3, <3>7, <3>8, <3>9
  <2> QED BY <2>3, <2>4
<1>13. FrameSound(c)'
  <2>1. \A id, ts : OfType(id, ts) \subseteq OfType(id, ts)' BY <1>11 DEF OfType
  <2>2. Ids' = Ids /\ f.id \in Ids /\ f.child \in Ids BY <1>1, <1>2 DEF FrameSound, AssignParent, Ids
  <2>3. r \in OfType(f.child, {PARENT})' BY <1>10, <1>11 DEF OfType
  <2>4. ASSUME NEW j \in DOMAIN c.kids
        PROVE  c.kids[j] \in Ids' /\ \E q \in OfType(c.kids[j], {PARENT})' : q.parent = c.id
    <3>1. CASE k[j] = f.child BY <1>7, <1>10, <2>2, <2>3, <3>1
    <3>2. CASE k[j] # f.child
      <4>1. PICK i \in DOMAIN f.kids : k[j] = f.kids[i] BY <1>7, <1>12, <3>2
      <4>2. f.kids[i] \in Ids /\ \E q \in OfType(f.kids[i], {PARENT}) : q.parent = f.id
        BY <1>1 DEF FrameSound
      <4> QED BY <1>7, <2>1, <2>2, <4>1, <4>2
    <3> QED BY <3>1, <3>2
  <2>5. FamilyFree(c.components)' BY <1>1, <1>7 DEF FrameSound, FamilyFree, TypeOf
  <2>6. \A i, j \in DOMAIN c.kids : c.kids[i] = c.kids[j] => i = j BY <1>7, <1>12
  <2> QED BY <1>2, <1>3, <1>7, <2>2, <2>4, <2>5, <2>6 DEF FrameSound
<1>14. /\ r.id \in Ids /\ r.parent \in Ids /\ DOMAIN r.kids = {}
  BY <1>1, <1>2, <1>10 DEF FrameSound
<1>15. r.type # CHILDREN BY <1>10, NamesAssumption
<1>16. \A i \in DOMAIN Top(t).kids : \E j \in DOMAIN c.kids : c.kids[j] = Top(t).kids[i]
  BY <1>1, <1>7, <1>12
<1>17. /\ r.id = Top(t).child /\ Top(t).child # None
       /\ r.parent = c.id /\ \E j \in DOMAIN c.kids : c.kids[j] = r.id
  BY <1>1, <1>2, <1>7, <1>10, <1>12
<1>18. UNCHANGED <<definitions, currentEntityId, origin>> BY DEF AssignParent
<1> QED
  BY <1>1, <1>6, <1>7, <1>8, <1>11, <1>13, <1>14, <1>15, <1>16, <1>17, <1>18, RequestStep

LEMMA AssignChildrenKeeps ==
  ASSUME FamilyInv, NEW t \in Threads, AssignChildren(t)
  PROVE  FamilyInv'
<1>1. PICK f \in Calls : f = Top(t) /\ f \in Frames /\ FrameSound(f)
  BY TopSound DEF AssignChildren, Merged
<1>2. /\ f.extend = None /\ f.stack = <<>> /\ f.child = None /\ f.children # None
      /\ ~(f.children # None /\ f.next <= Len(f.children))
  BY <1>1 DEF AssignChildren, Merged, HasMoreChildren
<1>3. PICK c : c = [f EXCEPT !.family = TRUE] OBVIOUS
<1>4. c \in Calls BY <1>3 DEF Calls
<1>5. /\ c.id = f.id /\ c.kids = f.kids /\ c.child = f.child /\ c.components = f.components
      /\ c.extend = f.extend /\ c.stack = f.stack /\ c.children = f.children /\ c.family = TRUE
      /\ c.next = f.next
  BY <1>3 DEF Calls
<1>6. Running(t) /\ Continue(t, c) BY <1>1, <1>3 DEF AssignChildren, Merged
<1>7. PICK r : r = [id |-> f.id, type |-> CHILDREN, json |-> <<>>, kids |-> f.kids, parent |-> None]
  OBVIOUS
<1>8. r.id = f.id /\ r.type = CHILDREN /\ r.kids = f.kids /\ r.parent = None BY <1>7
<1>9. creationRequests' = creationRequests \cup {r} BY <1>1, <1>7 DEF AssignChildren, Request
<1>10. FrameSound(c)'
  <2>1. \A id, ts : OfType(id, ts) \subseteq OfType(id, ts)' BY <1>9 DEF OfType
  <2>2. Ids' = Ids BY DEF AssignChildren, Ids
  <2>3. r \in OfType(c.id, {CHILDREN})' /\ r.kids = c.kids BY <1>5, <1>8, <1>9 DEF OfType
  <2>4. \A i \in DOMAIN f.kids :
          f.kids[i] \in Ids /\ \E q \in OfType(f.kids[i], {PARENT}) : q.parent = f.id
    BY <1>1 DEF FrameSound
  <2>5. \A i \in DOMAIN c.kids :
          c.kids[i] \in Ids' /\ \E q \in OfType(c.kids[i], {PARENT})' : q.parent = c.id
    BY <1>5, <2>1, <2>2, <2>4
  <2>6. FamilyFree(c.components)' BY <1>1, <1>5 DEF FrameSound, FamilyFree, TypeOf
  <2>7. f.id \in Ids /\ \A i, j \in DOMAIN f.kids : f.kids[i] = f.kids[j] => i = j
    BY <1>1 DEF FrameSound
  <2> QED BY <1>2, <1>5, <2>2, <2>3, <2>5, <2>6, <2>7 DEF FrameSound
<1>11. /\ r.id \in Ids /\ \A i \in DOMAIN r.kids : r.kids[i] \in Ids
       /\ \A i, j \in DOMAIN r.kids :
             /\ \E q \in OfType(r.kids[i], {PARENT}) : q.parent = r.id
             /\ r.kids[i] = r.kids[j] => i = j
  <2>1. /\ f.id \in Ids /\ \A i \in DOMAIN f.kids : f.kids[i] \in Ids
        /\ \A i, j \in DOMAIN f.kids :
              /\ \E q \in OfType(f.kids[i], {PARENT}) : q.parent = f.id
              /\ f.kids[i] = f.kids[j] => i = j
    BY <1>1 DEF FrameSound
  <2> QED BY <1>8, <2>1
<1>12. r.type # PARENT BY <1>8, NamesAssumption
<1>13. \A i \in DOMAIN Top(t).kids : \E j \in DOMAIN c.kids : c.kids[j] = Top(t).kids[i]
  BY <1>1, <1>5
<1>14. UNCHANGED <<definitions, currentEntityId, origin>> BY DEF AssignChildren
<1> QED
  BY <1>1, <1>4, <1>5, <1>6, <1>8, <1>9, <1>10, <1>11, <1>12, <1>13, <1>14, RequestStep

LEMMA AssignComponentKeeps ==
  ASSUME FamilyInv, NEW t \in Threads, NEW n, AssignComponent(t, n)
  PROVE  FamilyInv'
<1>1. PICK f \in Calls : f = Top(t) /\ f \in Frames /\ FrameSound(f)
  BY TopSound DEF AssignComponent, FamilyDone, Merged
<1>2. n \in DOMAIN f.components BY <1>1 DEF AssignComponent
<1>3. PICK rest : rest = [m \in DOMAIN f.components \ {n} |-> f.components[m]] OBVIOUS
<1>4. PICK c : c = [f EXCEPT !.components = rest] OBVIOUS
<1>5. c \in Calls
  <2>1. f.components \in Components BY DEF Calls
  <2>2. DOMAIN f.components \in SUBSET ComponentNames /\ f.components \in [DOMAIN f.components -> Objects]
    BY <2>1 DEF Components
  <2>3. DOMAIN f.components \ {n} \in SUBSET ComponentNames BY <2>2
  <2>4. rest \in [DOMAIN f.components \ {n} -> Objects] BY <1>3, <2>2
  <2>5. rest \in Components BY <2>3, <2>4 DEF Components
  <2> QED BY <1>4, <2>5 DEF Calls
<1>6. /\ c.id = f.id /\ c.kids = f.kids /\ c.child = f.child /\ c.components = rest
      /\ c.extend = f.extend /\ c.stack = f.stack /\ c.children = f.children /\ c.family = f.family
      /\ c.next = f.next
  BY <1>4 DEF Calls
<1>7. Running(t) /\ Continue(t, c)
  BY <1>1, <1>3, <1>4 DEF AssignComponent, FamilyDone, Merged
<1>8. PICK o : o = f.components[n] OBVIOUS
<1>9. PICK r : r = [id |-> f.id, type |-> TypeOf(n, o), json |-> o, kids |-> <<>>, parent |-> None]
  OBVIOUS
<1>10. r.id = f.id /\ r.type = TypeOf(n, o) /\ r.kids = <<>> /\ r.parent = None BY <1>9
<1>11. creationRequests' = creationRequests \cup {r} BY <1>1, <1>8, <1>9 DEF AssignComponent, Request
<1>12. r.type # PARENT /\ r.type # CHILDREN BY <1>1, <1>2, <1>8, <1>10 DEF FrameSound, FamilyFree
<1>13. FrameSound(c)'
  <2>1. \A id, ts : OfType(id, ts) \subseteq OfType(id, ts)' BY <1>11 DEF OfType
  <2>2. \A id : OfType(id, {PARENT})' = OfType(id, {PARENT}) BY <1>11, <1>12 DEF OfType
  <2>3. FamilyFree(rest) BY <1>1, <1>3 DEF FrameSound, FamilyFree
  <2>4. Ids' = Ids BY DEF AssignComponent, Ids
  <2>5. FrameSound(c)
    <3>1. FamilyFree(c.components) BY <1>6, <2>3
    <3>2. /\ f.id \in Ids /\ f.child \in Ids \cup {None}
          /\ f.extend # None \/ f.stack # <<>> => f.kids = <<>> /\ f.child = None /\ ~f.family
          /\ f.children = None => f.kids = <<>> /\ f.child = None
          /\ f.child # None => OfType(f.child, {PARENT}) = {}
      BY <1>1 DEF FrameSound
    <3>3. /\ \A i \in DOMAIN f.kids :
               f.kids[i] \in Ids /\ \E q \in OfType(f.kids[i], {PARENT}) : q.parent = f.id
          /\ \A i, j \in DOMAIN f.kids : f.kids[i] = f.kids[j] => i = j
      BY <1>1 DEF FrameSound
    <3>4. f.family => /\ f.child = None
                      /\ ~(f.children # None /\ f.next <= Len(f.children))
                      /\ \E r0 \in OfType(f.id, {CHILDREN}) : r0.kids = f.kids
      BY <1>1 DEF FrameSound
    <3>5. /\ \A i \in DOMAIN c.kids :
               c.kids[i] \in Ids /\ \E q \in OfType(c.kids[i], {PARENT}) : q.parent = c.id
          /\ \A i, j \in DOMAIN c.kids : c.kids[i] = c.kids[j] => i = j
      BY <1>6, <3>3
    <3> QED BY <1>6, <3>1, <3>2, <3>4, <3>5 DEF FrameSound
  <2> QED BY <2>1, <2>2, <2>4, <2>5 DEF FrameSound
<1>14. r.id \in Ids /\ \A i \in DOMAIN r.kids : r.kids[i] \in Ids BY <1>1, <1>10 DEF FrameSound
<1>15. \A i \in DOMAIN Top(t).kids : \E j \in DOMAIN c.kids : c.kids[j] = Top(t).kids[i]
  BY <1>1, <1>6
<1>16. UNCHANGED <<definitions, currentEntityId, origin>> BY DEF AssignComponent
<1> QED
  BY <1>1, <1>5, <1>6, <1>7, <1>10, <1>11, <1>12, <1>13, <1>14, <1>15, <1>16, RequestStep

\* What a call lists when it returns is in the components it has assigned.
LEMMA ReturnKeeps ==
  ASSUME FamilyInv, NEW t \in Threads, Return(t)
  PROVE  FamilyInv'
<1>1. PICK f \in Calls : f = Top(t) /\ FrameSound(f) BY TopSound DEF Return, FamilyDone, Merged
<1>2. f.children = None \/ f.family BY <1>1 DEF Return, FamilyDone
<1>3. calls \in [Threads -> Seq(Calls)] BY DEF FamilyInv, Typed
<1>4. PICK s \in Seq(Calls), d \in Nat : s = calls[t] /\ d = Depth(t) /\ d = Len(s) /\ d # 0
  BY <1>3 DEF Return, FamilyDone, Merged, Running, Depth
<1>5. PICK e \in Seq(Calls) : e = SubSeq(s, 1, d - 1)
  <2>1. SubSeq(s, 1, d - 1) \in Seq(Calls) BY <1>4
  <2> QED BY <2>1
<1>6. Len(e) = d - 1 /\ \A i \in 1 .. d - 1 : e[i] = s[i] BY <1>4, <1>5
<1>7. calls' = [calls EXCEPT ![t] = e] BY <1>4, <1>5 DEF Return
<1>8. calls'[t] = e /\ \A u \in Threads \ {t} : calls'[u] = calls[u] BY <1>3, <1>7
<1>9. UNCHANGED <<definitions, currentEntityId, creationRequests, origin>> BY DEF Return
<1>10. ASSUME NEW u \in Threads, NEW i \in DOMAIN calls'[u]
       PROVE  i \in DOMAIN calls[u] /\ calls'[u][i] = calls[u][i]
  <2>1. CASE u = t
    <3>1. i \in 1 .. d - 1 BY <1>6, <1>8, <2>1
    <3>2. i \in 1 .. Len(s) BY <1>4, <3>1
    <3> QED BY <1>4, <1>6, <1>8, <2>1, <3>1, <3>2
  <2>2. CASE u # t BY <1>8, <2>2
  <2> QED BY <2>1, <2>2
<1>11. \A id, ts : OfType(id, ts)' = OfType(id, ts) BY <1>9 DEF OfType
<1>12. Typed' BY <1>3, <1>7, <1>9 DEF FamilyInv, Typed
<1>13. FramesSound'
  <2> SUFFICES ASSUME NEW u \in Threads, NEW i \in DOMAIN calls'[u]
               PROVE  \A g : g = calls'[u][i] => FrameSound(g)'
    BY DEF FramesSound
  <2>1. PICK g : g = calls[u][i] OBVIOUS
  <2>2. FrameSound(g) BY <1>10, <2>1 DEF FamilyInv, FramesSound
  <2>3. g.child # None => OfType(g.child, {PARENT})' = {} BY <1>11, <2>2 DEF FrameSound
  <2>4. currentEntityId' \in Nat /\ currentEntityId <= currentEntityId'
    BY <1>9 DEF FamilyInv, Typed
  <2>5. FrameSound(g)' BY <1>9, <2>2, <2>3, <2>4, OthersSound DEF FamilyInv
  <2> QED BY <1>10, <2>1, <2>5
<1>14. FramesApart' BY <1>10 DEF FamilyInv, FramesApart
<1>15. RequestIds' BY <1>9 DEF FamilyInv, RequestIds, Ids
<1>16. ASSUME NEW g \in Frames, g.kids # <<>>
       PROVE  \E h \in Frames' \cup OfType(g.id, {CHILDREN})' :
                h.id = g.id /\ \A i \in DOMAIN g.kids : \E j \in DOMAIN h.kids : h.kids[j] = g.kids[i]
  <2>1. PICK u \in Threads : \E i \in DOMAIN calls[u] : g = calls[u][i] BY FramesAre
  <2>2. PICK i \in DOMAIN calls[u] : g = calls[u][i] BY <2>1
  <2>3. CASE u = t /\ i = d
    <3>1. g = f BY <1>1, <1>4, <2>2, <2>3 DEF Top
    <3>2. f.family BY <1>1, <1>2, <1>16, <3>1 DEF FrameSound
    <3>3. PICK r \in OfType(g.id, {CHILDREN}) : r.kids = g.kids BY <1>1, <3>1, <3>2 DEF FrameSound
    <3>4. r.id = g.id /\ r \in OfType(g.id, {CHILDREN})' BY <1>11, <3>3 DEF OfType
    <3> QED BY <3>3, <3>4
  <2>4. CASE ~(u = t /\ i = d)
    <3>1. i \in DOMAIN calls'[u] /\ calls'[u][i] = g
      <4>1. CASE u # t BY <1>8, <2>2, <4>1
      <4>2. CASE u = t
        <5>1. i \in 1 .. d - 1 BY <1>4, <2>2, <2>4, <4>2
        <5> QED BY <1>4, <1>6, <1>8, <2>2, <4>2, <5>1
      <4> QED BY <4>1, <4>2
    <3>2. g \in Frames' BY <3>1 DEF Frames
    <3> QED BY <3>2
  <2> QED BY <2>3, <2>4
<1>17. \A q : Listed(q) => Listed(q)'
  <2> SUFFICES ASSUME NEW q, Listed(q) PROVE Listed(q)' OBVIOUS
  <2> QED BY <1>9, <1>16, ListedKept
<1>18. FamiliesAgree' BY <1>9, <1>17, AgreeKept DEF FamilyInv
<1> QED BY <1>12, <1>13, <1>14, <1>15, <1>18 DEF FamilyInv

\* A step that starts and ends no call, and asks for nothing.
LEMMA IdleKeeps ==
  ASSUME FamilyInv, UNCHANGED <<currentEntityId, creationRequests, calls, origin>>,
         definitions' \in Seq(Catalogue), Len(definitions') <= MaxDefinitions
  PROVE  FamilyInv'
<1>1. Typed' BY DEF FamilyInv, Typed
<1>2. FramesSound' BY DEF FamilyInv, FramesSound, FrameSound, FamilyFree, TypeOf, OfType, Ids
<1>3. FramesApart' /\ RequestIds' BY DEF FamilyInv, FramesApart, RequestIds, Ids
<1>4. FamiliesAgree' BY DEF FamilyInv, FamiliesAgree, OfType, Frames
<1> QED BY <1>1, <1>2, <1>3, <1>4 DEF FamilyInv

LEMMA FamilyStep == FamilyInv /\ NoFamilyByHand /\ [Next]_vars => FamilyInv'
<1> SUFFICES ASSUME FamilyInv, NoFamilyByHand, [Next]_vars PROVE FamilyInv' OBVIOUS
<1>1. ASSUME NEW d \in Catalogue, CreateEntityDefinition(d) PROVE FamilyInv'
  <2>1. definitions \in Seq(Catalogue) /\ Len(definitions) < MaxDefinitions
    BY <1>1 DEF FamilyInv, Typed, CreateEntityDefinition
  <2>2. definitions' = Append(definitions, d) BY <1>1 DEF CreateEntityDefinition
  <2>3. definitions' \in Seq(Catalogue) /\ Len(definitions') = Len(definitions) + 1 BY <2>1, <2>2
  <2>4. Len(definitions') <= MaxDefinitions BY <2>1, <2>3, BoundsAssumption
  <2> QED BY <1>1, <2>3, <2>4, IdleKeeps DEF CreateEntityDefinition
<1>2. ASSUME NEW t \in Threads, NEW n \in Names, CreateEntity(t, n) PROVE FamilyInv'
  BY <1>2, CreateEntityKeeps
<1>3. ASSUME NEW t \in Threads, Step(t) PROVE FamilyInv'
  <2>1. CASE Extend(t) BY <2>1, ExtendKeeps
  <2>2. CASE Merge(t) BY <2>2, MergeKeeps
  <2>3. CASE CreateChild(t) BY <2>3, CreateChildKeeps
  <2>4. CASE AssignParent(t) BY <2>4, AssignParentKeeps
  <2>5. CASE AssignChildren(t) BY <2>5, AssignChildrenKeeps
  <2>6. CASE \E n \in DOMAIN Top(t).components : AssignComponent(t, n) BY <2>6, AssignComponentKeeps
  <2>7. CASE Return(t) BY <2>7, ReturnKeeps
  <2> QED BY <1>3, <2>1, <2>2, <2>3, <2>4, <2>5, <2>6, <2>7 DEF Step
<1>4. CASE UNCHANGED vars
  <2>1. UNCHANGED <<definitions, currentEntityId, creationRequests, calls, origin>> BY <1>4 DEF vars
  <2>2. definitions' \in Seq(Catalogue) /\ Len(definitions') <= MaxDefinitions
    BY <2>1 DEF FamilyInv, Typed
  <2> QED BY <2>1, <2>2, IdleKeeps
<1> QED BY <1>1, <1>2, <1>3, <1>4 DEF Next

\* Whatever threads create entities from whatever definitions: requests name entities that
\* exist, an entity is given one parent at most, and parent and children know each other
\* (Factory::createEntity() and parseChildren()), as long as no definition writes a family
\* component by hand.
THEOREM FamiliesSound == NoFamilyByHand => (Spec => []RequestsSound)
<1> SUFFICES ASSUME NoFamilyByHand PROVE Spec => []RequestsSound OBVIOUS
<1>1. Init => FamilyInv BY FamilyInit
<1>2. FamilyInv /\ [Next]_vars => FamilyInv' BY FamilyStep
<1>3. FamilyInv => RequestsSound BY FamilyInvImplies
<1> QED BY <1>1, <1>2, <1>3, PTL DEF Spec

-----------------------------------------------------------------------------
(* The chain of extensions. *)

Behind(n) == IF Defined(n) THEN Find(n).extend ELSE None

\* The equation of the names on the chain of n.
IsPath(at, N, n) == at = [i \in 0 .. N |-> IF i = 0 THEN n ELSE Behind(at[i - 1])]

LEMMA PathExists ==
  ASSUME NEW N \in Nat, NEW n
  PROVE  \E at : IsPath(at, N, n)
<1> DEFINE T == {m \in Nat : \E g : IsPath(g, m, n)}
<1>1. 0 \in T
  <2> DEFINE g == [i \in 0 .. 0 |-> n]
  <2>1. IsPath(g, 0, n) BY DEF IsPath
  <2> QED BY <2>1
<1>2. ASSUME NEW m \in Nat, m \in T PROVE m + 1 \in T
  <2>1. PICK g : IsPath(g, m, n) BY <1>2
  <2> DEFINE h == [i \in 0 .. m + 1 |-> IF i = 0 THEN n ELSE Behind(g[i - 1])]
  <2>2. \A i \in 0 .. m : h[i] = g[i]
    <3> SUFFICES ASSUME NEW i \in 0 .. m PROVE h[i] = g[i] OBVIOUS
    <3>1. i \in 0 .. m + 1 OBVIOUS
    <3>2. h[i] = IF i = 0 THEN n ELSE Behind(g[i - 1]) BY <3>1
    <3>3. g[i] = IF i = 0 THEN n ELSE Behind(g[i - 1]) BY <2>1 DEF IsPath
    <3> QED BY <3>2, <3>3
  <2>3. ASSUME NEW i \in 0 .. m + 1 PROVE h[i] = IF i = 0 THEN n ELSE Behind(h[i - 1])
    <3>1. CASE i = 0 BY <3>1
    <3>2. CASE i # 0
      <4>1. i - 1 \in 0 .. m BY <3>2
      <4>2. h[i - 1] = g[i - 1] BY <2>2, <4>1
      <4> QED BY <3>2, <4>2
    <3> QED BY <3>1, <3>2
  <2>4. IsPath(h, m + 1, n)
    <3>1. h = [i \in 0 .. m + 1 |-> h[i]] OBVIOUS
    <3> HIDE DEF h
    <3> QED BY <2>3, <3>1 DEF IsPath
  <2>5. m + 1 \in Nat OBVIOUS
  <2> HIDE DEF h
  <2> QED BY <2>4, <2>5
<1>3. N \in T
  <2> HIDE DEF T
  <2> QED BY <1>1, <1>2, NatSetInduction
<1> QED BY <1>3

\* What Chain says, without its local definitions.
LEMMA ChainOfPath ==
  ASSUME NEW n, definitions \in Seq(Catalogue)
  PROVE  \E at : /\ IsPath(at, Len(definitions), n)
                 /\ Chain(n) = [i \in 1 .. Cardinality({j \in 0 .. Len(definitions) : Defined(at[j])}) |->
                                  Find(at[i - 1])]
<1>1. PICK N \in Nat : N = Len(definitions) OBVIOUS
<1>2. PICK g : IsPath(g, N, n) BY PathExists
<1> DEFINE at == CHOOSE h : h = [i \in 0 .. Len(definitions) |->
                    IF i = 0 THEN n ELSE IF Defined(h[i - 1]) THEN Find(h[i - 1]).extend ELSE None]
<1>3. Chain(n) = [i \in 1 .. Cardinality({j \in DOMAIN at : Defined(at[j])}) |-> Find(at[i - 1])]
  BY Zenon DEF Chain
<1>4. IsPath(at, N, n) BY <1>1, <1>2 DEF IsPath, Behind
<1>5. DOMAIN at = 0 .. N BY <1>4 DEF IsPath
<1> HIDE DEF at
<1> QED BY <1>1, <1>3, <1>4, <1>5

\* Names on a path are names, and none comes twice: the rank falls.
LEMMA PathFalls ==
  ASSUME NEW n \in Names, definitions \in Seq(Catalogue), NEW N \in Nat, NEW at, IsPath(at, N, n)
  PROVE  /\ \A i \in 0 .. N : at[i] \in Names \cup {None}
         /\ \A i, j \in 0 .. N : i < j /\ Defined(at[j]) => Defined(at[i]) /\ at[i] # at[j]
<1>1. at[0] = n /\ \A i \in 1 .. N : at[i] = Behind(at[i - 1])
  <2>1. \A i \in 0 .. N : at[i] = IF i = 0 THEN n ELSE Behind(at[i - 1]) BY DEF IsPath
  <2> QED BY <2>1
<1>2. \A x : Defined(x) => x \in Names /\ Find(x) \in Catalogue /\ Find(x).name = x
  <2> SUFFICES ASSUME NEW x, Defined(x) PROVE x \in Names /\ Find(x) \in Catalogue /\ Find(x).name = x
    OBVIOUS
  <2>1. Find(x) \in Catalogue /\ Find(x).name = x BY FindTyped
  <2> QED BY <2>1, DefinitionsAssumption
<1>3. \A x : Behind(x) \in Names \cup {None} BY <1>2, DefinitionsAssumption DEF Behind
<1>4. PICK rank \in [Names -> 0 .. Cardinality(Names)] :
        \A d \in Catalogue : \A m \in Uses(d) \cap Names : rank[m] < rank[d.name]
  BY CatalogueAssumption
<1>5. \A m \in Names : rank[m] \in Nat
  BY <1>4, NamesAssumption, FS_CardinalityType
<1>6. \A x : Defined(x) /\ Behind(x) \in Names => rank[Behind(x)] < rank[x]
  <2> SUFFICES ASSUME NEW x, Defined(x), Behind(x) \in Names PROVE rank[Behind(x)] < rank[x]
    OBVIOUS
  <2>1. Behind(x) \in Uses(Find(x)) BY DEF Behind, Uses
  <2> QED BY <1>2, <1>4, <2>1
<1>7. ~Defined(None) BY <1>2, NamesAssumption
<1> DEFINE T == {j \in Nat : j <= N /\ Defined(at[j]) =>
                   \A i \in 0 .. j - 1 : Defined(at[i]) /\ rank[at[j]] < rank[at[i]]}
<1>8. 0 \in T OBVIOUS
<1>9. ASSUME NEW j \in Nat, j \in T PROVE j + 1 \in T
  <2> SUFFICES ASSUME j + 1 <= N, Defined(at[j + 1]), NEW i \in 0 .. j
               PROVE  Defined(at[i]) /\ rank[at[j + 1]] < rank[at[i]]
    OBVIOUS
  <2>1. at[j + 1] = Behind(at[j])
    <3>1. j + 1 \in 1 .. N /\ j + 1 - 1 = j OBVIOUS
    <3> QED BY <1>1, <3>1
  <2>2. Defined(at[j]) BY <1>7, <2>1 DEF Behind
  <2>3. rank[at[j + 1]] < rank[at[j]] BY <1>2, <1>6, <2>1, <2>2
  <2>4. CASE i = j BY <2>2, <2>3, <2>4
  <2>5. CASE i # j
    <3>1. i \in 0 .. j - 1 BY <2>5
    <3>2. Defined(at[i]) /\ rank[at[j]] < rank[at[i]] BY <1>9, <2>2, <3>1
    <3>3. rank[at[j + 1]] \in Nat /\ rank[at[j]] \in Nat /\ rank[at[i]] \in Nat BY <1>2, <1>5, <2>2, <3>2
    <3> QED BY <2>3, <3>2, <3>3
  <2> QED BY <2>4, <2>5
<1>10. Nat \subseteq T
  <2> HIDE DEF T
  <2> QED BY <1>8, <1>9, NatSetInduction
<1>11. ASSUME NEW i \in 0 .. N, NEW j \in 0 .. N, i < j, Defined(at[j])
       PROVE  Defined(at[i]) /\ at[i] # at[j]
  <2>1. i \in 0 .. j - 1 /\ j \in T BY <1>10, <1>11
  <2>2. Defined(at[i]) /\ rank[at[j]] < rank[at[i]] BY <1>11, <2>1
  <2>3. rank[at[j]] \in Nat BY <1>2, <1>5, <1>11
  <2> QED BY <2>2, <2>3
<1>12. \A i \in 0 .. N : at[i] \in Names \cup {None}
  <2> SUFFICES ASSUME NEW i \in 0 .. N PROVE at[i] \in Names \cup {None} OBVIOUS
  <2>1. CASE i = 0 BY <1>1, <2>1
  <2>2. CASE i # 0
    <3>1. i \in 1 .. N BY <2>2
    <3> QED BY <1>1, <1>3, <3>1
  <2> QED BY <2>1, <2>2
<1> QED BY <1>11, <1>12

\* The chain of n begins with the definition of n, goes on with what each extends, and ends
\* where there is no such definition.
IsChain(chain, n) ==
  /\ chain \in Seq(Catalogue)
  /\ chain = <<>> <=> ~Defined(n)
  /\ chain # <<>> => chain[1] = Find(n) /\ ~Defined(chain[Len(chain)].extend)
  /\ \A i \in 1 .. Len(chain) - 1 :
       Defined(chain[i].extend) /\ chain[i + 1] = Find(chain[i].extend)

LEMMA ChainIs ==
  ASSUME NEW n \in Names, definitions \in Seq(Catalogue)
  PROVE  IsChain(Chain(n), n)
<1>1. PICK N \in Nat : N = Len(definitions) OBVIOUS
<1>2. PICK at : /\ IsPath(at, N, n)
                /\ Chain(n) = [i \in 1 .. Cardinality({j \in 0 .. N : Defined(at[j])}) |-> Find(at[i - 1])]
  BY <1>1, ChainOfPath
<1>3. \A i, j \in 0 .. N : i < j /\ Defined(at[j]) => Defined(at[i]) /\ at[i] # at[j]
  BY <1>2, PathFalls
<1>4. at[0] = n /\ \A i \in 1 .. N : at[i] = Behind(at[i - 1])
  <2>1. \A i \in 0 .. N : at[i] = IF i = 0 THEN n ELSE Behind(at[i - 1]) BY <1>2 DEF IsPath
  <2> QED BY <2>1
<1>5. \A x : Defined(x) => /\ Find(x) \in Catalogue /\ Find(x).name = x
                           /\ \E k \in 1 .. N : Find(x) = definitions[k]
  BY <1>1, FindTyped
<1>6. ~Defined(at[N])
  <2> SUFFICES ASSUME Defined(at[N]) PROVE FALSE OBVIOUS
  <2>1. \A i \in 0 .. N : Defined(at[i]) BY <1>3
  <2>2. PICK f : f = [i \in 0 .. N |-> CHOOSE k \in 1 .. N : Find(at[i]) = definitions[k]] OBVIOUS
  <2>3. \A i \in 0 .. N : f[i] \in 1 .. N /\ Find(at[i]) = definitions[f[i]]
    <3> SUFFICES ASSUME NEW i \in 0 .. N PROVE f[i] \in 1 .. N /\ Find(at[i]) = definitions[f[i]]
      OBVIOUS
    <3>1. \E k \in 1 .. N : Find(at[i]) = definitions[k] BY <1>5, <2>1
    <3>2. f[i] = CHOOSE k \in 1 .. N : Find(at[i]) = definitions[k] BY <2>2
    <3> QED BY <3>1, <3>2
  <2>4. \A i, j \in 0 .. N : f[i] = f[j] => i = j
    <3> SUFFICES ASSUME NEW i \in 0 .. N, NEW j \in 0 .. N, f[i] = f[j] PROVE i = j OBVIOUS
    <3>1. at[i] = at[j]
      <4>1. Find(at[i]) = Find(at[j]) BY <2>3
      <4> QED BY <1>5, <2>1, <4>1
    <3>2. ~(i < j) /\ ~(j < i) BY <1>3, <2>1, <3>1
    <3> QED BY <3>2
  <2>5. f \in Injection(0 .. N, 1 .. N)
    <3>1. f \in [0 .. N -> 1 .. N] BY <2>2, <2>3
    <3> QED BY <2>4, <3>1 DEF Injection, IsInjective
  <2>6. /\ IsFiniteSet(0 .. N) /\ Cardinality(0 .. N) = IF 0 > N THEN 0 ELSE N - 0 + 1
        /\ IsFiniteSet(1 .. N) /\ Cardinality(1 .. N) = IF 1 > N THEN 0 ELSE N - 1 + 1
    BY FS_Interval
  <2>7. Cardinality(0 .. N) <= Cardinality(1 .. N) BY <2>5, <2>6, FS_Injection
  <2> QED BY <2>6, <2>7
<1>7. PICK k \in 0 .. N : ~Defined(at[k]) /\ \A i \in 0 .. k - 1 : Defined(at[i])
  <2> DEFINE T == {i \in 0 .. N : ~Defined(at[i])}
  <2>1. N \in T BY <1>6
  <2>2. PICK k \in T : \A i \in T : k <= i
    <3>1. T \in SUBSET Nat /\ T # {} BY <2>1
    <3> HIDE DEF T
    <3> QED BY <3>1, LeastNatural
  <2>3. ASSUME NEW i \in 0 .. k - 1, ~Defined(at[i]) PROVE FALSE
    <3>1. i \in T BY <2>3
    <3> QED BY <2>2, <3>1
  <2> QED BY <2>2, <2>3
<1>8. {j \in 0 .. N : Defined(at[j])} = 0 .. k - 1
  <2>1. ASSUME NEW j \in 0 .. N, Defined(at[j]) PROVE j \in 0 .. k - 1
    <3>1. j # k BY <1>7, <2>1
    <3>2. ~(k < j) BY <1>3, <1>7, <2>1
    <3> QED BY <3>1, <3>2
  <2>2. \A j \in 0 .. k - 1 : j \in 0 .. N OBVIOUS
  <2> QED BY <1>7, <2>1, <2>2
<1>9. Cardinality(0 .. k - 1) = k
  <2>1. Cardinality(0 .. k - 1) = IF 0 > k - 1 THEN 0 ELSE k - 1 - 0 + 1 BY FS_Interval
  <2> QED BY <2>1
<1>10. PICK chain : chain = Chain(n) /\ chain = [i \in 1 .. k |-> Find(at[i - 1])]
  BY <1>2, <1>8, <1>9
<1>11. \A i \in 1 .. k : chain[i] = Find(at[i - 1]) /\ chain[i] \in Catalogue /\ Defined(at[i - 1])
  <2> SUFFICES ASSUME NEW i \in 1 .. k
               PROVE  chain[i] = Find(at[i - 1]) /\ chain[i] \in Catalogue /\ Defined(at[i - 1])
    OBVIOUS
  <2>1. i - 1 \in 0 .. k - 1 OBVIOUS
  <2> QED BY <1>5, <1>7, <1>10, <2>1
<1>12. chain \in Seq(Catalogue) /\ Len(chain) = k BY <1>10, <1>11
<1>13. \A i \in 1 .. k : at[i] = chain[i].extend
  <2> SUFFICES ASSUME NEW i \in 1 .. k PROVE at[i] = chain[i].extend OBVIOUS
  <2>1. i \in 1 .. N OBVIOUS
  <2> QED BY <1>4, <1>11, <2>1 DEF Behind
<1>14. chain = <<>> <=> ~Defined(n)
  <2>1. CASE k = 0 BY <1>4, <1>7, <1>12, <2>1
  <2>2. CASE k # 0
    <3>1. 0 \in 0 .. k - 1 BY <2>2
    <3> QED BY <1>4, <1>7, <1>12, <2>2, <3>1
  <2> QED BY <2>1, <2>2
<1>15. chain # <<>> => chain[1] = Find(n) /\ ~Defined(chain[Len(chain)].extend)
  <2> SUFFICES ASSUME k # 0 PROVE chain[1] = Find(n) /\ ~Defined(chain[k].extend) BY <1>12
  <2>1. 1 \in 1 .. k /\ k \in 1 .. k OBVIOUS
  <2> QED BY <1>4, <1>7, <1>11, <1>13, <2>1
<1>16. ASSUME NEW i \in 1 .. k - 1
       PROVE  Defined(chain[i].extend) /\ chain[i + 1] = Find(chain[i].extend)
  <2>1. i \in 1 .. k /\ i + 1 \in 1 .. k /\ i + 1 - 1 = i OBVIOUS
  <2> QED BY <1>11, <1>13, <2>1
<1> QED BY <1>10, <1>12, <1>14, <1>15, <1>16 DEF IsChain

-----------------------------------------------------------------------------
(* The merge of a chain.  The first definition is there from the beginning,   *)
(* and the extensions are applied from the last one down, so that m of them   *)
(* are left: what was merged has come from the places of a chain that are     *)
(* behind m and from the first, and of two places the former wins, unless it  *)
(* is the first and its turn has not come.                                    *)

Places(chain, m) == {1} \cup m + 1 .. Len(chain)
Before(i, j, m) == i = j \/ (i > m /\ (j <= m \/ i < j))

Has(d, c, k) == c \in DOMAIN d.components /\ k \in DOMAIN d.components[c]
Reaches(d, p) == d.children # None /\ p <= Len(d.children)

\* All components and members of the places were merged, the nearest one winning.
ComponentsMerged(components, chain, m) ==
  /\ \A c : c \in DOMAIN components <=> \E i \in Places(chain, m) : c \in DOMAIN chain[i].components
  /\ \A c \in DOMAIN components : \A k :
       k \in DOMAIN components[c] <=> \E i \in Places(chain, m) : Has(chain[i], c, k)
  /\ \A c \in DOMAIN components : \A k \in DOMAIN components[c] :
       \E i \in Places(chain, m) :
         /\ Has(chain[i], c, k) /\ components[c][k] = chain[i].components[c][k]
         /\ \A j \in Places(chain, m) : Has(chain[j], c, k) => Before(i, j, m)

\* All children of the places were merged, the nearest one winning at each place of the list.
ChildrenMerged(children, chain, m) ==
  /\ children = None <=> \A i \in Places(chain, m) : chain[i].children = None
  /\ children # None =>
       /\ \A p \in Nat \ {0} : p <= Len(children) <=> \E i \in Places(chain, m) : Reaches(chain[i], p)
       /\ \A p \in 1 .. Len(children) : \E i \in Places(chain, m) :
            /\ Reaches(chain[i], p) /\ children[p] = chain[i].children[p]
            /\ \A j \in Places(chain, m) : Reaches(chain[j], p) => Before(i, j, m)

\* A definition that is merged with nothing is itself.
LEMMA MergeBegins ==
  ASSUME NEW chain \in Seq(Catalogue), chain # <<>>
  PROVE  /\ ComponentsMerged(chain[1].components, chain, Len(chain))
         /\ ChildrenMerged(chain[1].children, chain, Len(chain))
<1>1. Places(chain, Len(chain)) = {1} BY DEF Places
<1>2. Before(1, 1, Len(chain)) BY DEF Before
<1>3. ComponentsMerged(chain[1].components, chain, Len(chain))
  BY <1>1, <1>2 DEF ComponentsMerged, Has
<1>4. chain[1] \in Catalogue OBVIOUS
<1>5. chain[1].children # None => \A p \in 1 .. Len(chain[1].children) : p <= Len(chain[1].children)
  BY <1>4, DefinitionTyped
<1>6. ChildrenMerged(chain[1].children, chain, Len(chain))
  BY <1>1, <1>2, <1>5 DEF ChildrenMerged, Reaches
<1> QED BY <1>3, <1>6

\* The place m comes before all others when it is merged, whose order stays.
LEMMA OrderKept ==
  ASSUME NEW chain \in Seq(Catalogue), NEW m \in 1 .. Len(chain)
  PROVE  /\ Places(chain, m - 1) = Places(chain, m) \cup {m}
         /\ \A j \in Places(chain, m - 1) : Before(m, j, m - 1)
         /\ \A i, j \in Places(chain, m) : Before(i, j, m) /\ i # m /\ j # m => Before(i, j, m - 1)
<1>1. PICK n \in Nat : n = Len(chain) OBVIOUS
<1>2. m \in 1 .. n /\ m - 1 + 1 = m BY <1>1
<1>3. Places(chain, m - 1) = {1} \cup m .. n /\ Places(chain, m) = {1} \cup m + 1 .. n
  BY <1>1, <1>2 DEF Places
<1>4. {1} \cup m .. n = ({1} \cup m + 1 .. n) \cup {m} BY <1>2
<1>5. \A j \in {1} \cup m .. n : Before(m, j, m - 1) BY <1>2 DEF Before
<1>6. \A i, j \in {1} \cup m + 1 .. n : Before(i, j, m) /\ i # m /\ j # m => Before(i, j, m - 1)
  BY <1>2 DEF Before
<1> QED BY <1>3, <1>4, <1>5, <1>6

\* What extendJsonValue makes of two objects of objects.
LEMMA ExtendSays ==
  ASSUME NEW d \in Components, NEW s \in Components
  PROVE  LET e == ExtendComponents(d, s) IN
         /\ \A c : c \in DOMAIN e <=> c \in DOMAIN d \/ c \in DOMAIN s
         /\ \A c \in DOMAIN e : \A k :
              /\ k \in DOMAIN e[c] <=> \/ c \in DOMAIN d /\ k \in DOMAIN d[c]
                                       \/ c \in DOMAIN s /\ k \in DOMAIN s[c]
              /\ c \in DOMAIN s /\ k \in DOMAIN s[c] => e[c][k] = s[c][k]
              /\ k \in DOMAIN e[c] /\ ~(c \in DOMAIN s /\ k \in DOMAIN s[c]) => e[c][k] = d[c][k]
<1>1. PICK e : e = ExtendComponents(d, s) OBVIOUS
<1>2. \A c : c \in DOMAIN e <=> c \in DOMAIN d \/ c \in DOMAIN s BY <1>1 DEF ExtendComponents
<1>3. ASSUME NEW c \in DOMAIN e, NEW k
      PROVE  /\ k \in DOMAIN e[c] <=> \/ c \in DOMAIN d /\ k \in DOMAIN d[c]
                                      \/ c \in DOMAIN s /\ k \in DOMAIN s[c]
             /\ c \in DOMAIN s /\ k \in DOMAIN s[c] => e[c][k] = s[c][k]
             /\ k \in DOMAIN e[c] /\ ~(c \in DOMAIN s /\ k \in DOMAIN s[c]) => e[c][k] = d[c][k]
  <2>1. CASE c \notin DOMAIN s
    <3>1. e[c] = d[c] /\ c \in DOMAIN d BY <1>1, <1>2, <2>1 DEF ExtendComponents
    <3> QED BY <2>1, <3>1
  <2>2. CASE c \in DOMAIN s /\ c \notin DOMAIN d
    <3>1. e[c] = s[c] BY <1>1, <2>2 DEF ExtendComponents
    <3> QED BY <2>2, <3>1
  <2>3. CASE c \in DOMAIN s /\ c \in DOMAIN d
    <3>1. e[c] = ExtendObject(d[c], s[c]) BY <1>1, <2>3 DEF ExtendComponents
    <3>2. \A x : x \in DOMAIN e[c] <=> x \in DOMAIN d[c] \/ x \in DOMAIN s[c] BY <3>1 DEF ExtendObject
    <3>3. \A x \in DOMAIN e[c] : e[c][x] = IF x \in DOMAIN s[c] THEN s[c][x] ELSE d[c][x]
      BY <3>1 DEF ExtendObject
    <3> QED BY <2>3, <3>2, <3>3
  <2> QED BY <2>1, <2>2, <2>3
<1> QED BY <1>1, <1>2, <1>3

\* One iteration of the merge: components.
LEMMA ComponentsMerge ==
  ASSUME NEW chain \in Seq(Catalogue), NEW m \in 1 .. Len(chain), NEW components \in Components,
         ComponentsMerged(components, chain, m)
  PROVE  ComponentsMerged(ExtendComponents(components, chain[m].components), chain, m - 1)
<1>1. PICK v : v = chain[m].components OBVIOUS
<1>2. v \in Components
  <2>1. chain[m] \in Catalogue OBVIOUS
  <2> QED BY <1>1, <2>1, DefinitionTyped
<1>3. PICK e : e = ExtendComponents(components, v) OBVIOUS
<1>4. /\ \A c : c \in DOMAIN e <=> c \in DOMAIN components \/ c \in DOMAIN v
      /\ \A c \in DOMAIN e : \A k :
           /\ k \in DOMAIN e[c] <=> \/ c \in DOMAIN components /\ k \in DOMAIN components[c]
                                    \/ Has(chain[m], c, k)
           /\ Has(chain[m], c, k) => e[c][k] = v[c][k]
           /\ k \in DOMAIN e[c] /\ ~Has(chain[m], c, k) => e[c][k] = components[c][k]
  BY <1>1, <1>2, <1>3, ExtendSays DEF Has
<1>5. PICK P, Q : P = Places(chain, m) /\ Q = Places(chain, m - 1) OBVIOUS
<1>6. /\ Q = P \cup {m}
      /\ \A j \in Q : Before(m, j, m - 1)
      /\ \A i, j \in P : Before(i, j, m) /\ i # m /\ j # m => Before(i, j, m - 1)
  BY <1>5, OrderKept
<1>7. /\ \A c : c \in DOMAIN components <=> \E i \in P : c \in DOMAIN chain[i].components
      /\ \A c \in DOMAIN components : \A k : k \in DOMAIN components[c] <=> \E i \in P : Has(chain[i], c, k)
      /\ \A c \in DOMAIN components : \A k \in DOMAIN components[c] : \E i \in P :
           /\ Has(chain[i], c, k) /\ components[c][k] = chain[i].components[c][k]
           /\ \A j \in P : Has(chain[j], c, k) => Before(i, j, m)
  BY <1>5 DEF ComponentsMerged
<1>8. \A c : c \in DOMAIN e <=> \E i \in Q : c \in DOMAIN chain[i].components
  BY <1>1, <1>4, <1>6, <1>7
<1>9. ASSUME NEW c \in DOMAIN e, NEW k
      PROVE  k \in DOMAIN e[c] <=> \E i \in Q : Has(chain[i], c, k)
  <2>1. (\E i \in P : Has(chain[i], c, k)) => c \in DOMAIN components BY <1>7 DEF Has
  <2>2. (\E i \in Q : Has(chain[i], c, k)) <=> Has(chain[m], c, k) \/ \E i \in P : Has(chain[i], c, k)
    BY <1>6
  <2>3. (c \in DOMAIN components /\ k \in DOMAIN components[c]) <=> \E i \in P : Has(chain[i], c, k)
    BY <1>7, <2>1
  <2> QED BY <1>4, <2>2, <2>3
<1>10. ASSUME NEW c \in DOMAIN e, NEW k \in DOMAIN e[c]
       PROVE  \E i \in Q : /\ Has(chain[i], c, k) /\ e[c][k] = chain[i].components[c][k]
                           /\ \A j \in Q : Has(chain[j], c, k) => Before(i, j, m - 1)
  <2>1. CASE Has(chain[m], c, k)
    <3>1. m \in Q /\ e[c][k] = chain[m].components[c][k] BY <1>1, <1>4, <1>6, <2>1
    <3> QED BY <1>6, <2>1, <3>1
  <2>2. CASE ~Has(chain[m], c, k)
    <3>1. c \in DOMAIN components /\ k \in DOMAIN components[c] /\ e[c][k] = components[c][k]
      BY <1>4, <2>2
    <3>2. PICK i \in P : /\ Has(chain[i], c, k) /\ components[c][k] = chain[i].components[c][k]
                         /\ \A j \in P : Has(chain[j], c, k) => Before(i, j, m)
      BY <1>7, <3>1
    <3>3. ASSUME NEW j \in Q, Has(chain[j], c, k) PROVE Before(i, j, m - 1)
      <4>1. j # m /\ i # m BY <2>2, <3>2, <3>3
      <4>2. j \in P BY <1>6, <4>1
      <4> QED BY <1>6, <3>2, <3>3, <4>1, <4>2
    <3> QED BY <1>6, <3>1, <3>2, <3>3
  <2> QED BY <2>1, <2>2
<1> QED BY <1>1, <1>3, <1>5, <1>8, <1>9, <1>10 DEF ComponentsMerged

\* What extendJsonValue makes of two arrays.
LEMMA ExtendChildrenSays ==
  ASSUME NEW d \in {None} \cup Seq(Names), NEW s \in {None} \cup Seq(Names),
         NEW r, r = ExtendChildren(d, s)
  PROVE  /\ r = None <=> d = None /\ s = None
         /\ r # None => \A p \in Nat \ {0} :
              /\ p <= Len(r) <=> (d # None /\ p <= Len(d)) \/ (s # None /\ p <= Len(s))
              /\ s # None /\ p <= Len(s) => r[p] = s[p]
              /\ p <= Len(r) /\ ~(s # None /\ p <= Len(s)) => r[p] = d[p]
<1>1. CASE s = None
  <2>1. r = d BY <1>1 DEF ExtendChildren
  <2> QED BY <1>1, <2>1
<1>2. CASE s # None /\ d = None
  <2>1. r = s BY <1>2 DEF ExtendChildren
  <2> QED BY <1>2, <2>1
<1>3. CASE s # None /\ d # None
  <2>1. s \in Seq(Names) /\ d \in Seq(Names) BY <1>3
  <2>2. PICK t : t = SubSeq(d, Len(s) + 1, Len(d)) OBVIOUS
  <2>3. r = s \o t BY <1>3, <2>2 DEF ExtendChildren
  <2>4. PICK a \in Nat, b \in Nat : a = Len(s) /\ b = Len(d) BY <2>1
  <2>5. /\ t \in Seq(Names) /\ Len(t) = (IF a + 1 <= b THEN b - a ELSE 0)
        /\ \A q \in 1 .. Len(t) : t[q] = d[a + q]
    <3>1. t \in Seq(Names) BY <2>1, <2>2
    <3>2. Len(t) = IF a + 1 <= b THEN b - (a + 1) + 1 ELSE 0 BY <2>1, <2>2, <2>4
    <3>3. \A q \in 1 .. Len(t) : t[q] = d[a + 1 + q - 1] BY <2>1, <2>2, <2>4
    <3>4. \A q \in 1 .. Len(t) : a + 1 + q - 1 = a + q BY <2>4, <3>1
    <3>5. Len(t) = IF a + 1 <= b THEN b - a ELSE 0 BY <2>4, <3>2
    <3>6. \A q \in 1 .. Len(t) : t[q] = d[a + q] BY <3>3, <3>4
    <3> QED BY <3>1, <3>5, <3>6
  <2>6. r \in Seq(Names) /\ Len(r) = a + Len(t) BY <2>1, <2>3, <2>4, <2>5
  <2>7. ASSUME NEW p \in Nat \ {0}
        PROVE  /\ p <= Len(r) <=> p <= b \/ p <= a
               /\ p <= a => r[p] = s[p]
               /\ p <= Len(r) /\ ~(p <= a) => r[p] = d[p]
    <3>1. p <= Len(r) <=> p <= b \/ p <= a BY <2>4, <2>5, <2>6
    <3>2. p <= a => r[p] = s[p] BY <2>1, <2>3, <2>4, <2>5
    <3>3. ASSUME p <= Len(r), ~(p <= a) PROVE r[p] = d[p]
      <4>1. p - a \in 1 .. Len(t) /\ a + (p - a) = p BY <2>4, <2>5, <2>6, <3>3
      <4>2. r[p] = t[p - a] BY <2>1, <2>3, <2>4, <2>5, <3>3, <4>1
      <4> QED BY <2>5, <4>1, <4>2
    <3> QED BY <3>1, <3>2, <3>3
  <2>8. r # None BY <2>6, NamesAssumption
  <2> QED BY <1>3, <2>4, <2>7, <2>8
<1> QED BY <1>1, <1>2, <1>3

\* One iteration of the merge: children.
LEMMA ChildrenMerge ==
  ASSUME NEW chain \in Seq(Catalogue), NEW m \in 1 .. Len(chain), NEW children \in {None} \cup Seq(Names),
         ChildrenMerged(children, chain, m)
  PROVE  ChildrenMerged(ExtendChildren(children, chain[m].children), chain, m - 1)
<1>1. PICK v : v = chain[m].children OBVIOUS
<1>2. v \in {None} \cup Seq(Names)
  <2>1. chain[m] \in Catalogue OBVIOUS
  <2> QED BY <1>1, <2>1, DefinitionTyped
<1>3. PICK r : r = ExtendChildren(children, v) OBVIOUS
<1>4. /\ r = None <=> children = None /\ v = None
      /\ r # None => \A p \in Nat \ {0} :
           /\ p <= Len(r) <=> (children # None /\ p <= Len(children)) \/ Reaches(chain[m], p)
           /\ Reaches(chain[m], p) => r[p] = v[p]
           /\ p <= Len(r) /\ ~Reaches(chain[m], p) => r[p] = children[p]
  BY <1>1, <1>2, <1>3, ExtendChildrenSays DEF Reaches
<1>5. PICK P, Q : P = Places(chain, m) /\ Q = Places(chain, m - 1) OBVIOUS
<1>6. /\ Q = P \cup {m}
      /\ \A j \in Q : Before(m, j, m - 1)
      /\ \A i, j \in P : Before(i, j, m) /\ i # m /\ j # m => Before(i, j, m - 1)
  BY <1>5, OrderKept
<1>7. /\ children = None <=> \A i \in P : chain[i].children = None
      /\ children # None =>
           /\ \A p \in Nat \ {0} : p <= Len(children) <=> \E i \in P : Reaches(chain[i], p)
           /\ \A p \in 1 .. Len(children) : \E i \in P :
                /\ Reaches(chain[i], p) /\ children[p] = chain[i].children[p]
                /\ \A j \in P : Reaches(chain[j], p) => Before(i, j, m)
  BY <1>5 DEF ChildrenMerged
<1>8. r = None <=> \A i \in Q : chain[i].children = None BY <1>1, <1>4, <1>6, <1>7
<1>9. ASSUME r # None, NEW p \in Nat \ {0}
      PROVE  p <= Len(r) <=> \E i \in Q : Reaches(chain[i], p)
  <2>1. (children # None /\ p <= Len(children)) <=> \E i \in P : Reaches(chain[i], p)
    BY <1>7 DEF Reaches
  <2> QED BY <1>4, <1>6, <1>9, <2>1
<1>10. ASSUME r # None, NEW p \in 1 .. Len(r)
       PROVE  \E i \in Q : /\ Reaches(chain[i], p) /\ r[p] = chain[i].children[p]
                           /\ \A j \in Q : Reaches(chain[j], p) => Before(i, j, m - 1)
  <2>0. p \in Nat \ {0} /\ p <= Len(r)
    <3>1. r \in Seq(Names) BY <1>2, <1>3, <1>10, ExtendChildrenTyped
    <3> QED BY <3>1
  <2>1. CASE Reaches(chain[m], p)
    <3>1. m \in Q /\ r[p] = chain[m].children[p] BY <1>1, <1>4, <1>6, <1>10, <2>0, <2>1
    <3> QED BY <1>6, <2>1, <3>1
  <2>2. CASE ~Reaches(chain[m], p)
    <3>1. children # None /\ p <= Len(children) /\ r[p] = children[p] BY <1>4, <1>10, <2>0, <2>2
    <3>2. p \in 1 .. Len(children)
      <4>1. children \in Seq(Names) BY <3>1
      <4> QED BY <2>0, <3>1, <4>1
    <3>3. PICK i \in P : /\ Reaches(chain[i], p) /\ children[p] = chain[i].children[p]
                         /\ \A j \in P : Reaches(chain[j], p) => Before(i, j, m)
      BY <1>7, <3>1, <3>2
    <3>4. ASSUME NEW j \in Q, Reaches(chain[j], p) PROVE Before(i, j, m - 1)
      <4>1. j # m /\ i # m BY <2>2, <3>3, <3>4
      <4>2. j \in P BY <1>6, <4>1
      <4> QED BY <1>6, <3>3, <3>4, <4>1, <4>2
    <3> QED BY <1>6, <3>1, <3>3, <3>4
  <2> QED BY <2>1, <2>2
<1> QED BY <1>1, <1>3, <1>5, <1>8, <1>9, <1>10 DEF ChildrenMerged

\* The nearest of the places of which something holds.
LEMMA NearestIs ==
  ASSUME NEW chain \in Seq(Catalogue), NEW W, NEW i \in W, W \subseteq DOMAIN chain, \A j \in W : i <= j
  PROVE  i = CHOOSE k \in DOMAIN chain : k \in W /\ \A j \in 1 .. k - 1 : j \notin W
<1> DEFINE First(k) == k \in W /\ \A j \in 1 .. k - 1 : j \notin W
<1>1. DOMAIN chain \subseteq Nat \ {0} /\ i \in DOMAIN chain OBVIOUS
<1>2. First(i) BY <1>1
<1>3. ASSUME NEW k \in DOMAIN chain, First(k) PROVE k = i
  <2>1. i <= k BY <1>3
  <2>2. ~(i < k) BY <1>1, <1>3
  <2> QED BY <1>1, <2>1, <2>2
<1> HIDE DEF First
<1>4. i = CHOOSE k \in DOMAIN chain : First(k) BY <1>1, <1>2, <1>3
<1> QED BY <1>4 DEF First

\* When the whole chain is merged, the components are those that were to be made.
LEMMA ComponentsAsDefined ==
  ASSUME NEW n, NEW chain \in Seq(Catalogue), chain = Chain(n), chain # <<>>,
         NEW components \in Components, ComponentsMerged(components, chain, 0)
  PROVE  components = DefinedComponents(n)
<1>1. PICK P : P = Places(chain, 0) OBVIOUS
<1>2. P = DOMAIN chain /\ \A i, j \in P : Before(i, j, 0) => i <= j
  <2>1. PICK l \in Nat : l = Len(chain) OBVIOUS
  <2>2. l # 0 BY <2>1
  <2>3. P = {1} \cup 1 .. l BY <1>1, <2>1 DEF Places
  <2> QED BY <2>1, <2>2, <2>3 DEF Before
<1>3. /\ \A c : c \in DOMAIN components <=> \E i \in P : c \in DOMAIN chain[i].components
      /\ \A c \in DOMAIN components : \A k : k \in DOMAIN components[c] <=> \E i \in P : Has(chain[i], c, k)
      /\ \A c \in DOMAIN components : \A k \in DOMAIN components[c] : \E i \in P :
           /\ Has(chain[i], c, k) /\ components[c][k] = chain[i].components[c][k]
           /\ \A j \in P : Has(chain[j], c, k) => Before(i, j, 0)
  BY <1>1 DEF ComponentsMerged
<1> DEFINE Place(c, k) == CHOOSE i \in DOMAIN chain :
                            Has(chain[i], c, k) /\ \A j \in 1 .. i - 1 : ~Has(chain[j], c, k)
<1>4. DefinedComponents(n) =
        [c \in UNION {DOMAIN chain[i].components : i \in DOMAIN chain} |->
          [k \in UNION {DOMAIN chain[i].components[c] : i \in {j \in DOMAIN chain : c \in DOMAIN chain[j].components}} |->
             chain[Place(c, k)].components[c][k]]]
  BY DEF DefinedComponents, Nearest, Has
<1> DEFINE Ks(c) ==
             UNION {DOMAIN chain[i].components[c] : i \in {j \in DOMAIN chain : c \in DOMAIN chain[j].components}}
<1>5. DOMAIN components = UNION {DOMAIN chain[i].components : i \in DOMAIN chain}
  <2>1. \A c : c \in UNION {DOMAIN chain[i].components : i \in DOMAIN chain}
               <=> \E i \in P : c \in DOMAIN chain[i].components
    BY <1>2
  <2> QED BY <1>3, <2>1
<1>6. ASSUME NEW c \in DOMAIN components PROVE DOMAIN components[c] = Ks(c)
  <2>1. \A k : k \in Ks(c) <=> \E i \in P : Has(chain[i], c, k) BY <1>2 DEF Has
  <2>2. \A k : k \in DOMAIN components[c] <=> \E i \in P : Has(chain[i], c, k) BY <1>3
  <2> HIDE DEF Ks
  <2> QED BY <2>1, <2>2
<1>7. ASSUME NEW c \in DOMAIN components, NEW k \in DOMAIN components[c]
      PROVE  components[c][k] = chain[Place(c, k)].components[c][k]
  <2>1. PICK i \in P : /\ Has(chain[i], c, k) /\ components[c][k] = chain[i].components[c][k]
                       /\ \A j \in P : Has(chain[j], c, k) => Before(i, j, 0)
    BY <1>3
  <2>2. PICK W : W = {j \in DOMAIN chain : Has(chain[j], c, k)} OBVIOUS
  <2>3. i \in W /\ W \subseteq DOMAIN chain /\ \A j \in W : i <= j BY <1>2, <2>1, <2>2
  <2>4. i = CHOOSE x \in DOMAIN chain : x \in W /\ \A j \in 1 .. x - 1 : j \notin W BY <2>3, NearestIs
  <2>5. \A x \in DOMAIN chain : (x \in W /\ \A j \in 1 .. x - 1 : j \notin W)
                                  <=> Has(chain[x], c, k) /\ \A j \in 1 .. x - 1 : ~Has(chain[j], c, k)
    <3>1. \A x \in DOMAIN chain : \A j \in 1 .. x - 1 : j \in DOMAIN chain OBVIOUS
    <3> QED BY <2>2, <3>1
  <2>6. i = Place(c, k) BY <2>4, <2>5
  <2> HIDE DEF Place
  <2> QED BY <2>1, <2>6
<1>8. components = [c \in DOMAIN components |-> [k \in DOMAIN components[c] |-> components[c][k]]]
  <2>1. components = [c \in DOMAIN components |-> components[c]] BY DEF Components
  <2>2. \A c \in DOMAIN components : components[c] = [k \in DOMAIN components[c] |-> components[c][k]]
    BY DEF Components, Objects
  <2> QED BY <2>1, <2>2
<1>9. \A c \in DOMAIN components :
        [k \in DOMAIN components[c] |-> components[c][k]] = [k \in Ks(c) |-> chain[Place(c, k)].components[c][k]]
  <2> HIDE DEF Place, Ks
  <2> QED BY <1>6, <1>7
<1>10. DefinedComponents(n) = [c \in DOMAIN components |-> [k \in Ks(c) |-> chain[Place(c, k)].components[c][k]]]
  <2> HIDE DEF Place
  <2> QED BY <1>4, <1>5
<1> HIDE DEF Place, Ks
<1> QED BY <1>8, <1>9, <1>10

\* And so are the children.
LEMMA ChildrenAsDefined ==
  ASSUME NEW n, NEW chain \in Seq(Catalogue), chain = Chain(n), chain # <<>>,
         NEW children \in {None} \cup Seq(Names), ChildrenMerged(children, chain, 0)
  PROVE  children = DefinedChildren(n)
<1>1. PICK P : P = Places(chain, 0) OBVIOUS
<1>2. P = DOMAIN chain /\ \A i, j \in P : Before(i, j, 0) => i <= j
  <2>1. PICK l \in Nat : l = Len(chain) OBVIOUS
  <2>2. l # 0 BY <2>1
  <2>3. P = {1} \cup 1 .. l BY <1>1, <2>1 DEF Places
  <2> QED BY <2>1, <2>2, <2>3 DEF Before
<1>3. /\ children = None <=> \A i \in P : chain[i].children = None
      /\ children # None =>
           /\ \A p \in Nat \ {0} : p <= Len(children) <=> \E i \in P : Reaches(chain[i], p)
           /\ \A p \in 1 .. Len(children) : \E i \in P :
                /\ Reaches(chain[i], p) /\ children[p] = chain[i].children[p]
                /\ \A j \in P : Reaches(chain[j], p) => Before(i, j, 0)
  BY <1>1 DEF ChildrenMerged
<1> DEFINE Lists == {chain[i].children : i \in DOMAIN chain} \ {None}
           Length == CHOOSE l \in {Len(c) : c \in Lists} : \A c \in Lists : Len(c) <= l
           Place(p) == CHOOSE i \in DOMAIN chain :
                         Reaches(chain[i], p) /\ \A j \in 1 .. i - 1 : ~Reaches(chain[j], p)
<1>4. DefinedChildren(n) = IF Lists = {} THEN None ELSE [p \in 1 .. Length |-> chain[Place(p)].children[p]]
  BY DEF DefinedChildren, Nearest, Reaches
<1>5. \A c \in Lists : c \in Seq(Names) /\ \E i \in P : chain[i].children = c /\ c # None
  BY <1>2, DefinitionTyped
<1>6. CASE children = None
  <2>1. Lists = {} BY <1>2, <1>3, <1>6
  <2> QED BY <1>4, <1>6, <2>1
<1>7. CASE children # None
  <2>1. PICK l \in Nat : l = Len(children) /\ children \in Seq(Names) BY <1>7
  <2>2. Lists # {}
    <3>1. PICK i \in P : chain[i].children # None BY <1>3, <1>7
    <3>2. chain[i].children \in Lists BY <1>2, <3>1
    <3> QED BY <3>2
  <2>3. \A c \in Lists : Len(c) \in Nat /\ Len(c) <= l
    <3> SUFFICES ASSUME NEW c \in Lists PROVE Len(c) \in Nat /\ Len(c) <= l OBVIOUS
    <3>1. c \in Seq(Names) /\ \E i \in P : chain[i].children = c /\ c # None BY <1>5
    <3>2. PICK i \in P : chain[i].children = c /\ c # None BY <3>1
    <3>3. Len(c) \in Nat BY <3>1
    <3>4. Len(c) # 0 => Reaches(chain[i], Len(c)) BY <3>2, <3>3 DEF Reaches
    <3>5. Len(c) # 0 => Len(c) <= l BY <1>3, <1>7, <2>1, <3>3, <3>4
    <3> QED BY <2>1, <3>3, <3>5
  <2>4. l \in {Len(c) : c \in Lists}
    <3>1. CASE l = 0
      <4>1. PICK c \in Lists : Len(c) \in Nat /\ Len(c) <= l BY <2>2, <2>3
      <4>2. Len(c) = l BY <3>1, <4>1
      <4> QED BY <4>2
    <3>2. CASE l # 0
      <4>1. PICK i \in P : Reaches(chain[i], l) BY <1>3, <1>7, <2>1, <3>2
      <4>2. PICK c : c = chain[i].children /\ c # None /\ l <= Len(c) BY <4>1 DEF Reaches
      <4>3. c \in Lists BY <1>2, <4>2
      <4>4. Len(c) \in Nat /\ Len(c) <= l BY <2>3, <4>3
      <4>5. Len(c) = l BY <2>1, <4>2, <4>4
      <4> QED BY <4>3, <4>5
    <3> QED BY <3>1, <3>2
  <2>5. Length = l
    <3>1. \A k \in {Len(c) : c \in Lists} : k \in Nat /\ k <= l BY <2>3
    <3>2. \A k \in {Len(c) : c \in Lists} : (\A c \in Lists : Len(c) <= k) => k = l
      <4> SUFFICES ASSUME NEW k \in {Len(c) : c \in Lists}, \A c \in Lists : Len(c) <= k PROVE k = l
        OBVIOUS
      <4>1. l <= k BY <2>4
      <4> QED BY <2>1, <3>1, <4>1
    <3>3. PICK S, Top2 : S = {Len(c) : c \in Lists} /\ Top2 = {k \in S : \A c \in Lists : Len(c) <= k}
      OBVIOUS
    <3>4. Length = CHOOSE k \in S : \A c \in Lists : Len(c) <= k BY <3>3
    <3>5. \A c \in Lists : Len(c) <= l BY <2>3
    <3> HIDE DEF Lists, Length
    <3> QED BY <2>4, <3>2, <3>3, <3>4, <3>5
  <2>6. ASSUME NEW p \in 1 .. l PROVE children[p] = chain[Place(p)].children[p]
    <3>1. PICK i \in P : /\ Reaches(chain[i], p) /\ children[p] = chain[i].children[p]
                         /\ \A j \in P : Reaches(chain[j], p) => Before(i, j, 0)
      BY <1>3, <1>7, <2>1
    <3>2. PICK W : W = {j \in DOMAIN chain : Reaches(chain[j], p)} OBVIOUS
    <3>3. i \in W /\ W \subseteq DOMAIN chain /\ \A j \in W : i <= j BY <1>2, <3>1, <3>2
    <3>4. i = CHOOSE x \in DOMAIN chain : x \in W /\ \A j \in 1 .. x - 1 : j \notin W BY <3>3, NearestIs
    <3>5. \A x \in DOMAIN chain : (x \in W /\ \A j \in 1 .. x - 1 : j \notin W)
                                    <=> Reaches(chain[x], p) /\ \A j \in 1 .. x - 1 : ~Reaches(chain[j], p)
      <4>1. \A x \in DOMAIN chain : \A j \in 1 .. x - 1 : j \in DOMAIN chain OBVIOUS
      <4> QED BY <3>2, <4>1
    <3>6. i = Place(p) BY <3>4, <3>5
    <3> HIDE DEF Place
    <3> QED BY <3>1, <3>6
  <2>7. children = [p \in 1 .. l |-> children[p]] BY <2>1
  <2>8. DefinedChildren(n) = [p \in 1 .. l |-> chain[Place(p)].children[p]]
    <3> HIDE DEF Place, Lists, Length
    <3> QED BY <1>4, <2>2, <2>5
  <2> HIDE DEF Place
  <2> QED BY <2>6, <2>7, <2>8
<1> QED BY <1>6, <1>7

-----------------------------------------------------------------------------
(* What the calls have made so far. *)

\* What is asked for an entity beside its family components.
Own(id) == {r \in creationRequests : r.id = id} \ OfType(id, {CHILDREN, PARENT})
Pairs(requests) == {<<r.type, r.json>> : r \in requests}
Asked(components, names) == {<<TypeOf(c, components[c]), components[c]>> : c \in names}

\* While the definitions that n extends are looked for and merged: the stack is the
\* beginning of the chain, and what is no more on it was merged.
StackSound(f, chain) ==
  /\ Len(f.stack) \in 1 .. Len(chain) /\ \A i \in 1 .. Len(f.stack) : f.stack[i] = chain[i]
  /\ f.extend # None => /\ f.extend = chain[Len(f.stack)].extend
                        /\ f.components = chain[1].components /\ f.children = chain[1].children
  /\ f.extend = None => /\ ComponentsMerged(f.components, chain, Len(f.stack))
                        /\ ChildrenMerged(f.children, chain, Len(f.stack))
  /\ f.next = 1

\* Afterwards: what is not left was asked for.
MergeSound(f, components, children, pairs) ==
  /\ f.children = children
  /\ \A c \in DOMAIN f.components : c \in DOMAIN components /\ f.components[c] = components[c]
  /\ pairs = Asked(components, DOMAIN components \ DOMAIN f.components)

\* The children that are listed, and the one that is waited for, come from the definitions
\* that were named, in their order.
KidsSound(f) ==
  f.children # None =>
    /\ f.next <= Len(f.children) + 1
    /\ Len(f.kids) = f.next - (IF f.child = None THEN 1 ELSE 2)
    /\ \A i \in DOMAIN f.kids : origin[f.kids[i] + 1] = f.children[i]
    /\ f.child # None => origin[f.child + 1] = f.children[f.next - 1]

CallSound(f) ==
  LET n == origin[f.id + 1] IN
  /\ Defined(n)
  /\ IF f.extend # None \/ f.stack # <<>>
       THEN StackSound(f, Chain(n)) /\ Own(f.id) = {}
       ELSE /\ MergeSound(f, DefinedComponents(n), DefinedChildren(n), Pairs(Own(f.id)))
            /\ KidsSound(f)
  /\ f.children = None => ~f.family
  /\ IF f.family THEN \E r \in OfType(f.id, {CHILDREN}) : OfType(f.id, {CHILDREN}) = {r} /\ r.kids = f.kids
     ELSE OfType(f.id, {CHILDREN}) = {}

AsDefined(id) ==
  LET components == DefinedComponents(origin[id + 1])
      children == DefinedChildren(origin[id + 1])
      family == OfType(id, {CHILDREN})
  IN /\ Pairs(Own(id)) = Asked(components, DOMAIN components)
     /\ IF children = None THEN family = {} ELSE
          \E r \in family :
            /\ family = {r}
            /\ [i \in DOMAIN r.kids |-> origin[r.kids[i] + 1]] = children

CallsSound == \A t \in Threads : \A i \in DOMAIN calls[t] : CallSound(calls[t][i])
EntitiesSound ==
  \A id \in Ids : (\A t \in Threads : \A i \in DOMAIN calls[t] : calls[t][i].id # id) => AsDefined(id)

BuiltInv == FamilyInv /\ CallsSound /\ EntitiesSound

LEMMA BuiltInvImplies == BuiltInv => BuiltAsDefined
<1> SUFFICES ASSUME BuiltInv, NEW id \in Ids, Built(id)
             PROVE  LET components == DefinedComponents(origin[id + 1])
                        children == DefinedChildren(origin[id + 1])
                        family == OfType(id, {CHILDREN})
                    IN /\ {<<r.type, r.json>> : r \in {q \in creationRequests : q.id = id} \ OfType(id, {CHILDREN, PARENT})}
                            = {<<TypeOf(c, components[c]), components[c]>> : c \in DOMAIN components}
                       /\ IF children = None THEN family = {} ELSE
                            \E r \in family :
                              /\ family = {r}
                              /\ [i \in DOMAIN r.kids |-> origin[r.kids[i] + 1]] = children
  BY DEF BuiltAsDefined
<1>1. \A t \in Threads : \A i \in DOMAIN calls[t] : calls[t][i].id # id BY DEF Built, Frames
<1>2. AsDefined(id) BY <1>1 DEF BuiltInv, EntitiesSound
<1> QED BY <1>2 DEF AsDefined, Own, Pairs, Asked

\* What the definitions say stays as long as they stay.
LEMMA DefinitionsStay ==
  ASSUME definitions' = definitions
  PROVE  /\ \A n : Defined(n)' <=> Defined(n)
         /\ \A n : Chain(n)' = Chain(n)
         /\ \A n : DefinedComponents(n)' = DefinedComponents(n)
         /\ \A n : DefinedChildren(n)' = DefinedChildren(n)
<1>1. \A n : Defined(n)' <=> Defined(n) BY DEF Defined
<1>2. \A n : Chain(n)' = Chain(n) BY DEF Chain, Find, Defined
<1>3. \A n : DefinedComponents(n)' = DefinedComponents(n)
  BY DEF DefinedComponents, Nearest, Chain, Find, Defined
<1>4. \A n : DefinedChildren(n)' = DefinedChildren(n)
  BY DEF DefinedChildren, Nearest, Chain, Find, Defined
<1> QED BY <1>1, <1>2, <1>3, <1>4

\* What there is to show of a call after a step.
LEMMA CallIs ==
  ASSUME NEW f, NEW n, NEW chain, NEW components, NEW children, NEW own, NEW family,
         n = origin'[f.id + 1], Defined(n)', chain = Chain(n)', components = DefinedComponents(n)',
         children = DefinedChildren(n)', own = Own(f.id)', family = OfType(f.id, {CHILDREN})',
         f.extend # None \/ f.stack # <<>> => StackSound(f, chain) /\ own = {},
         f.extend = None /\ f.stack = <<>> =>
           MergeSound(f, components, children, Pairs(own)) /\ KidsSound(f)',
         f.children = None => ~f.family,
         f.family => \E r \in family : family = {r} /\ r.kids = f.kids,
         ~f.family => family = {}
  PROVE  CallSound(f)'
BY DEF CallSound

\* What another call has made stays.
LEMMA CallStays ==
  ASSUME NEW f, FrameSound(f), CallSound(f), definitions' = definitions,
         \A i \in Ids : origin'[i + 1] = origin[i + 1],
         Own(f.id)' = Own(f.id), OfType(f.id, {CHILDREN})' = OfType(f.id, {CHILDREN})
  PROVE  CallSound(f)'
<1>1. PICK n : n = origin[f.id + 1] /\ n = origin'[f.id + 1] BY DEF FrameSound
<1>2. PICK chain, components, children, own, family :
        /\ chain = Chain(n) /\ components = DefinedComponents(n) /\ children = DefinedChildren(n)
        /\ own = Own(f.id) /\ family = OfType(f.id, {CHILDREN})
  OBVIOUS
<1>3. /\ Defined(n) => Defined(n)'
      /\ chain = Chain(n)' /\ components = DefinedComponents(n)' /\ children = DefinedChildren(n)'
      /\ own = Own(f.id)' /\ family = OfType(f.id, {CHILDREN})'
  BY <1>2, DefinitionsStay
<1>4. KidsSound(f) => KidsSound(f)'
  <2>1. /\ \A i \in DOMAIN f.kids : origin'[f.kids[i] + 1] = origin[f.kids[i] + 1]
        /\ f.child # None => origin'[f.child + 1] = origin[f.child + 1]
    BY DEF FrameSound
  <2> QED BY <2>1 DEF KidsSound
<1>5. /\ Defined(n)
      /\ f.extend # None \/ f.stack # <<>> => StackSound(f, chain) /\ own = {}
      /\ f.extend = None /\ f.stack = <<>> =>
           MergeSound(f, components, children, Pairs(own)) /\ KidsSound(f)
      /\ f.children = None => ~f.family
      /\ f.family => \E r \in family : family = {r} /\ r.kids = f.kids
      /\ ~f.family => family = {}
  BY <1>1, <1>2 DEF CallSound
<1> QED BY <1>1, <1>3, <1>4, <1>5, CallIs

\* And so does an entity.
LEMMA EntityStays ==
  ASSUME RequestIds, NEW id \in Ids, AsDefined(id), definitions' = definitions,
         \A i \in Ids : origin'[i + 1] = origin[i + 1],
         Own(id)' = Own(id), OfType(id, {CHILDREN})' = OfType(id, {CHILDREN})
  PROVE  AsDefined(id)'
<1>1. PICK n : n = origin[id + 1] /\ n = origin'[id + 1] OBVIOUS
<1>2. DefinedComponents(n)' = DefinedComponents(n) /\ DefinedChildren(n)' = DefinedChildren(n)
  BY DefinitionsStay
<1>3. PICK components, children, family :
        components = DefinedComponents(n) /\ children = DefinedChildren(n) /\ family = OfType(id, {CHILDREN})
  OBVIOUS
<1>4. /\ Pairs(Own(id)) = Asked(components, DOMAIN components)
      /\ IF children = None THEN family = {} ELSE
           \E r \in family : family = {r} /\ [i \in DOMAIN r.kids |-> origin[r.kids[i] + 1]] = children
  BY <1>1, <1>3 DEF AsDefined
<1>5. ASSUME NEW r \in family
      PROVE  [i \in DOMAIN r.kids |-> origin'[r.kids[i] + 1]] = [i \in DOMAIN r.kids |-> origin[r.kids[i] + 1]]
  <2>1. \A i \in DOMAIN r.kids : r.kids[i] \in Ids BY <1>3, <1>5 DEF OfType, RequestIds
  <2> QED BY <2>1
<1>6. IF children = None THEN family = {} ELSE
        \E r \in family : family = {r} /\ [i \in DOMAIN r.kids |-> origin'[r.kids[i] + 1]] = children
  BY <1>4, <1>5
<1>7. components = DefinedComponents(n)' /\ children = DefinedChildren(n)' /\ family = OfType(id, {CHILDREN})'
  BY <1>2, <1>3
<1>8. Pairs(Own(id)') = Asked(components, DOMAIN components) BY <1>4
<1> QED BY <1>1, <1>6, <1>7, <1>8 DEF AsDefined

\* What there is to know of a call before a step.
LEMMA CallSays ==
  ASSUME Typed, NEW f \in Calls, f.id \in Ids, CallSound(f), definitions' = definitions
  PROVE  \E n, chain, components, children, own, family :
           /\ n \in Names /\ n = origin[f.id + 1] /\ own = Own(f.id) /\ family = OfType(f.id, {CHILDREN})
           /\ Defined(n) /\ Defined(n)' /\ IsChain(chain, n) /\ chain # <<>>
           /\ chain = Chain(n) /\ chain = Chain(n)'
           /\ components = DefinedComponents(n) /\ components = DefinedComponents(n)'
           /\ children = DefinedChildren(n) /\ children = DefinedChildren(n)'
           /\ f.extend # None \/ f.stack # <<>> => StackSound(f, chain) /\ own = {}
           /\ f.extend = None /\ f.stack = <<>> =>
                MergeSound(f, components, children, Pairs(own)) /\ KidsSound(f)
           /\ f.children = None => ~f.family
           /\ f.family => \E r \in family : family = {r} /\ r.kids = f.kids
           /\ ~f.family => family = {}
<1>1. PICK n \in Names : n = origin[f.id + 1]
  <2>1. PICK k \in Nat, s \in Seq(Names) : k = currentEntityId /\ s = origin /\ Len(s) = k BY DEF Typed
  <2>2. f.id + 1 \in 1 .. k BY <2>1 DEF Ids
  <2> QED BY <2>1, <2>2
<1>2. PICK chain, components, children, own, family :
        /\ chain = Chain(n) /\ components = DefinedComponents(n) /\ children = DefinedChildren(n)
        /\ own = Own(f.id) /\ family = OfType(f.id, {CHILDREN})
  OBVIOUS
<1>3. IsChain(chain, n) BY <1>2, ChainIs DEF Typed
<1>4. /\ Defined(n)
      /\ f.extend # None \/ f.stack # <<>> => StackSound(f, chain) /\ own = {}
      /\ f.extend = None /\ f.stack = <<>> =>
           MergeSound(f, components, children, Pairs(own)) /\ KidsSound(f)
      /\ f.children = None => ~f.family
      /\ f.family => \E r \in family : family = {r} /\ r.kids = f.kids
      /\ ~f.family => family = {}
  BY <1>1, <1>2 DEF CallSound
<1>5. chain # <<>> BY <1>3, <1>4 DEF IsChain
<1>6. /\ Defined(n)'
      /\ chain = Chain(n)' /\ components = DefinedComponents(n)' /\ children = DefinedChildren(n)'
  BY <1>2, <1>4, DefinitionsStay
<1> QED BY <1>1, <1>2, <1>3, <1>4, <1>5, <1>6

\* A step that only goes on with the innermost call.
LEMMA ContinueBuilt ==
  ASSUME BuiltInv, FamilyInv', NEW t \in Threads, Running(t), NEW c \in Calls, Continue(t, c),
         UNCHANGED <<definitions, currentEntityId, origin>>, c.id = Top(t).id,
         \A id : id # c.id => /\ Own(id)' = Own(id)
                              /\ OfType(id, {CHILDREN})' = OfType(id, {CHILDREN}),
         CallSound(c)'
  PROVE  BuiltInv'
<1>1. calls \in [Threads -> Seq(Calls)] /\ FramesApart /\ RequestIds /\ FramesSound
  BY DEF BuiltInv, FamilyInv, Typed
<1>2. /\ Depth(t) \in DOMAIN calls[t]
      /\ \A u \in Threads : DOMAIN calls'[u] = DOMAIN calls[u]
      /\ \A u \in Threads : \A i \in DOMAIN calls[u] :
           calls'[u][i] = IF u = t /\ i = Depth(t) THEN c ELSE calls[u][i]
  BY <1>1, ContinueTyped
<1>3. PICK d : d = Depth(t) /\ d \in DOMAIN calls[t] /\ Top(t) = calls[t][d] BY <1>2 DEF Top
<1>4. \A i \in Ids : origin'[i + 1] = origin[i + 1] OBVIOUS
<1>5. CallsSound'
  <2> SUFFICES ASSUME NEW u \in Threads, NEW i \in DOMAIN calls'[u]
               PROVE  \A f : f = calls'[u][i] => CallSound(f)'
    BY DEF CallsSound
  <2>1. CASE u = t /\ i = d BY <1>2, <1>3, <2>1
  <2>2. CASE ~(u = t /\ i = d)
    <3>1. PICK f : f = calls[u][i] OBVIOUS
    <3>2. calls'[u][i] = f /\ i \in DOMAIN calls[u] BY <1>2, <1>3, <2>2, <3>1
    <3>3. CallSound(f) BY <3>1, <3>2 DEF BuiltInv, CallsSound
    <3>4. FrameSound(f) BY <1>1, <3>1, <3>2 DEF FramesSound
    <3>5. f.id # c.id BY <1>1, <1>3, <2>2, <3>1, <3>2 DEF FramesApart
    <3>6. CallSound(f)' BY <1>4, <3>3, <3>4, <3>5, CallStays
    <3> QED BY <3>2, <3>6
  <2> QED BY <2>1, <2>2
<1>6. EntitiesSound'
  <2> SUFFICES ASSUME NEW id \in Ids', \A u \in Threads : \A i \in DOMAIN calls'[u] : calls'[u][i].id # id
               PROVE  AsDefined(id)'
    BY DEF EntitiesSound
  <2>1. id \in Ids BY DEF Ids
  <2>2. ASSUME NEW u \in Threads, NEW i \in DOMAIN calls[u] PROVE calls[u][i].id # id
    <3>1. calls'[u][i].id = calls[u][i].id /\ i \in DOMAIN calls'[u] BY <1>2, <1>3
    <3> QED BY <3>1
  <2>3. AsDefined(id) BY <2>1, <2>2 DEF BuiltInv, EntitiesSound
  <2>4. id # c.id BY <1>3, <2>2
  <2> QED BY <1>1, <1>4, <2>1, <2>3, <2>4, EntityStays
<1> QED BY <1>5, <1>6 DEF BuiltInv

\* The request r, pushed for the entity of the innermost call or for its child.
LEMMA OwnGrows ==
  ASSUME NEW r, creationRequests' = creationRequests \cup {r}
  PROVE  /\ \A id : id # r.id => /\ Own(id)' = Own(id)
                                 /\ OfType(id, {CHILDREN})' = OfType(id, {CHILDREN})
         /\ r.type \in {CHILDREN, PARENT} => Own(r.id)' = Own(r.id)
         /\ r.type \notin {CHILDREN, PARENT} => Own(r.id)' = Own(r.id) \cup {r}
         /\ r.type # CHILDREN => OfType(r.id, {CHILDREN})' = OfType(r.id, {CHILDREN})
         /\ r.type = CHILDREN => OfType(r.id, {CHILDREN})' = OfType(r.id, {CHILDREN}) \cup {r}
BY DEF Own, OfType

\* Where a definition on the chain extends none, the chain ends, and the merge can begin.
LEMMA StackEnds ==
  ASSUME NEW n, NEW chain, IsChain(chain, n), NEW m \in 1 .. Len(chain), ~Defined(chain[m].extend)
  PROVE  /\ m = Len(chain)
         /\ ComponentsMerged(chain[1].components, chain, m)
         /\ ChildrenMerged(chain[1].children, chain, m)
<1>1. chain \in Seq(Catalogue) BY DEF IsChain
<1>2. chain # <<>> BY <1>1
<1>3. m = Len(chain)
  <2> SUFFICES ASSUME m # Len(chain) PROVE FALSE OBVIOUS
  <2>1. m \in 1 .. Len(chain) - 1 BY <1>1
  <2> QED BY <2>1 DEF IsChain
<1> QED BY <1>1, <1>2, <1>3, MergeBegins

LEMMA NoneUndefined == ASSUME Typed PROVE ~Defined(None)
<1>1. ASSUME Defined(None) PROVE Find(None) \in Catalogue /\ Find(None).name = None
  BY <1>1, FindTyped DEF Typed
<1>2. \A d \in Catalogue : d.name # None BY DefinitionTyped, NamesAssumption
<1> QED BY <1>1, <1>2

-----------------------------------------------------------------------------
(* The steps of a call. *)

LEMMA ExtendBuilt ==
  ASSUME BuiltInv, FamilyInv', NEW t \in Threads, Extend(t)
  PROVE  BuiltInv'
<1>0. FamilyInv /\ Typed /\ CallsSound BY DEF BuiltInv, FamilyInv
<1>1. PICK f \in Calls : f = Top(t) /\ f \in Frames /\ FrameSound(f) BY <1>0, TopSound DEF Extend
<1>2. CallSound(f) BY <1>0, <1>1, FramesAre DEF CallsSound
<1>3. f.id \in Ids BY <1>1 DEF FrameSound
<1>4. UNCHANGED <<definitions, currentEntityId, creationRequests, origin>> /\ f.extend # None /\ Running(t)
  BY <1>1 DEF Extend
<1>5. PICK n, chain, components, children, own, family :
        /\ n \in Names /\ n = origin[f.id + 1] /\ own = Own(f.id) /\ family = OfType(f.id, {CHILDREN})
        /\ Defined(n) /\ Defined(n)' /\ IsChain(chain, n) /\ chain # <<>>
        /\ chain = Chain(n) /\ chain = Chain(n)'
        /\ components = DefinedComponents(n) /\ components = DefinedComponents(n)'
        /\ children = DefinedChildren(n) /\ children = DefinedChildren(n)'
        /\ f.extend # None \/ f.stack # <<>> => StackSound(f, chain) /\ own = {}
        /\ f.extend = None /\ f.stack = <<>> =>
             MergeSound(f, components, children, Pairs(own)) /\ KidsSound(f)
        /\ f.children = None => ~f.family
        /\ f.family => \E r \in family : family = {r} /\ r.kids = f.kids
        /\ ~f.family => family = {}
  BY <1>0, <1>2, <1>3, <1>4, CallSays, Zenon
<1>6. StackSound(f, chain) /\ own = {} BY <1>4, <1>5
<1>7. \A id : Own(id)' = Own(id) /\ OfType(id, {CHILDREN})' = OfType(id, {CHILDREN})
  BY <1>4 DEF Own, OfType
<1>8. PICK m \in Nat, l \in Nat : m = Len(f.stack) /\ l = Len(chain) /\ m \in 1 .. l
  BY <1>5, <1>6 DEF StackSound, Calls, IsChain
<1>9. /\ f.next = 1 /\ \A i \in 1 .. m : f.stack[i] = chain[i]
      /\ f.extend = chain[m].extend /\ f.components = chain[1].components /\ f.children = chain[1].children
      /\ f.stack \in Seq(Catalogue)
  BY <1>4, <1>5, <1>8, <1>6 DEF StackSound, Calls
\* What it goes on as.
<1>10. ASSUME NEW c \in Calls, Continue(t, c), c.id = f.id, c.next = f.next, c.components = f.components,
             c.children = f.children, c.family = f.family, c.kids = f.kids,
             NEW k \in 1 .. l, k = Len(c.stack), \A i \in 1 .. k : c.stack[i] = chain[i],
             c.extend # None => c.extend = chain[k].extend,
             c.extend = None => ~Defined(chain[k].extend)
      PROVE  BuiltInv'
  <2>1. c.extend = None => /\ ComponentsMerged(c.components, chain, k)
                           /\ ChildrenMerged(c.children, chain, k)
    BY <1>5, <1>8, <1>9, <1>10, StackEnds
  <2>2. StackSound(c, chain) BY <1>8, <1>9, <1>10, <2>1 DEF StackSound
  <2>3. c.stack # <<>>
    <3>1. Len(c.stack) # 0 BY <1>10
    <3> QED BY <3>1
  <2>4. CallSound(c)'
    <3>1. n = origin'[c.id + 1] /\ own = Own(c.id)' /\ family = OfType(c.id, {CHILDREN})'
      BY <1>4, <1>5, <1>7, <1>10
    <3>2. /\ c.children = None => ~c.family
          /\ c.family => \E r \in family : family = {r} /\ r.kids = c.kids
          /\ ~c.family => family = {}
      BY <1>5, <1>10
    <3> QED BY <1>5, <1>6, <2>2, <2>3, <3>1, <3>2, CallIs
  <2> QED BY <1>1, <1>4, <1>7, <1>10, <2>4, ContinueBuilt
<1>11. CASE Defined(f.extend)
  <2>1. m < l BY <1>5, <1>8, <1>9, <1>11 DEF IsChain
  <2>2. m \in 1 .. l - 1 BY <1>8, <2>1
  <2>3. chain[m + 1] = Find(f.extend) BY <1>5, <1>8, <1>9, <2>2 DEF IsChain
  <2>4. PICK d \in Catalogue : d = Find(f.extend) BY <1>0, <1>11, FindTyped DEF Typed
  <2>5. PICK s \in Seq(Catalogue) : s = Append(f.stack, d)
    <3>1. Append(f.stack, d) \in Seq(Catalogue) BY <1>9
    <3> QED BY <3>1
  <2>6. Len(s) = m + 1 /\ s[m + 1] = d /\ \A i \in 1 .. m : s[i] = f.stack[i] BY <1>8, <1>9, <2>5
  <2>7. PICK c : c = [f EXCEPT !.extend = d.extend, !.stack = s] OBVIOUS
  <2>8. Continue(t, c) BY <1>1, <1>11, <2>4, <2>5, <2>7 DEF Extend
  <2>9. d.extend \in {None} \cup Names BY DefinitionTyped
  <2>10. c \in Calls BY <2>7, <2>9 DEF Calls
  <2>11. /\ c.id = f.id /\ c.kids = f.kids /\ c.components = f.components /\ c.extend = d.extend
         /\ c.children = f.children /\ c.family = f.family /\ c.next = f.next /\ c.stack = s
    BY <2>7 DEF Calls
  <2>12. m + 1 \in 1 .. l /\ chain[m + 1] = d BY <1>8, <2>1, <2>3, <2>4
  <2>13. \A i \in 1 .. m + 1 : c.stack[i] = chain[i]
    <3> SUFFICES ASSUME NEW i \in 1 .. m + 1 PROVE s[i] = chain[i] BY <2>11
    <3>1. CASE i = m + 1 BY <2>6, <2>12, <3>1
    <3>2. CASE i # m + 1
      <4>1. i \in 1 .. m BY <3>2
      <4> QED BY <1>9, <2>6, <4>1
    <3> QED BY <3>1, <3>2
  <2>14. c.extend = None => ~Defined(chain[m + 1].extend) BY <1>0, <2>11, <2>12, NoneUndefined
  <2> QED BY <1>10, <2>6, <2>8, <2>10, <2>11, <2>12, <2>13, <2>14
<1>12. CASE ~Defined(f.extend)
  <2>1. PICK c : c = [f EXCEPT !.extend = None] OBVIOUS
  <2>2. Continue(t, c) BY <1>1, <1>12, <2>1 DEF Extend
  <2>3. c \in Calls BY <2>1 DEF Calls
  <2>4. /\ c.id = f.id /\ c.kids = f.kids /\ c.components = f.components /\ c.extend = None
        /\ c.children = f.children /\ c.family = f.family /\ c.next = f.next /\ c.stack = f.stack
    BY <2>1 DEF Calls
  <2> QED BY <1>8, <1>9, <1>10, <1>12, <2>2, <2>3, <2>4
<1> QED BY <1>11, <1>12

LEMMA MergeBuilt ==
  ASSUME BuiltInv, FamilyInv', NEW t \in Threads, Merge(t)
  PROVE  BuiltInv'
<1>0. FamilyInv /\ Typed /\ CallsSound BY DEF BuiltInv, FamilyInv
<1>1. PICK f \in Calls : f = Top(t) /\ f \in Frames /\ FrameSound(f) BY <1>0, TopSound DEF Merge
<1>2. CallSound(f) BY <1>0, <1>1, FramesAre DEF CallsSound
<1>3. f.id \in Ids BY <1>1 DEF FrameSound
<1>4. /\ UNCHANGED <<definitions, currentEntityId, creationRequests, origin>>
      /\ f.extend = None /\ f.stack # <<>> /\ Running(t)
  BY <1>1 DEF Merge
<1>5. PICK n, chain, components, children, own, family :
        /\ n \in Names /\ n = origin[f.id + 1] /\ own = Own(f.id) /\ family = OfType(f.id, {CHILDREN})
        /\ Defined(n) /\ Defined(n)' /\ IsChain(chain, n) /\ chain # <<>>
        /\ chain = Chain(n) /\ chain = Chain(n)'
        /\ components = DefinedComponents(n) /\ components = DefinedComponents(n)'
        /\ children = DefinedChildren(n) /\ children = DefinedChildren(n)'
        /\ f.extend # None \/ f.stack # <<>> => StackSound(f, chain) /\ own = {}
        /\ f.extend = None /\ f.stack = <<>> =>
             MergeSound(f, components, children, Pairs(own)) /\ KidsSound(f)
        /\ f.children = None => ~f.family
        /\ f.family => \E r \in family : family = {r} /\ r.kids = f.kids
        /\ ~f.family => family = {}
  BY <1>0, <1>2, <1>3, <1>4, CallSays, Zenon
<1>6. StackSound(f, chain) /\ own = {} BY <1>4, <1>5
<1>7. \A id : Own(id)' = Own(id) /\ OfType(id, {CHILDREN})' = OfType(id, {CHILDREN})
  BY <1>4 DEF Own, OfType
<1>8. PICK m \in Nat, l \in Nat : m = Len(f.stack) /\ l = Len(chain) /\ m \in 1 .. l
  BY <1>5, <1>6 DEF StackSound, Calls, IsChain
<1>9. /\ f.next = 1 /\ \A i \in 1 .. m : f.stack[i] = chain[i]
      /\ ComponentsMerged(f.components, chain, m) /\ ChildrenMerged(f.children, chain, m)
      /\ f.stack \in Seq(Catalogue) /\ chain \in Seq(Catalogue)
      /\ f.components \in Components /\ f.children \in {None} \cup Seq(Names)
  BY <1>4, <1>5, <1>8, <1>6 DEF StackSound, Calls, IsChain
<1>10. PICK d \in Catalogue : d = f.stack[m] /\ d = chain[m] BY <1>8, <1>9
<1>11. PICK e, g, s : /\ e = ExtendComponents(f.components, d.components)
                      /\ g = ExtendChildren(f.children, d.children) /\ s = SubSeq(f.stack, 1, m - 1)
  OBVIOUS
<1>12. /\ e \in Components /\ ComponentsMerged(e, chain, m - 1)
       /\ g \in {None} \cup Seq(Names) /\ ChildrenMerged(g, chain, m - 1)
       /\ g = None => f.children = None
  <2>1. m \in 1 .. Len(chain) BY <1>8
  <2>2. d.components \in Components /\ d.children \in {None} \cup Seq(Names) BY DefinitionTyped
  <2>3. e \in Components BY <1>9, <1>11, <2>2, ExtendComponentsTyped
  <2>4. g \in {None} \cup Seq(Names) /\ (g = None => f.children = None)
    BY <1>9, <1>11, <2>2, ExtendChildrenTyped
  <2>5. ComponentsMerged(e, chain, m - 1) BY <1>9, <1>10, <1>11, <2>1, ComponentsMerge
  <2>6. ChildrenMerged(g, chain, m - 1) BY <1>9, <1>10, <1>11, <2>1, ChildrenMerge
  <2> QED BY <2>3, <2>4, <2>5, <2>6
<1>13. s \in Seq(Catalogue) /\ Len(s) = m - 1 /\ \A i \in 1 .. m - 1 : s[i] = chain[i]
  BY <1>8, <1>9, <1>11
<1>14. PICK c : c = [f EXCEPT !.components = e, !.children = g, !.stack = s] OBVIOUS
<1>15. Continue(t, c) BY <1>1, <1>8, <1>10, <1>11, <1>14 DEF Merge
<1>16. c \in Calls BY <1>12, <1>13, <1>14 DEF Calls
<1>17. /\ c.id = f.id /\ c.kids = f.kids /\ c.components = e /\ c.extend = None /\ c.child = f.child
       /\ c.children = g /\ c.family = f.family /\ c.next = f.next /\ c.stack = s
  BY <1>4, <1>14 DEF Calls
<1>18. f.kids = <<>> /\ f.child = None /\ ~f.family BY <1>1, <1>4 DEF FrameSound
<1>19. c.stack # <<>> => StackSound(c, chain)
  <2> SUFFICES ASSUME s # <<>> PROVE StackSound(c, chain) BY <1>17
  <2>1. m - 1 \in 1 .. l BY <1>8, <1>13
  <2> QED BY <1>8, <1>9, <1>12, <1>13, <1>17, <2>1 DEF StackSound
<1>20. c.stack = <<>> => MergeSound(c, components, children, Pairs(own)) /\ KidsSound(c)'
  <2> SUFFICES ASSUME s = <<>> PROVE MergeSound(c, components, children, Pairs(own)) /\ KidsSound(c)'
    BY <1>17
  <2>1. m - 1 = 0 BY <1>13
  <2>2. e = components BY <1>5, <1>9, <1>12, <2>1, ComponentsAsDefined
  <2>3. g = children BY <1>5, <1>9, <1>12, <2>1, ChildrenAsDefined
  <2>4. Pairs(own) = {} /\ Asked(components, DOMAIN components \ DOMAIN c.components) = {}
    BY <1>17, <1>6, <2>2 DEF Pairs, Asked
  <2>5. MergeSound(c, components, children, Pairs(own)) BY <1>17, <2>2, <2>3, <2>4 DEF MergeSound
  <2>6. c.children # None => 1 <= Len(c.children) + 1 BY <1>12, <1>17
  <2>7. c.next = 1 /\ Len(c.kids) = 0 /\ DOMAIN c.kids = {} /\ c.child = None
    BY <1>9, <1>17, <1>18
  <2>8. KidsSound(c)' BY <2>6, <2>7 DEF KidsSound
  <2> QED BY <2>5, <2>8
<1>21. CallSound(c)'
  <2>1. n = origin'[c.id + 1] /\ own = Own(c.id)' /\ family = OfType(c.id, {CHILDREN})'
    BY <1>4, <1>5, <1>7, <1>17
  <2>2. ~c.family /\ family = {} BY <1>5, <1>17, <1>18
  <2> QED BY <1>5, <1>17, <1>19, <1>20, <1>6, <2>1, <2>2, CallIs
<1> QED BY <1>1, <1>4, <1>7, <1>15, <1>16, <1>17, <1>21, ContinueBuilt

\* The steps that follow the merge.  What is left to show of one: how the call goes on.
LEMMA MergedSays ==
  ASSUME BuiltInv, NEW t \in Threads, Merged(t), definitions' = definitions
  PROVE  \E f, n, components, children, own, family :
           /\ f \in Calls /\ f = Top(t) /\ f \in Frames /\ FrameSound(f) /\ f.id \in Ids
           /\ f.extend = None /\ f.stack = <<>>
           /\ n = origin[f.id + 1] /\ own = Own(f.id) /\ family = OfType(f.id, {CHILDREN})
           /\ Defined(n)'
           /\ components = DefinedComponents(n) /\ components = DefinedComponents(n)'
           /\ children = DefinedChildren(n) /\ children = DefinedChildren(n)'
           /\ MergeSound(f, components, children, Pairs(own)) /\ KidsSound(f)
           /\ f.children = None => ~f.family
           /\ f.family => \E r \in family : family = {r} /\ r.kids = f.kids
           /\ ~f.family => family = {}
<1>0. FamilyInv /\ Typed /\ CallsSound BY DEF BuiltInv, FamilyInv
<1>1. PICK f \in Calls : f = Top(t) /\ f \in Frames /\ FrameSound(f) BY <1>0, TopSound DEF Merged
<1>2. CallSound(f) BY <1>0, <1>1, FramesAre DEF CallsSound
<1>3. f.id \in Ids BY <1>1 DEF FrameSound
<1>4. f.extend = None /\ f.stack = <<>> BY <1>1 DEF Merged
<1>5. PICK n, chain, components, children, own, family :
        /\ n \in Names /\ n = origin[f.id + 1] /\ own = Own(f.id) /\ family = OfType(f.id, {CHILDREN})
        /\ Defined(n) /\ Defined(n)' /\ IsChain(chain, n) /\ chain # <<>>
        /\ chain = Chain(n) /\ chain = Chain(n)'
        /\ components = DefinedComponents(n) /\ components = DefinedComponents(n)'
        /\ children = DefinedChildren(n) /\ children = DefinedChildren(n)'
        /\ f.extend # None \/ f.stack # <<>> => StackSound(f, chain) /\ own = {}
        /\ f.extend = None /\ f.stack = <<>> =>
             MergeSound(f, components, children, Pairs(own)) /\ KidsSound(f)
        /\ f.children = None => ~f.family
        /\ f.family => \E r \in family : family = {r} /\ r.kids = f.kids
        /\ ~f.family => family = {}
  BY <1>0, <1>2, <1>3, CallSays, Zenon
<1>6. MergeSound(f, components, children, Pairs(own)) /\ KidsSound(f) BY <1>4, <1>5
<1> QED BY <1>1, <1>3, <1>4, <1>5, <1>6, Zenon

\* The child was created: the list goes on with it.
LEMMA AssignParentBuilt ==
  ASSUME BuiltInv, FamilyInv', NEW t \in Threads, AssignParent(t)
  PROVE  BuiltInv'
<1>1. UNCHANGED <<definitions, currentEntityId, origin>> /\ Merged(t) /\ Running(t)
  BY DEF AssignParent, Merged
<1>2. PICK f, n, components, children, own, family :
           /\ f \in Calls /\ f = Top(t) /\ f \in Frames /\ FrameSound(f) /\ f.id \in Ids
           /\ f.extend = None /\ f.stack = <<>>
           /\ n = origin[f.id + 1] /\ own = Own(f.id) /\ family = OfType(f.id, {CHILDREN})
           /\ Defined(n)'
           /\ components = DefinedComponents(n) /\ components = DefinedComponents(n)'
           /\ children = DefinedChildren(n) /\ children = DefinedChildren(n)'
           /\ MergeSound(f, components, children, Pairs(own)) /\ KidsSound(f)
           /\ f.children = None => ~f.family
           /\ f.family => \E r \in family : family = {r} /\ r.kids = f.kids
           /\ ~f.family => family = {}
  BY <1>1, MergedSays, Zenon
<1>3. f.child # None /\ f.children # None /\ ~f.family
  <2>1. f.child # None BY <1>2 DEF AssignParent
  <2> QED BY <1>2, <2>1 DEF FrameSound
<1>4. PICK g \in Seq(Nat), a \in Nat : g = f.kids /\ a = f.child BY <1>2, <1>3 DEF Calls
<1>5. AddChild(g, a) = Append(g, a)
  <2>1. OfType(a, {PARENT}) = {} /\ \A i \in DOMAIN g : \E q \in OfType(g[i], {PARENT}) : q.parent = f.id
    BY <1>2, <1>3, <1>4 DEF FrameSound
  <2> QED BY <2>1 DEF AddChild
<1>6. PICK k \in Seq(Nat) : k = Append(g, a)
  <2>1. Append(g, a) \in Seq(Nat) OBVIOUS
  <2> QED BY <2>1
<1>7. Len(k) = Len(g) + 1 /\ k[Len(g) + 1] = a /\ \A i \in 1 .. Len(g) : k[i] = g[i] BY <1>6
<1>8. PICK c : c = [f EXCEPT !.kids = k, !.child = None] OBVIOUS
<1>9. c \in Calls BY <1>2, <1>8 DEF Calls
<1>10. /\ c.id = f.id /\ c.kids = k /\ c.child = None /\ c.components = f.components /\ c.next = f.next
       /\ c.extend = f.extend /\ c.stack = f.stack /\ c.children = f.children /\ c.family = f.family
  BY <1>2, <1>8 DEF Calls
<1>11. Continue(t, c)
  <2>1. Continue(t, [f EXCEPT !.kids = AddChild(@, f.child), !.child = None])
    BY <1>2 DEF AssignParent
  <2>2. c = [f EXCEPT !.kids = AddChild(@, f.child), !.child = None] BY <1>4, <1>5, <1>6, <1>8
  <2> QED BY <2>1, <2>2
<1>12. PICK r : /\ r = [id |-> f.child, type |-> PARENT, json |-> <<>>, kids |-> <<>>, parent |-> f.id]
                /\ creationRequests' = creationRequests \cup {r}
  BY <1>2 DEF AssignParent, Request
<1>13. r.type = PARENT /\ r.type # CHILDREN BY <1>12, NamesAssumption
<1>14. \A id : Own(id)' = Own(id) /\ OfType(id, {CHILDREN})' = OfType(id, {CHILDREN})
  BY <1>12, <1>13, OwnGrows
<1>15. KidsSound(c)'
  <2>1. /\ f.next <= Len(f.children) + 1 /\ Len(g) = f.next - 2
        /\ \A i \in DOMAIN g : origin[g[i] + 1] = f.children[i]
        /\ origin[a + 1] = f.children[f.next - 1]
    BY <1>2, <1>3, <1>4 DEF KidsSound
  <2>2. f.next \in Nat BY <1>2 DEF Calls
  <2>3. Len(k) = f.next - 1 /\ Len(g) + 1 = f.next - 1 BY <1>7, <2>1, <2>2
  <2>4. ASSUME NEW i \in DOMAIN k PROVE origin[k[i] + 1] = f.children[i]
    <3>1. CASE i = Len(g) + 1 BY <1>7, <2>1, <2>3, <3>1
    <3>2. CASE i # Len(g) + 1
      <4>1. i \in 1 .. Len(g) /\ i \in DOMAIN g BY <1>7, <3>2
      <4> QED BY <1>7, <2>1, <4>1
    <3> QED BY <3>1, <3>2
  <2> QED BY <1>1, <1>10, <2>1, <2>3, <2>4 DEF KidsSound
<1>16. CallSound(c)'
  <2>1. n = origin'[c.id + 1] /\ own = Own(c.id)' /\ family = OfType(c.id, {CHILDREN})'
    BY <1>1, <1>2, <1>10, <1>14
  <2>2. MergeSound(c, components, children, Pairs(own)) BY <1>2, <1>10 DEF MergeSound
  <2>3. ~c.family /\ family = {} /\ c.extend = None /\ c.stack = <<>> BY <1>2, <1>3, <1>10
  <2>4. PICK chain : chain = Chain(n)' OBVIOUS
  <2> QED BY <1>2, <1>15, <2>1, <2>2, <2>3, <2>4, CallIs
<1> QED BY <1>1, <1>2, <1>9, <1>10, <1>11, <1>14, <1>16, ContinueBuilt

LEMMA AssignChildrenBuilt ==
  ASSUME BuiltInv, FamilyInv', NEW t \in Threads, AssignChildren(t)
  PROVE  BuiltInv'
<1>1. UNCHANGED <<definitions, currentEntityId, origin>> /\ Merged(t) /\ Running(t)
  BY DEF AssignChildren, Merged
<1>2. PICK f, n, components, children, own, family :
           /\ f \in Calls /\ f = Top(t) /\ f \in Frames /\ FrameSound(f) /\ f.id \in Ids
           /\ f.extend = None /\ f.stack = <<>>
           /\ n = origin[f.id + 1] /\ own = Own(f.id) /\ family = OfType(f.id, {CHILDREN})
           /\ Defined(n)'
           /\ components = DefinedComponents(n) /\ components = DefinedComponents(n)'
           /\ children = DefinedChildren(n) /\ children = DefinedChildren(n)'
           /\ MergeSound(f, components, children, Pairs(own)) /\ KidsSound(f)
           /\ f.children = None => ~f.family
           /\ f.family => \E r \in family : family = {r} /\ r.kids = f.kids
           /\ ~f.family => family = {}
  BY <1>1, MergedSays, Zenon
<1>3. f.children # None /\ ~f.family BY <1>2 DEF AssignChildren
<1>4. PICK c : c = [f EXCEPT !.family = TRUE] OBVIOUS
<1>5. c \in Calls BY <1>2, <1>4 DEF Calls
<1>6. /\ c.id = f.id /\ c.kids = f.kids /\ c.child = f.child /\ c.components = f.components /\ c.next = f.next
      /\ c.extend = f.extend /\ c.stack = f.stack /\ c.children = f.children /\ c.family = TRUE
  BY <1>2, <1>4 DEF Calls
<1>7. Continue(t, c) BY <1>2, <1>4 DEF AssignChildren
<1>8. PICK r : /\ r = [id |-> f.id, type |-> CHILDREN, json |-> <<>>, kids |-> f.kids, parent |-> None]
               /\ creationRequests' = creationRequests \cup {r}
  BY <1>2 DEF AssignChildren, Request
<1>9. r.id = f.id /\ r.type = CHILDREN /\ r.kids = f.kids BY <1>8
<1>10. /\ \A id : id # c.id => Own(id)' = Own(id) /\ OfType(id, {CHILDREN})' = OfType(id, {CHILDREN})
       /\ Own(c.id)' = own /\ OfType(c.id, {CHILDREN})' = {r}
  <2>1. /\ \A id : id # r.id => Own(id)' = Own(id) /\ OfType(id, {CHILDREN})' = OfType(id, {CHILDREN})
        /\ Own(r.id)' = Own(r.id) /\ OfType(r.id, {CHILDREN})' = OfType(r.id, {CHILDREN}) \cup {r}
    <3>1. r.type \in {CHILDREN, PARENT} BY <1>9
    <3>2. creationRequests' = creationRequests \cup {r} BY <1>8
    <3>3. /\ \A id : id # r.id => Own(id)' = Own(id) /\ OfType(id, {CHILDREN})' = OfType(id, {CHILDREN})
          /\ r.type \in {CHILDREN, PARENT} => Own(r.id)' = Own(r.id)
          /\ r.type = CHILDREN => OfType(r.id, {CHILDREN})' = OfType(r.id, {CHILDREN}) \cup {r}
      BY <3>2, OwnGrows
    <3> QED BY <1>9, <3>1, <3>3
  <2>2. family = {} BY <1>2, <1>3
  <2>3. r.id = c.id /\ r.id = f.id BY <1>6, <1>9
  <2> QED BY <1>2, <2>1, <2>2, <2>3
<1>11. CallSound(c)'
  <2>1. n = origin'[c.id + 1] BY <1>1, <1>2, <1>6
  <2>2. MergeSound(c, components, children, Pairs(own)) BY <1>2, <1>6 DEF MergeSound
  <2>3. KidsSound(c)' BY <1>1, <1>2, <1>6 DEF KidsSound
  <2>4. c.family /\ c.children # None /\ c.extend = None /\ c.stack = <<>> BY <1>2, <1>3, <1>6
  <2>5. \E q \in {r} : {r} = {q} /\ q.kids = c.kids BY <1>6, <1>9
  <2>6. PICK chain, fam : chain = Chain(n)' /\ fam = {r} OBVIOUS
  <2> QED BY <1>2, <1>10, <2>1, <2>2, <2>3, <2>4, <2>5, <2>6, CallIs
<1> QED BY <1>1, <1>2, <1>5, <1>6, <1>7, <1>10, <1>11, ContinueBuilt

LEMMA AssignComponentBuilt ==
  ASSUME BuiltInv, FamilyInv', NEW t \in Threads, NEW m, AssignComponent(t, m)
  PROVE  BuiltInv'
<1>1. UNCHANGED <<definitions, currentEntityId, origin>> /\ Merged(t) /\ Running(t)
  BY DEF AssignComponent, FamilyDone, Merged
<1>2. PICK f, n, components, children, own, family :
           /\ f \in Calls /\ f = Top(t) /\ f \in Frames /\ FrameSound(f) /\ f.id \in Ids
           /\ f.extend = None /\ f.stack = <<>>
           /\ n = origin[f.id + 1] /\ own = Own(f.id) /\ family = OfType(f.id, {CHILDREN})
           /\ Defined(n)'
           /\ components = DefinedComponents(n) /\ components = DefinedComponents(n)'
           /\ children = DefinedChildren(n) /\ children = DefinedChildren(n)'
           /\ MergeSound(f, components, children, Pairs(own)) /\ KidsSound(f)
           /\ f.children = None => ~f.family
           /\ f.family => \E r \in family : family = {r} /\ r.kids = f.kids
           /\ ~f.family => family = {}
  BY <1>1, MergedSays, Zenon
<1>3. m \in DOMAIN f.components BY <1>2 DEF AssignComponent
<1>4. PICK rest : rest = [x \in DOMAIN f.components \ {m} |-> f.components[x]] OBVIOUS
<1>5. PICK c : c = [f EXCEPT !.components = rest] OBVIOUS
<1>6. c \in Calls
  <2>1. f.components \in Components BY <1>2 DEF Calls
  <2>2. DOMAIN f.components \in SUBSET ComponentNames /\ f.components \in [DOMAIN f.components -> Objects]
    BY <2>1 DEF Components
  <2>3. DOMAIN f.components \ {m} \in SUBSET ComponentNames BY <2>2
  <2>4. rest \in [DOMAIN f.components \ {m} -> Objects] BY <1>4, <2>2
  <2>5. rest \in Components BY <2>3, <2>4 DEF Components
  <2> QED BY <1>2, <1>5, <2>5 DEF Calls
<1>7. /\ c.id = f.id /\ c.kids = f.kids /\ c.child = f.child /\ c.components = rest /\ c.next = f.next
      /\ c.extend = f.extend /\ c.stack = f.stack /\ c.children = f.children /\ c.family = f.family
  BY <1>2, <1>5 DEF Calls
<1>8. Continue(t, c) BY <1>2, <1>4, <1>5 DEF AssignComponent
<1>9. PICK o : o = f.components[m] OBVIOUS
<1>10. PICK r : /\ r = [id |-> f.id, type |-> TypeOf(m, o), json |-> o, kids |-> <<>>, parent |-> None]
                /\ creationRequests' = creationRequests \cup {r}
  BY <1>2, <1>9 DEF AssignComponent, Request
<1>11. r.id = f.id /\ r.type = TypeOf(m, o) /\ r.json = o BY <1>10
<1>12. r.type \notin {CHILDREN, PARENT} BY <1>2, <1>3, <1>9, <1>11 DEF FrameSound, FamilyFree
<1>13. /\ \A id : id # c.id => Own(id)' = Own(id) /\ OfType(id, {CHILDREN})' = OfType(id, {CHILDREN})
       /\ Own(c.id)' = own \cup {r} /\ OfType(c.id, {CHILDREN})' = family
  BY <1>2, <1>7, <1>10, <1>11, <1>12, OwnGrows
<1>14. PICK mine : mine = own \cup {r} OBVIOUS
<1>15. MergeSound(c, components, children, Pairs(mine))
  <2>1. /\ f.children = children
        /\ \A x \in DOMAIN f.components : x \in DOMAIN components /\ f.components[x] = components[x]
        /\ Pairs(own) = Asked(components, DOMAIN components \ DOMAIN f.components)
    BY <1>2 DEF MergeSound
  <2>2. Pairs(mine) = Pairs(own) \cup {<<r.type, r.json>>} BY <1>14 DEF Pairs
  <2>3. <<r.type, r.json>> = <<TypeOf(m, components[m]), components[m]>> BY <1>3, <1>9, <1>11, <2>1
  <2>4. DOMAIN rest = DOMAIN f.components \ {m} /\ \A x \in DOMAIN rest : rest[x] = f.components[x] BY <1>4
  <2>5. DOMAIN components \ DOMAIN rest = (DOMAIN components \ DOMAIN f.components) \cup {m}
    BY <1>3, <2>1, <2>4
  <2>6. Asked(components, (DOMAIN components \ DOMAIN f.components) \cup {m})
          = Asked(components, DOMAIN components \ DOMAIN f.components)
              \cup {<<TypeOf(m, components[m]), components[m]>>}
    BY DEF Asked
  <2>7. Pairs(mine) = Asked(components, DOMAIN components \ DOMAIN rest)
    BY <2>1, <2>2, <2>3, <2>5, <2>6
  <2> QED BY <1>7, <2>1, <2>4, <2>7 DEF MergeSound
<1>16. CallSound(c)'
  <2>1. n = origin'[c.id + 1] /\ mine = Own(c.id)' /\ family = OfType(c.id, {CHILDREN})'
    BY <1>1, <1>2, <1>7, <1>13, <1>14
  <2>2. KidsSound(c)' BY <1>1, <1>2, <1>7 DEF KidsSound
  <2>3. /\ c.children = None => ~c.family
        /\ c.family => \E q \in family : family = {q} /\ q.kids = c.kids
        /\ ~c.family => family = {}
        /\ c.extend = None /\ c.stack = <<>>
    BY <1>2, <1>7
  <2>4. PICK chain : chain = Chain(n)' OBVIOUS
  <2> QED BY <1>2, <1>15, <2>1, <2>2, <2>3, <2>4, CallIs
<1> QED BY <1>1, <1>2, <1>6, <1>7, <1>8, <1>13, <1>16, ContinueBuilt

\* What there is to show of an entity after a step.
LEMMA EntityIs ==
  ASSUME NEW id, NEW n, NEW components, NEW children, NEW family,
         n = origin'[id + 1], components = DefinedComponents(n)', children = DefinedChildren(n)',
         family = OfType(id, {CHILDREN})',
         Pairs(Own(id))' = Asked(components, DOMAIN components),
         children = None => family = {},
         children # None =>
           \E r \in family : family = {r} /\ [i \in DOMAIN r.kids |-> origin'[r.kids[i] + 1]] = children
  PROVE  AsDefined(id)'
BY DEF AsDefined

\* Of an entity without a definition nothing is said.
LEMMA UndefinedSays ==
  ASSUME NEW n \in Names, ~Defined(n), definitions \in Seq(Catalogue)
  PROVE  /\ DefinedChildren(n) = None
         /\ \A components : components = DefinedComponents(n) => Asked(components, DOMAIN components) = {}
<1>1. PICK chain : chain = Chain(n) OBVIOUS
<1>2. chain = <<>> BY <1>1, ChainIs DEF IsChain
<1>3. DOMAIN chain = {} BY <1>2
<1>4. DefinedChildren(n) = None BY <1>1, <1>3 DEF DefinedChildren
<1>5. DOMAIN DefinedComponents(n) = UNION {DOMAIN chain[i].components : i \in DOMAIN chain}
  BY <1>1 DEF DefinedComponents
<1>6. DOMAIN DefinedComponents(n) = {} BY <1>3, <1>5
<1> QED BY <1>4, <1>6 DEF Asked

\* A new call begins with the definition itself.
LEMMA NewCallBuilt ==
  ASSUME Typed, NEW n \in Names, Defined(n), NEW k \in Nat, k = currentEntityId,
         definitions' = definitions, origin' = Append(origin, n),
         Own(k)' = {}, OfType(k, {CHILDREN})' = {}, NEW f, f = NewCall(k, n)
  PROVE  CallSound(f)'
<1>1. origin'[k + 1] = n
  <2>1. PICK s \in Seq(Names) : s = origin /\ Len(s) = k BY DEF Typed
  <2> QED BY <2>1
<1>2. PICK d \in Catalogue : d = Find(n) BY FindTyped DEF Typed
<1>3. /\ f.id = k /\ f.extend = d.extend /\ f.stack = <<d>> /\ f.components = d.components
      /\ f.children = d.children /\ f.next = 1 /\ f.kids = <<>> /\ f.child = None /\ f.family = FALSE
  BY <1>2 DEF NewCall
<1>4. PICK chain, components, children :
        chain = Chain(n) /\ components = DefinedComponents(n) /\ children = DefinedChildren(n)
  OBVIOUS
<1>5. /\ Defined(n)' /\ chain = Chain(n)'
      /\ components = DefinedComponents(n)' /\ children = DefinedChildren(n)'
  BY <1>4, DefinitionsStay
<1>6. IsChain(chain, n) BY <1>4, ChainIs DEF Typed
<1>7. chain \in Seq(Catalogue) /\ chain # <<>> /\ chain[1] = d BY <1>2, <1>6 DEF IsChain
<1>8. 1 \in 1 .. Len(chain) BY <1>7
<1>9. f.extend = None => /\ ComponentsMerged(chain[1].components, chain, 1)
                          /\ ChildrenMerged(chain[1].children, chain, 1)
  BY <1>3, <1>6, <1>7, <1>8, NoneUndefined, StackEnds
<1>10. Len(f.stack) = 1 /\ f.stack[1] = d /\ f.stack # <<>> BY <1>3
<1>11. StackSound(f, chain) BY <1>3, <1>7, <1>8, <1>9, <1>10 DEF StackSound
<1>12. PICK own, family : own = {} /\ family = {} OBVIOUS
<1>13. n = origin'[f.id + 1] /\ own = Own(f.id)' /\ family = OfType(f.id, {CHILDREN})'
  BY <1>1, <1>3, <1>12
<1> QED BY <1>3, <1>5, <1>10, <1>11, <1>12, <1>13, CallIs

\* A step that takes an id, and enters a call if the name is defined.
LEMMA EnterBuilt ==
  ASSUME BuiltInv, FamilyInv', NEW t \in Threads, NEW n \in Names, NEW cs \in Seq(Calls),
         Len(cs) = Len(calls[t]), TakeId(n), UNCHANGED <<definitions, creationRequests>>,
         calls' = [calls EXCEPT ![t] = Enter(cs, n)],
         \A i \in 1 .. Len(cs) : cs[i].id = calls[t][i].id /\ CallSound(cs[i])'
  PROVE  BuiltInv'
<1>0. FamilyInv /\ Typed /\ RequestIds /\ FramesSound BY DEF BuiltInv, FamilyInv
<1>1. PICK e : e = Enter(cs, n) OBVIOUS
<1>2. /\ e \in Seq(Calls) /\ Len(e) = IF Defined(n) THEN Len(cs) + 1 ELSE Len(cs)
      /\ \A i \in 1 .. Len(cs) : e[i] = cs[i]
      /\ Defined(n) => e[Len(cs) + 1] = NewCall(currentEntityId, n)
  BY <1>0, <1>1, EnterTyped
<1>3. calls \in [Threads -> Seq(Calls)] /\ definitions \in Seq(Catalogue) BY <1>0 DEF Typed
<1>4. calls'[t] = e /\ \A u \in Threads \ {t} : calls'[u] = calls[u] BY <1>1, <1>3
<1>5. PICK k \in Nat : k = currentEntityId /\ currentEntityId' = k + 1 BY <1>0 DEF TakeId, Typed
<1>6. Ids = 0 .. k - 1 /\ Ids' = 0 .. k BY <1>5 DEF Ids
<1>7. /\ \A i \in Ids : origin'[i + 1] = origin[i + 1]
      /\ origin'[k + 1] = n /\ origin' = Append(origin, n)
  <2>1. PICK s \in Seq(Names) : s = origin /\ Len(s) = k /\ origin' = Append(s, n)
    BY <1>0, <1>5 DEF TakeId, Typed
  <2>2. \A i \in 0 .. k - 1 : i + 1 \in 1 .. k OBVIOUS
  <2> QED BY <1>6, <2>1, <2>2
<1>8. \A id : Own(id)' = Own(id) /\ OfType(id, {CHILDREN})' = OfType(id, {CHILDREN}) BY DEF Own, OfType
<1>9. Own(k) = {} /\ OfType(k, {CHILDREN}) = {}
  <2>1. \A r \in creationRequests : r.id # k BY <1>0, <1>6 DEF RequestIds
  <2> QED BY <2>1 DEF Own, OfType
<1>10. CallsSound'
  <2> SUFFICES ASSUME NEW u \in Threads, NEW i \in DOMAIN calls'[u]
               PROVE  \A f : f = calls'[u][i] => CallSound(f)'
    BY DEF CallsSound
  <2>1. CASE u # t
    <3>1. PICK f : f = calls[u][i] OBVIOUS
    <3>2. calls'[u][i] = f /\ i \in DOMAIN calls[u] BY <1>4, <2>1, <3>1
    <3>3. CallSound(f) /\ FrameSound(f) BY <1>0, <3>1, <3>2 DEF BuiltInv, CallsSound, FramesSound
    <3>4. CallSound(f)' BY <1>7, <1>8, <3>3, CallStays
    <3> QED BY <3>2, <3>4
  <2>2. CASE u = t
    <3>1. calls'[u] = e /\ i \in 1 .. Len(e) BY <1>2, <1>4, <2>2
    <3>2. CASE i \in 1 .. Len(cs) BY <1>2, <3>1, <3>2
    <3>3. CASE i \notin 1 .. Len(cs)
      <4>1. Defined(n) /\ i = Len(cs) + 1 BY <1>2, <3>1, <3>3
      <4>2. PICK f : f = NewCall(k, n) OBVIOUS
      <4>3. calls'[u][i] = f BY <1>2, <1>5, <3>1, <4>1, <4>2
      <4>4. Own(k)' = {} /\ OfType(k, {CHILDREN})' = {} BY <1>8, <1>9
      <4>5. CallSound(f)' BY <1>0, <1>5, <1>7, <4>1, <4>2, <4>4, NewCallBuilt
      <4> QED BY <4>3, <4>5
    <3> QED BY <3>2, <3>3
  <2> QED BY <2>1, <2>2
<1>11. EntitiesSound'
  <2> SUFFICES ASSUME NEW id \in Ids', \A u \in Threads : \A i \in DOMAIN calls'[u] : calls'[u][i].id # id
               PROVE  AsDefined(id)'
    BY DEF EntitiesSound
  <2>1. CASE id \in Ids
    <3>1. ASSUME NEW u \in Threads, NEW i \in DOMAIN calls[u] PROVE calls[u][i].id # id
      <4>1. CASE u # t BY <1>4, <4>1
      <4>2. CASE u = t
        <5>1. i \in 1 .. Len(cs) BY <1>3, <4>2
        <5>2. i \in DOMAIN e /\ e[i] = cs[i] BY <1>2, <5>1
        <5>3. i \in DOMAIN calls'[t] /\ calls'[t][i].id = calls[u][i].id BY <1>4, <4>2, <5>1, <5>2
        <5> QED BY <5>3
      <4> QED BY <4>1, <4>2
    <3>2. AsDefined(id) BY <2>1, <3>1 DEF BuiltInv, EntitiesSound
    <3> QED BY <1>0, <1>7, <1>8, <2>1, <3>2, EntityStays
  <2>2. CASE id \notin Ids
    <3>1. id = k BY <1>6, <2>2
    <3>2. ~Defined(n)
      <4> SUFFICES ASSUME Defined(n) PROVE FALSE OBVIOUS
      <4>1. Len(cs) + 1 \in DOMAIN e /\ e[Len(cs) + 1].id = k BY <1>2, <1>5 DEF NewCall
      <4> QED BY <1>4, <3>1, <4>1
    <3>3. PICK components, children, family :
            components = DefinedComponents(n) /\ children = DefinedChildren(n) /\ family = {}
      OBVIOUS
    <3>4. components = DefinedComponents(n)' /\ children = DefinedChildren(n)' BY <3>3, DefinitionsStay
    <3>5. children = None /\ Asked(components, DOMAIN components) = {}
      BY <1>3, <3>2, <3>3, UndefinedSays
    <3>6. Own(id)' = {} /\ family = OfType(id, {CHILDREN})' BY <1>8, <1>9, <3>1, <3>3
    <3>7. Pairs(Own(id))' = {} BY <3>6 DEF Pairs
    <3> QED BY <1>7, <3>1, <3>3, <3>4, <3>5, <3>6, <3>7, EntityIs
  <2> QED BY <2>1, <2>2
<1> QED BY <1>10, <1>11 DEF BuiltInv

LEMMA CreateEntityBuilt ==
  ASSUME BuiltInv, FamilyInv', NEW t \in Threads, NEW n \in Names, CreateEntity(t, n)
  PROVE  BuiltInv'
<1>0. <<>> \in Seq(Calls) OBVIOUS
<1>1. PICK cs \in Seq(Calls) : cs = <<>> BY <1>0
<1>2. Len(cs) = Len(calls[t]) /\ 1 .. Len(cs) = {} BY <1>1 DEF CreateEntity
<1>3. calls' = [calls EXCEPT ![t] = Enter(cs, n)] BY <1>1 DEF CreateEntity
<1> QED BY <1>2, <1>3, EnterBuilt DEF CreateEntity

\* The call waits for the child whose name is the next.
LEMMA CreateChildBuilt ==
  ASSUME BuiltInv, FamilyInv', NEW t \in Threads, CreateChild(t)
  PROVE  BuiltInv'
<1>0. FamilyInv /\ Typed /\ RequestIds /\ FramesSound BY DEF BuiltInv, FamilyInv
<1>1. UNCHANGED <<definitions, creationRequests>> /\ Merged(t) /\ Running(t) BY DEF CreateChild, Merged
<1>2. PICK f, n, components, children, own, family :
           /\ f \in Calls /\ f = Top(t) /\ f \in Frames /\ FrameSound(f) /\ f.id \in Ids
           /\ f.extend = None /\ f.stack = <<>>
           /\ n = origin[f.id + 1] /\ own = Own(f.id) /\ family = OfType(f.id, {CHILDREN})
           /\ Defined(n)'
           /\ components = DefinedComponents(n) /\ components = DefinedComponents(n)'
           /\ children = DefinedChildren(n) /\ children = DefinedChildren(n)'
           /\ MergeSound(f, components, children, Pairs(own)) /\ KidsSound(f)
           /\ f.children = None => ~f.family
           /\ f.family => \E r \in family : family = {r} /\ r.kids = f.kids
           /\ ~f.family => family = {}
  BY <1>1, MergedSays, Zenon
<1>3. f.child = None /\ f.children # None /\ f.next <= Len(f.children)
  BY <1>2 DEF CreateChild, HasMoreChildren
<1>4. PICK x \in Nat : x = f.next /\ x # 0 BY <1>2 DEF Calls
<1>5. PICK m \in Names : m = f.children[x]
  <2>1. f.children \in Seq(Names) /\ x \in 1 .. Len(f.children) BY <1>2, <1>3, <1>4 DEF Calls
  <2> QED BY <2>1
<1>6. PICK k \in Nat : k = currentEntityId BY <1>0 DEF Typed
<1>7. PICK w : w = [f EXCEPT !.child = k, !.next = x + 1] OBVIOUS
<1>8. w \in Calls
  <2>1. x + 1 \in Nat \ {0} OBVIOUS
  <2> QED BY <1>2, <1>6, <1>7, <2>1 DEF Calls
<1>9. /\ w.id = f.id /\ w.kids = f.kids /\ w.child = k /\ w.components = f.components /\ w.next = x + 1
      /\ w.extend = f.extend /\ w.stack = f.stack /\ w.children = f.children /\ w.family = f.family
  BY <1>2, <1>7 DEF Calls
<1>10. calls[t] \in Seq(Calls) /\ calls \in [Threads -> Seq(Calls)] BY <1>0 DEF Typed
<1>11. PICK s \in Seq(Calls), d \in Nat : s = calls[t] /\ d = Depth(t) /\ d \in 1 .. Len(s) /\ f = s[d]
  BY <1>1, <1>2, <1>10 DEF Running, Depth, Top
<1>12. PICK cs : cs = [s EXCEPT ![d] = w] OBVIOUS
<1>13. cs \in Seq(Calls) /\ Len(cs) = Len(s) /\ \A i \in 1 .. Len(s) : cs[i] = IF i = d THEN w ELSE s[i]
  BY <1>8, <1>11, <1>12
<1>14. TakeId(m) /\ calls' = [calls EXCEPT ![t] = Enter(cs, m)]
  BY <1>2, <1>4, <1>5, <1>6, <1>7, <1>10, <1>11, <1>12 DEF CreateChild
<1>15. /\ \A i \in Ids : origin'[i + 1] = origin[i + 1]
       /\ origin'[k + 1] = m /\ k # None
  <2>1. PICK o \in Seq(Names) : o = origin /\ Len(o) = k /\ origin' = Append(o, m)
    BY <1>0, <1>6, <1>14 DEF TakeId, Typed
  <2>2. \A i \in 0 .. k - 1 : i + 1 \in 1 .. k OBVIOUS
  <2>3. Ids = 0 .. k - 1 BY <1>6 DEF Ids
  <2> QED BY <2>1, <2>2, <2>3, NamesAssumption
<1>16. \A id : Own(id)' = Own(id) /\ OfType(id, {CHILDREN})' = OfType(id, {CHILDREN})
  BY <1>1 DEF Own, OfType
<1>17. KidsSound(w)'
  <2>1. /\ Len(f.kids) = x - 1 /\ \A i \in DOMAIN f.kids : origin[f.kids[i] + 1] = f.children[i]
    BY <1>2, <1>3, <1>4 DEF KidsSound
  <2>2. \A i \in DOMAIN f.kids : f.kids[i] \in Ids BY <1>2 DEF FrameSound
  <2>3. x + 1 <= Len(f.children) + 1 /\ x - 1 = x + 1 - 2 /\ x + 1 - 1 = x
    <3>1. Len(f.children) \in Nat BY <1>2, <1>3 DEF Calls
    <3> QED BY <1>3, <1>4, <3>1
  <2> QED BY <1>5, <1>9, <1>15, <2>1, <2>2, <2>3 DEF KidsSound
<1>18. CallSound(w)'
  <2>1. n = origin'[w.id + 1] /\ own = Own(w.id)' /\ family = OfType(w.id, {CHILDREN})'
    BY <1>2, <1>9, <1>15, <1>16
  <2>2. MergeSound(w, components, children, Pairs(own)) BY <1>2, <1>9 DEF MergeSound
  <2>3. /\ w.children = None => ~w.family
        /\ w.family => \E q \in family : family = {q} /\ q.kids = w.kids
        /\ ~w.family => family = {}
        /\ w.extend = None /\ w.stack = <<>>
    BY <1>2, <1>9
  <2>4. PICK chain : chain = Chain(n)' OBVIOUS
  <2> QED BY <1>2, <1>17, <2>1, <2>2, <2>3, <2>4, CallIs
<1>19. ASSUME NEW i \in 1 .. Len(cs) PROVE cs[i].id = calls[t][i].id /\ CallSound(cs[i])'
  <2>1. CASE i = d BY <1>9, <1>11, <1>13, <1>18, <2>1
  <2>2. CASE i # d
    <3>1. PICK g : g = s[i] OBVIOUS
    <3>2. cs[i] = g /\ i \in DOMAIN calls[t] /\ g = calls[t][i] BY <1>11, <1>13, <2>2, <3>1
    <3>3. FrameSound(g) /\ CallSound(g) BY <1>0, <3>2 DEF FramesSound, BuiltInv, CallsSound
    <3>4. CallSound(g)' BY <1>1, <1>15, <1>16, <3>3, CallStays
    <3> QED BY <3>2, <3>4
  <2> QED BY <2>1, <2>2
<1>20. Len(cs) = Len(calls[t]) BY <1>11, <1>13
<1> QED BY <1>1, <1>13, <1>14, <1>19, <1>20, EnterBuilt

\* What a call has made when it returns is what the definitions say.
LEMMA ReturnBuilt ==
  ASSUME BuiltInv, FamilyInv', NEW t \in Threads, Return(t)
  PROVE  BuiltInv'
<1>0. FamilyInv /\ Typed /\ RequestIds /\ FramesSound /\ FramesApart BY DEF BuiltInv, FamilyInv
<1>1. /\ UNCHANGED <<definitions, currentEntityId, creationRequests, origin>> /\ Merged(t) /\ Running(t)
      /\ FamilyDone(t)
  BY DEF Return, FamilyDone, Merged
<1>2. PICK f, n, components, children, own, family :
           /\ f \in Calls /\ f = Top(t) /\ f \in Frames /\ FrameSound(f) /\ f.id \in Ids
           /\ f.extend = None /\ f.stack = <<>>
           /\ n = origin[f.id + 1] /\ own = Own(f.id) /\ family = OfType(f.id, {CHILDREN})
           /\ Defined(n)'
           /\ components = DefinedComponents(n) /\ components = DefinedComponents(n)'
           /\ children = DefinedChildren(n) /\ children = DefinedChildren(n)'
           /\ MergeSound(f, components, children, Pairs(own)) /\ KidsSound(f)
           /\ f.children = None => ~f.family
           /\ f.family => \E r \in family : family = {r} /\ r.kids = f.kids
           /\ ~f.family => family = {}
  BY <1>1, MergedSays, Zenon
<1>3. (f.children = None \/ f.family) /\ DOMAIN f.components = {} BY <1>1, <1>2 DEF Return, FamilyDone
<1>4. calls \in [Threads -> Seq(Calls)] BY <1>0 DEF Typed
<1>5. PICK s \in Seq(Calls), d \in Nat : s = calls[t] /\ d = Depth(t) /\ d = Len(s) /\ d \in 1 .. Len(s) /\ f = s[d]
  BY <1>1, <1>2, <1>4 DEF Running, Depth, Top
<1>6. PICK e \in Seq(Calls) : e = SubSeq(s, 1, d - 1)
  <2>1. SubSeq(s, 1, d - 1) \in Seq(Calls) BY <1>5
  <2> QED BY <2>1
<1>7. Len(e) = d - 1 /\ \A i \in 1 .. d - 1 : e[i] = s[i] BY <1>5, <1>6
<1>8. calls' = [calls EXCEPT ![t] = e] BY <1>5, <1>6 DEF Return
<1>9. calls'[t] = e /\ \A u \in Threads \ {t} : calls'[u] = calls[u] BY <1>4, <1>8
<1>10. \A u \in Threads : \A i \in DOMAIN calls[u] :
         (u = t /\ i = d) \/ (i \in DOMAIN calls'[u] /\ calls'[u][i] = calls[u][i])
  <2> SUFFICES ASSUME NEW u \in Threads, NEW i \in DOMAIN calls[u], ~(u = t /\ i = d)
               PROVE  i \in DOMAIN calls'[u] /\ calls'[u][i] = calls[u][i]
    OBVIOUS
  <2>1. CASE u # t BY <1>9, <2>1
  <2>2. CASE u = t
    <3>1. i \in 1 .. d - 1 BY <1>5, <2>2
    <3> QED BY <1>5, <1>7, <1>9, <2>2, <3>1
  <2> QED BY <2>1, <2>2
<1>11. ASSUME NEW u \in Threads, NEW i \in DOMAIN calls'[u]
       PROVE  i \in DOMAIN calls[u] /\ calls'[u][i] = calls[u][i]
  <2>1. CASE u = t
    <3>1. i \in 1 .. d - 1 BY <1>7, <1>9, <2>1
    <3>2. i \in 1 .. Len(s) BY <1>5, <3>1
    <3> QED BY <1>5, <1>7, <1>9, <2>1, <3>1, <3>2
  <2>2. CASE u # t BY <1>9, <2>2
  <2> QED BY <2>1, <2>2
<1>12. \A id : Own(id)' = Own(id) /\ OfType(id, {CHILDREN})' = OfType(id, {CHILDREN})
  BY <1>1 DEF Own, OfType
<1>13. CallsSound'
  <2> SUFFICES ASSUME NEW u \in Threads, NEW i \in DOMAIN calls'[u]
               PROVE  \A g : g = calls'[u][i] => CallSound(g)'
    BY DEF CallsSound
  <2>1. PICK g : g = calls[u][i] OBVIOUS
  <2>2. CallSound(g) /\ FrameSound(g) BY <1>0, <1>11, <2>1 DEF BuiltInv, CallsSound, FramesSound
  <2>3. CallSound(g)' BY <1>1, <1>12, <2>2, CallStays
  <2> QED BY <1>11, <2>1, <2>3
<1>14. AsDefined(f.id)'
  <2>1. /\ f.children = children
        /\ Pairs(own) = Asked(components, DOMAIN components \ DOMAIN f.components)
    BY <1>2 DEF MergeSound
  <2>2. DOMAIN components \ DOMAIN f.components = DOMAIN components BY <1>3
  <2>3. Pairs(Own(f.id))' = Asked(components, DOMAIN components)
    <3>1. own = Own(f.id)' BY <1>2, <1>12
    <3>2. Pairs(own) = Asked(components, DOMAIN components) BY <2>1, <2>2
    <3> QED BY <3>1, <3>2 DEF Pairs
  <2>4. ASSUME children # None
        PROVE  \E r \in family : family = {r} /\ [i \in DOMAIN r.kids |-> origin'[r.kids[i] + 1]] = children
    <3>1. f.family /\ f.children # None BY <1>3, <2>1, <2>4
    <3>2. PICK r \in family : family = {r} /\ r.kids = f.kids BY <1>2, <3>1
    <3>3. PICK g \in Seq(Nat), l \in Seq(Names), x \in Nat : g = f.kids /\ l = f.children /\ x = f.next
      BY <1>2, <3>1 DEF Calls
    <3>4. f.child = None /\ ~(x <= Len(l)) BY <1>2, <3>1, <3>3 DEF FrameSound
    <3>5. x <= Len(l) + 1 /\ Len(g) = x - 1 /\ \A i \in DOMAIN g : origin[g[i] + 1] = l[i]
      BY <1>2, <3>1, <3>3, <3>4 DEF KidsSound
    <3>6. Len(g) = Len(l) BY <3>4, <3>5
    <3>7. l = [i \in 1 .. Len(l) |-> l[i]] /\ DOMAIN g = 1 .. Len(g) OBVIOUS
    <3>8. [i \in DOMAIN g |-> origin'[g[i] + 1]] = l BY <1>1, <3>5, <3>6, <3>7
    <3> QED BY <2>1, <3>2, <3>3, <3>8
  <2>5. children = None => family = {} BY <1>2, <2>1
  <2>6. n = origin'[f.id + 1] /\ family = OfType(f.id, {CHILDREN})' BY <1>1, <1>2, <1>12
  <2>7. components = DefinedComponents(n)' /\ children = DefinedChildren(n)' BY <1>2
  <2> QED BY <2>3, <2>4, <2>5, <2>6, <2>7, EntityIs
<1>15. EntitiesSound'
  <2> SUFFICES ASSUME NEW id \in Ids', \A u \in Threads : \A i \in DOMAIN calls'[u] : calls'[u][i].id # id
               PROVE  AsDefined(id)'
    BY DEF EntitiesSound
  <2>1. CASE id = f.id BY <1>14, <2>1
  <2>2. CASE id # f.id
    <3>1. id \in Ids BY <1>1 DEF Ids
    <3>2. ASSUME NEW u \in Threads, NEW i \in DOMAIN calls[u] PROVE calls[u][i].id # id
      <4>1. CASE u = t /\ i = d BY <1>5, <2>2, <4>1
      <4>2. CASE ~(u = t /\ i = d) BY <1>10, <4>2
      <4> QED BY <4>1, <4>2
    <3>3. AsDefined(id) BY <3>1, <3>2 DEF BuiltInv, EntitiesSound
    <3> QED BY <1>0, <1>1, <1>12, <3>1, <3>3, EntityStays
  <2> QED BY <2>1, <2>2
<1> QED BY <1>13, <1>15 DEF BuiltInv

\* Definitions are added while there is no entity.
LEMMA DefineBuilt ==
  ASSUME BuiltInv, FamilyInv', NEW d, CreateEntityDefinition(d)
  PROVE  BuiltInv'
<1>1. Ids' = {}
  <2>1. currentEntityId' = 0 BY DEF CreateEntityDefinition
  <2> QED BY <2>1 DEF Ids
<1>2. \A t \in Threads : DOMAIN calls'[t] = {}
  <2>1. \A t \in Threads : \A i \in DOMAIN calls'[t] : calls'[t][i].id \in Ids'
    BY DEF FamilyInv, FramesSound, FrameSound
  <2> QED BY <1>1, <2>1
<1> QED BY <1>1, <1>2 DEF BuiltInv, CallsSound, EntitiesSound

LEMMA BuiltInit == NoFamilyByHand /\ Init => BuiltInv
<1> SUFFICES ASSUME NoFamilyByHand, Init PROVE BuiltInv OBVIOUS
<1>1. FamilyInv BY FamilyInit
<1>2. Ids = {} /\ \A t \in Threads : calls[t] = <<>> BY DEF Init, Ids
<1> QED BY <1>1, <1>2 DEF BuiltInv, CallsSound, EntitiesSound

LEMMA BuiltStep == BuiltInv /\ NoFamilyByHand /\ [Next]_vars => BuiltInv'
<1> SUFFICES ASSUME BuiltInv, NoFamilyByHand, [Next]_vars PROVE BuiltInv' OBVIOUS
<1>0. FamilyInv' BY FamilyStep DEF BuiltInv
<1>1. ASSUME NEW d \in Catalogue, CreateEntityDefinition(d) PROVE BuiltInv'
  BY <1>0, <1>1, DefineBuilt
<1>2. ASSUME NEW t \in Threads, NEW n \in Names, CreateEntity(t, n) PROVE BuiltInv'
  BY <1>0, <1>2, CreateEntityBuilt
<1>3. ASSUME NEW t \in Threads, Step(t) PROVE BuiltInv'
  <2>1. CASE Extend(t) BY <1>0, <2>1, ExtendBuilt
  <2>2. CASE Merge(t) BY <1>0, <2>2, MergeBuilt
  <2>3. CASE CreateChild(t) BY <1>0, <2>3, CreateChildBuilt
  <2>4. CASE AssignParent(t) BY <1>0, <2>4, AssignParentBuilt
  <2>5. CASE AssignChildren(t) BY <1>0, <2>5, AssignChildrenBuilt
  <2>6. CASE \E n \in DOMAIN Top(t).components : AssignComponent(t, n)
    BY <1>0, <2>6, AssignComponentBuilt
  <2>7. CASE Return(t) BY <1>0, <2>7, ReturnBuilt
  <2> QED BY <1>3, <2>1, <2>2, <2>3, <2>4, <2>5, <2>6, <2>7 DEF Step
<1>4. CASE UNCHANGED vars
  <2>1. UNCHANGED <<definitions, currentEntityId, creationRequests, calls, origin>> BY <1>4 DEF vars
  <2>2. \A id : Own(id)' = Own(id) /\ OfType(id, {CHILDREN})' = OfType(id, {CHILDREN})
    BY <2>1 DEF Own, OfType
  <2>3. CallsSound'
    <3> SUFFICES ASSUME NEW u \in Threads, NEW i \in DOMAIN calls'[u]
                 PROVE  \A g : g = calls'[u][i] => CallSound(g)'
      BY DEF CallsSound
    <3>1. PICK g : g = calls[u][i] /\ g = calls'[u][i] BY <2>1
    <3>2. CallSound(g) /\ FrameSound(g)
      BY <2>1, <3>1 DEF BuiltInv, CallsSound, FamilyInv, FramesSound
    <3>3. CallSound(g)' BY <2>1, <2>2, <3>2, CallStays
    <3> QED BY <3>1, <3>3
  <2>4. EntitiesSound'
    <3> SUFFICES ASSUME NEW id \in Ids', \A u \in Threads : \A i \in DOMAIN calls'[u] : calls'[u][i].id # id
                 PROVE  AsDefined(id)'
      BY DEF EntitiesSound
    <3>1. id \in Ids BY <2>1 DEF Ids
    <3>2. AsDefined(id) BY <2>1, <3>1 DEF BuiltInv, EntitiesSound
    <3> QED BY <2>1, <2>2, <3>1, <3>2, EntityStays DEF BuiltInv, FamilyInv
  <2> QED BY <1>0, <2>3, <2>4 DEF BuiltInv
<1> QED BY <1>1, <1>2, <1>3, <1>4 DEF Next

\* Whatever threads create entities from whatever definitions: when createEntity() is
\* through with an entity, what it asked for is what the chain of extensions says, the
\* nearest definition winning member by member (createExtensionStack() and the merge), and
\* the children were created from the names in the list, in its order; as long as no
\* definition writes a family component by hand.
THEOREM EntitiesBuilt == NoFamilyByHand => (Spec => []BuiltAsDefined)
<1> SUFFICES ASSUME NoFamilyByHand PROVE Spec => []BuiltAsDefined OBVIOUS
<1>1. Init => BuiltInv BY BuiltInit
<1>2. BuiltInv /\ [Next]_vars => BuiltInv' BY BuiltStep
<1>3. BuiltInv => BuiltAsDefined BY BuiltInvImplies
<1> QED BY <1>1, <1>2, <1>3, PTL DEF Spec
=============================================================================
