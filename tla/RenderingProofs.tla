---------------------------- MODULE RenderingProofs ----------------------------
(***************************************************************************)
(* Proofs about Rendering, for all entities, threads and bounds.           *)
(***************************************************************************)
EXTENDS Rendering, FiniteSetTheorems, TLAPS

Edits == Entities \X {"CREATE", "REMOVE"}
Phases == {"open", "pop", "deliver", "delivered", "reclaim", "lifecycle"}

\* Every variable keeps its type; a transform does not run ahead of its bound.
TypeOK ==
  /\ transform \in [Entities -> Nat]
  /\ changes \in [Entities -> 0 .. MaxChanges]
  /\ announced \in [Entities -> Nat]
  /\ local \in [Threads -> Events \cup {None}]
  /\ entityEvents \in Seq(Events)
  /\ event \in Events \cup {None}
  /\ memory \in [Cells -> Arguments \cup {None}]
  /\ life \in [Cells -> {"raw", "alive", "destroyed"}]
  /\ used \in Nat
  /\ phase \in Phases
  /\ stage \in [Entities -> {"none", "inactive", "active"}]
  /\ renderingEnabled \in [Entities -> BOOLEAN]
  /\ offset \in [Entities -> {0, 1}]
  /\ node \in [Entities -> NodeStates \cup {None}]
  /\ look \in [Entities -> {0, 1}]
  /\ shown \in [Entities -> {0, 1, None}]
  /\ broadcaster \in Seq(Edits)
  /\ scene \in [Entities -> Int]
  /\ offstage \in [Entities -> Nat]

-----------------------------------------------------------------------------
(* Arguments. *)

\* The lists: what a function is about to send, what lies on the stack, and what
\* the loop of distributeEntityEvents() has in its hands.
LocalArguments(t) == IF local[t] = None THEN {} ELSE local[t].arguments
StackArguments(i) == entityEvents[i].arguments
HandArguments == IF event = None THEN {} ELSE event.arguments

\* No cell is in two lists.
ListsDisjoint ==
  /\ \A t, u \in Threads : t # u => LocalArguments(t) \cap LocalArguments(u) = {}
  /\ \A i, j \in DOMAIN entityEvents : i # j => StackArguments(i) \cap StackArguments(j) = {}
  /\ \A t \in Threads, i \in DOMAIN entityEvents : LocalArguments(t) \cap StackArguments(i) = {}
  /\ \A t \in Threads : LocalArguments(t) \cap HandArguments = {}
  /\ \A i \in DOMAIN entityEvents : StackArguments(i) \cap HandArguments = {}

IsListed(c) ==
  \/ \E t \in Threads : c \in LocalArguments(t)
  \/ \E i \in DOMAIN entityEvents : c \in StackArguments(i)
  \/ c \in HandArguments

\* The cells in lists are those that are alive, and the allocator has handed them out.
ListsAlive ==
  \A c \in Cells : /\ life[c] = "alive" <=> IsListed(c)
                   /\ life[c] = "alive" => c <= used

\* Between two events nobody is about to send one; the variable of the loop
\* exists while the loop runs; nothing is left when the memory is reclaimed.
PhaseMatches ==
  /\ phase \in {"pop", "reclaim"} => Quiet
  /\ phase = "reclaim" => entityEvents = <<>>
  /\ event = None <=> phase \notin {"pop", "deliver", "delivered"}

\* The events that a sprite has not seen yet.
OnItsWay(ev) ==
  \/ \E t \in Threads : local[t] = ev /\ ev # None
  \/ \E i \in DOMAIN entityEvents : entityEvents[i] = ev
  \/ phase = "deliver" /\ event = ev

\* An event on its way has its arguments, the position among them.
Whole(ev) ==
  /\ ev \in Events /\ ev.receiver \in Entities
  /\ \A c \in ev.arguments : memory[c] # None
  /\ \E c \in ev.arguments : memory[c].identifier = "position"

ArgumentsInv ==
  /\ TypeOK
  /\ ListsDisjoint
  /\ ListsAlive
  /\ PhaseMatches
  /\ \A ev : OnItsWay(ev) => Whole(ev)

-----------------------------------------------------------------------------
(* Transforms and sprites. *)

\* An event on its way carries the transform of its receiver as it is, and is the
\* only change since the last distribution.
Carries(ev) ==
  /\ changes[ev.receiver] > 0
  /\ \A c \in ev.arguments : memory[c].payload = transform[ev.receiver]

Pending(e) == \E ev \in Events : OnItsWay(ev) /\ ev.receiver = e

\* A sprite shows what was announced to it, or the announcement is on its way.
Follows(e) ==
  /\ announced[e] <= transform[e]
  /\ stage[e] = "none" => announced[e] = 0
  /\ node[e] # None => node[e].offset = offset[e]
  /\ announced[e] # 0 =>
       \/ node[e] # None /\ node[e].version >= announced[e]
       \/ Pending(e)

\* Inductive, for one change of a transform between two distributions.
FollowInv ==
  /\ \A ev : OnItsWay(ev) => Carries(ev)
  /\ \A e \in Entities : Follows(e)

-----------------------------------------------------------------------------
(* The scene graph. *)

\* A node that is in the scene count times is there as often as it should be, up to the
\* calls for a sprite of e that was not active.
Near(count, e) == count \in Due(e) - offstage[e] .. Due(e) + offstage[e]

Edited(s, edit) ==
  [s EXCEPT ![edit[1]] = IF edit[2] = "CREATE" THEN @ + 1 ELSE @ - 1]

-----------------------------------------------------------------------------
(* Types. *)

LEMMA CellsAreNumbers == Cells \subseteq Nat \ {0}
<1>1. Cardinality(Entities) \in Nat BY BoundsAssumption, FS_CardinalityType
<1>2. 3 * MaxChanges * Cardinality(Entities) \in Int BY <1>1, BoundsAssumption
<1> QED BY <1>2 DEF Cells

\* Nothing has happened, and every variable has its type.
LEMMA TypeInit == Init => TypeOK
BY BoundsAssumption DEF Init, TypeOK, Phases, Events, NodeStates

\* Three new cells, which belong to the new event.
LEMMA AnnounceFacts ==
  ASSUME TypeOK, NEW t \in Threads, NEW e \in Entities, SetTransform(t, e, TRUE)
  PROVE  /\ used + 1 .. used + 3 \subseteq Cells
         /\ local' = [local EXCEPT ![t] = [receiver |-> e, arguments |-> used + 1 .. used + 3]]
         /\ local'[t] \in Events /\ local'[t] # None
         /\ \A c \in used + 1 .. used + 3 :
              memory'[c] = [identifier |-> Identifiers[c - used], payload |-> transform[e] + 1]
         /\ \A c \in Cells \ (used + 1 .. used + 3) : memory'[c] = memory[c] /\ life'[c] = life[c]
         /\ \A c \in used + 1 .. used + 3 : life'[c] = "alive"
         /\ \A c \in used + 1 .. used + 3 : memory'[c] \in Arguments
         /\ used' = used + 3
         /\ transform' = [transform EXCEPT ![e] = @ + 1]
         /\ changes' = [changes EXCEPT ![e] = @ + 1] /\ changes[e] < MaxChanges
         /\ announced' = [announced EXCEPT ![e] = IF stage[e] = "none" THEN @ ELSE transform[e] + 1]
         /\ local[t] = None /\ Running
         /\ memory' \in [Cells -> Arguments \cup {None}]
         /\ life' \in [Cells -> {"raw", "alive", "destroyed"}]
         /\ UNCHANGED <<entityEvents, event, phase, spriteVars, sceneVars>>
<1>1. Announce(t, e) /\ transform'[e] = transform[e] + 1
  BY DEF SetTransform, TypeOK
<1>2. {used + 1} \cup {used + 2} \cup {used + 3} = used + 1 .. used + 3
  <2>1. used \in Nat BY DEF TypeOK
  <2>2. \A c : c \in {used + 1} \cup {used + 2} \cup {used + 3} <=> c \in used + 1 .. used + 3 BY <2>1
  <2> QED BY <2>2
<1>3. AddArgument(AddArgument(AddArgument(NewEvent(e), used + 1), used + 2), used + 3)
        = [receiver |-> e, arguments |-> used + 1 .. used + 3]
  <2>1. AddArgument(NewEvent(e), used + 1) = [receiver |-> e, arguments |-> {used + 1}]
    BY DEF AddArgument, NewEvent
  <2>2. \A S, c : AddArgument([receiver |-> e, arguments |-> S], c)
                   = [receiver |-> e, arguments |-> S \cup {c}]
    BY DEF AddArgument
  <2>3. AddArgument(AddArgument(NewEvent(e), used + 1), used + 2)
          = [receiver |-> e, arguments |-> {used + 1} \cup {used + 2}]
    BY <2>1, <2>2, Zenon
  <2>4. AddArgument(AddArgument(AddArgument(NewEvent(e), used + 1), used + 2), used + 3)
          = [receiver |-> e, arguments |-> {used + 1} \cup {used + 2} \cup {used + 3}]
    BY <2>2, <2>3, Zenon
  <2> QED BY <1>2, <2>4, Zenon
<1>4. used + 1 .. used + 3 \subseteq Cells BY <1>1 DEF Announce
<1>5. local' = [local EXCEPT ![t] = [receiver |-> e, arguments |-> used + 1 .. used + 3]]
  BY <1>1, <1>3 DEF Announce
<1>6. local'[t] \in Events BY <1>4, <1>5 DEF TypeOK, Events
<1>7. local'[t] # None BY <1>6, NoneAssumption
<1>8. /\ memory' = [c \in Cells |-> IF c \in used + 1 .. used + 3
                                    THEN [identifier |-> Identifiers[c - used], payload |-> transform[e] + 1]
                                    ELSE memory[c]]
      /\ life' = [c \in Cells |-> IF c \in used + 1 .. used + 3 THEN "alive" ELSE life[c]]
      /\ used' = used + 3
      /\ announced' = [announced EXCEPT ![e] = IF stage[e] = "none" THEN @ ELSE transform[e] + 1]
      /\ UNCHANGED <<entityEvents, event>>
  BY <1>1 DEF Announce, Argument
<1>9. /\ memory' \in [Cells -> Arguments \cup {None}]
      /\ \A c \in used + 1 .. used + 3 : memory'[c] \in Arguments
  <2>1. ASSUME NEW c \in used + 1 .. used + 3
        PROVE  [identifier |-> Identifiers[c - used], payload |-> transform[e] + 1]
                 \in Arguments
    <3>1. used \in Nat /\ transform[e] \in Nat BY DEF TypeOK
    <3>2. c - used \in 1 .. 3 BY <3>1
    <3> QED BY <3>1, <3>2 DEF Arguments
  <2> QED BY <1>4, <1>8, <2>1 DEF TypeOK
<1>10. life' \in [Cells -> {"raw", "alive", "destroyed"}] BY <1>8 DEF TypeOK
<1> QED BY <1>4, <1>5, <1>6, <1>7, <1>8, <1>9, <1>10 DEF SetTransform

\* What the sprites' functions change.
SpriteStep(e) ==
  \/ \E json \in BOOLEAN : CreateSprite(e, json)
  \/ Activate(e)
  \/ Deactivate(e)
  \/ RemoveSprite(e)
  \/ \E state \in BOOLEAN : SetRenderingState(e, state)
  \/ \E o \in {0, 1} : SetOffset(e, o)
  \/ \E v \in {0, 1}, always \in BOOLEAN : SetLook(e, v, always)

LEMMA NextCases ==
  ASSUME Next
  PROVE  \/ Frame
         \/ HandleSceneNodeEdited
         \/ \E t \in Threads : SendEntityEvent(t)
         \/ \E t \in Threads, e \in Entities, b \in BOOLEAN : SetTransform(t, e, b)
         \/ \E e \in Entities : SpriteStep(e)
BY DEF Next, SpriteStep

LEMMA SpriteStepTypes ==
  ASSUME TypeOK, NEW e \in Entities, SpriteStep(e)
  PROVE  TypeOK'
<1> USE DEF TypeOK
<1>0. \A action \in {"CREATE", "REMOVE"} : Broadcast(e, action) => broadcaster' \in Seq(Edits)
  <2>1. <<e, "CREATE">> \in Edits /\ <<e, "REMOVE">> \in Edits BY DEF Edits
  <2>2. \A x \in Edits : Append(broadcaster, x) \in Seq(Edits) OBVIOUS
  <2> QED BY <2>1, <2>2 DEF Broadcast
<1>1. ASSUME NEW json \in BOOLEAN, CreateSprite(e, json) PROVE TypeOK'
  BY <1>1 DEF CreateSprite, transformVars, eventVars, sceneVars
<1>2. CASE Activate(e)
  BY <1>0, <1>2 DEF Activate, transformVars, eventVars
<1>3. CASE Deactivate(e)
  BY <1>0, <1>3 DEF Deactivate, transformVars, eventVars
<1>4. CASE RemoveSprite(e)
  BY <1>4 DEF RemoveSprite, eventVars, sceneVars
<1>5. ASSUME NEW state \in BOOLEAN, SetRenderingState(e, state) PROVE TypeOK'
  BY <1>0, <1>5 DEF SetRenderingState, transformVars, eventVars
<1>6. ASSUME NEW o \in {0, 1}, SetOffset(e, o) PROVE TypeOK'
  BY <1>6 DEF SetOffset, NodeStates, transformVars, eventVars, sceneVars
<1>7. ASSUME NEW v \in {0, 1}, NEW always \in BOOLEAN, SetLook(e, v, always) PROVE TypeOK'
  BY <1>7 DEF SetLook, Show, transformVars, eventVars, sceneVars
<1> QED BY <1>1, <1>2, <1>3, <1>4, <1>5, <1>6, <1>7 DEF SpriteStep

\* Sending an event, and what it leaves behind.
LEMMA SendFacts ==
  ASSUME TypeOK, NEW t \in Threads, SendEntityEvent(t)
  PROVE  /\ local[t] \in Events /\ local[t] # None
         /\ entityEvents' = <<local[t]>> \o entityEvents
         /\ entityEvents' \in Seq(Events) /\ DOMAIN entityEvents' = 1 .. Len(entityEvents) + 1
         /\ entityEvents'[1] = local[t]
         /\ \A i \in DOMAIN entityEvents : i + 1 \in DOMAIN entityEvents' /\ entityEvents'[i + 1] = entityEvents[i]
         /\ \A i \in DOMAIN entityEvents' \ {1} : i - 1 \in DOMAIN entityEvents /\ entityEvents'[i] = entityEvents[i - 1]
         /\ local' = [local EXCEPT ![t] = None]
         /\ UNCHANGED <<transformVars, event, memory, life, used, phase, spriteVars, sceneVars>>
<1>1. local[t] \in Events /\ local[t] # None BY DEF SendEntityEvent, TypeOK
<1>2. DestroyedBy(MovedFrom(local[t])) = {} BY <1>1 DEF DestroyedBy, MovedFrom, Events
<1>3. life' = life BY <1>2 DEF SendEntityEvent, Destroyed, TypeOK
<1>4. entityEvents' = <<local[t]>> \o entityEvents BY DEF SendEntityEvent
<1>5. /\ entityEvents' \in Seq(Events) /\ DOMAIN entityEvents' = 1 .. Len(entityEvents) + 1
      /\ entityEvents'[1] = local[t]
      /\ \A i \in DOMAIN entityEvents : i + 1 \in DOMAIN entityEvents' /\ entityEvents'[i + 1] = entityEvents[i]
      /\ \A i \in DOMAIN entityEvents' \ {1} : i - 1 \in DOMAIN entityEvents /\ entityEvents'[i] = entityEvents[i - 1]
  <2>1. entityEvents \in Seq(Events) BY DEF TypeOK
  <2> QED BY <1>1, <1>4, <2>1
<1> QED BY <1>1, <1>3, <1>4, <1>5 DEF SendEntityEvent

\* Taking an event off the stack destroys the arguments of the one before.
LEMMA PopFacts ==
  ASSUME TypeOK, PhaseMatches, PopEvent
  PROVE  /\ phase = "pop" /\ phase' = "deliver"
         /\ entityEvents # <<>> /\ event' = entityEvents[1] /\ event' \in Events
         /\ entityEvents' = Tail(entityEvents) /\ entityEvents' \in Seq(Events)
         /\ 1 \in DOMAIN entityEvents
         /\ \A i \in DOMAIN entityEvents' : i + 1 \in DOMAIN entityEvents /\ entityEvents'[i] = entityEvents[i + 1]
         /\ \A i \in DOMAIN entityEvents \ {1} : i - 1 \in DOMAIN entityEvents' /\ entityEvents'[i - 1] = entityEvents[i]
         /\ life' = [c \in Cells |-> IF c \in HandArguments THEN "destroyed" ELSE life[c]]
         /\ UNCHANGED <<transformVars, local, memory, used, spriteVars, sceneVars>>
<1>1. entityEvents # <<>> /\ entityEvents[1] \in Events BY DEF PopEvent, TypeOK
<1>2. DestroyedBy(MovedFrom(entityEvents[1])) = {} BY <1>1 DEF DestroyedBy, MovedFrom, Events
<1>3. event # None BY DEF PopEvent, PhaseMatches
<1>4. DestroyedByAssign(event, entityEvents[1]) = HandArguments BY <1>3 DEF DestroyedByAssign, HandArguments
<1>5. entityEvents \in Seq(Events) /\ entityEvents' = Tail(entityEvents) BY DEF TypeOK, PopEvent
<1>6. /\ entityEvents' \in Seq(Events)
      /\ 1 \in DOMAIN entityEvents
      /\ \A i \in DOMAIN entityEvents' : i + 1 \in DOMAIN entityEvents /\ entityEvents'[i] = entityEvents[i + 1]
      /\ \A i \in DOMAIN entityEvents \ {1} : i - 1 \in DOMAIN entityEvents' /\ entityEvents'[i - 1] = entityEvents[i]
  BY <1>1, <1>5
<1> QED BY <1>1, <1>2, <1>4, <1>5, <1>6 DEF PopEvent, Destroyed

\* The receiver gets the position that the event brings.
LEMMA ReceiveFacts ==
  ASSUME ArgumentsInv, ReceiveEntityEvent
  PROVE  /\ phase = "deliver" /\ phase' = "delivered"
         /\ Whole(event) /\ OnItsWay(event)
         /\ \E c \in event.arguments :
              /\ memory[c].payload \in Nat
              /\ node' = IF stage[event.receiver] = "none" THEN node
                         ELSE [node EXCEPT ![event.receiver] =
                                 [offset |-> offset[event.receiver], version |-> memory[c].payload]]
         /\ UNCHANGED <<transformVars, eventVars, stage, renderingEnabled, offset, look, shown, sceneVars>>
<1>1. phase = "deliver" /\ OnItsWay(event) /\ Whole(event)
  BY DEF ReceiveEntityEvent, OnItsWay, ArgumentsInv
<1> DEFINE c == CHOOSE c \in event.arguments : memory[c].identifier = "position"
<1>2. c \in event.arguments BY <1>1 DEF Whole
<1>3. c \in Cells /\ memory[c] # None BY <1>1, <1>2 DEF Whole, Events
<1>4. memory[c].payload \in Nat BY <1>3 DEF ArgumentsInv, TypeOK, Arguments
<1>5. GetArgument(memory, event, "position") = memory[c] BY DEF GetArgument
<1> HIDE DEF c
<1> QED BY <1>1, <1>2, <1>4, <1>5 DEF ReceiveEntityEvent

LEMMA FrameTypes ==
  ASSUME ArgumentsInv, Frame
  PROVE  TypeOK'
<1> USE DEF TypeOK, Phases, ArgumentsInv
<1>1. CASE StartDistribution
  BY <1>1 DEF StartDistribution, NewEvent, Events, transformVars, spriteVars, sceneVars
<1>2. CASE PopEvent
  BY <1>2, PopFacts DEF transformVars, spriteVars, sceneVars
<1>3. CASE ReceiveEntityEvent
  <2> DEFINE e == event.receiver
  <2>1. e \in Entities BY <1>3, ReceiveFacts DEF Whole
  <2>2. PICK v \in Nat : node' = IF stage[e] = "none" THEN node
                                 ELSE [node EXCEPT ![e] = [offset |-> offset[e], version |-> v]]
    BY <1>3, ReceiveFacts
  <2>3. [offset |-> offset[e], version |-> v] \in NodeStates BY <2>1 DEF NodeStates
  <2>4. node' \in [Entities -> NodeStates \cup {None}] BY <2>2, <2>3
  <2> QED BY <1>3, <2>4, ReceiveFacts DEF transformVars, eventVars, sceneVars
<1>4. CASE NextEvent
  BY <1>4 DEF NextEvent, transformVars, eventVars, spriteVars, sceneVars
<1>5. CASE EndScope
  BY <1>5, BoundsAssumption DEF EndScope, Destroyed, spriteVars, sceneVars
<1>6. CASE Reclaim
  BY <1>6 DEF Reclaim, transformVars, spriteVars, sceneVars
<1>7. CASE EndFrame
  BY <1>7 DEF EndFrame, transformVars, eventVars, spriteVars, sceneVars
<1> QED BY <1>1, <1>2, <1>3, <1>4, <1>5, <1>6, <1>7 DEF Frame

LEMMA SetTransformTypes ==
  ASSUME TypeOK, NEW t \in Threads, NEW e \in Entities, NEW b \in BOOLEAN, SetTransform(t, e, b)
  PROVE  TypeOK'
<1>1. /\ transform' = [transform EXCEPT ![e] = @ + 1]
      /\ changes' = [changes EXCEPT ![e] = @ + 1] /\ changes[e] < MaxChanges
      /\ UNCHANGED <<phase, spriteVars, sceneVars>>
  BY DEF SetTransform
<1>2. transform' \in [Entities -> Nat] BY <1>1 DEF TypeOK
<1>3. changes' \in [Entities -> 0 .. MaxChanges]
  <2>1. changes[e] + 1 \in 0 .. MaxChanges BY <1>1, BoundsAssumption DEF TypeOK
  <2> QED BY <1>1, <2>1 DEF TypeOK
<1>4. CASE b = TRUE
  <2>0. /\ local' = [local EXCEPT ![t] = [receiver |-> e, arguments |-> used + 1 .. used + 3]]
        /\ local'[t] \in Events
        /\ used' = used + 3
        /\ announced' = [announced EXCEPT ![e] = IF stage[e] = "none" THEN @ ELSE transform[e] + 1]
        /\ memory' \in [Cells -> Arguments \cup {None}]
        /\ life' \in [Cells -> {"raw", "alive", "destroyed"}]
        /\ UNCHANGED <<entityEvents, event>>
    BY <1>4, AnnounceFacts
  <2>1. local' \in [Threads -> Events \cup {None}] BY <2>0 DEF TypeOK
  <2>2. announced' \in [Entities -> Nat]
    <3>1. transform[e] + 1 \in Nat /\ announced[e] \in Nat BY DEF TypeOK
    <3> QED BY <2>0, <3>1 DEF TypeOK
  <2>3. used' \in Nat BY <2>0 DEF TypeOK
  <2> QED BY <1>1, <1>2, <1>3, <2>0, <2>1, <2>2, <2>3 DEF TypeOK, spriteVars, sceneVars
<1>5. CASE b = FALSE
  BY <1>1, <1>2, <1>3, <1>5 DEF SetTransform, TypeOK, eventVars, spriteVars, sceneVars
<1> QED BY <1>4, <1>5

LEMMA SendTypes ==
  ASSUME TypeOK, NEW t \in Threads, SendEntityEvent(t)
  PROVE  TypeOK'
BY SendFacts DEF TypeOK, transformVars, spriteVars, sceneVars

LEMMA HandleTypes ==
  ASSUME TypeOK, HandleSceneNodeEdited
  PROVE  TypeOK'
<1>1. Head(broadcaster)[1] \in Entities /\ Tail(broadcaster) \in Seq(Edits)
  <2>1. broadcaster \in Seq(Edits) /\ broadcaster # <<>> BY DEF TypeOK, HandleSceneNodeEdited
  <2>2. Head(broadcaster) \in Edits /\ Tail(broadcaster) \in Seq(Edits) BY <2>1
  <2> QED BY <2>2 DEF Edits
<1>2. scene' \in [Entities -> Int]
  <2>1. scene[Head(broadcaster)[1]] \in Int BY <1>1 DEF TypeOK
  <2> QED BY <1>1, <2>1 DEF TypeOK, HandleSceneNodeEdited
<1> QED BY <1>1, <1>2 DEF TypeOK, HandleSceneNodeEdited, transformVars, eventVars, spriteVars

-----------------------------------------------------------------------------
(* Arguments: one lemma per step that moves an event. *)

ArgumentsKept == ListsDisjoint /\ ListsAlive /\ PhaseMatches /\ \A ev : OnItsWay(ev) => Whole(ev)

\* Nothing is sent, received or destroyed.
LEMMA OtherStepKeeps ==
  ASSUME ArgumentsInv, UNCHANGED <<eventVars, phase>>
  PROVE  ArgumentsKept'
BY DEF ArgumentsInv, ArgumentsKept, ListsDisjoint, ListsAlive, PhaseMatches, IsListed, LocalArguments,
       StackArguments, HandArguments, Quiet, OnItsWay, Whole, eventVars

\* The cells of the new event were handed out to nobody before.
LEMMA AnnounceKeeps ==
  ASSUME ArgumentsInv, NEW t \in Threads, NEW e \in Entities, SetTransform(t, e, TRUE)
  PROVE  ArgumentsKept'
<1> DEFINE fresh == used + 1 .. used + 3
<1>1. /\ fresh \subseteq Cells
      /\ local' = [local EXCEPT ![t] = [receiver |-> e, arguments |-> fresh]]
      /\ local'[t] \in Events /\ local'[t] # None
      /\ \A c \in fresh :
              memory'[c] = [identifier |-> Identifiers[c - used], payload |-> transform[e] + 1]
      /\ \A c \in Cells \ fresh : memory'[c] = memory[c] /\ life'[c] = life[c]
      /\ \A c \in fresh : life'[c] = "alive"
      /\ used' = used + 3
      /\ local[t] = None /\ Running
      /\ UNCHANGED <<entityEvents, event, phase>>
  BY AnnounceFacts DEF ArgumentsInv
<1>2. used \in Nat /\ fresh \subseteq Nat /\ Cells \subseteq Nat
      /\ local \in [Threads -> Events \cup {None}] /\ entityEvents \in Seq(Events)
      /\ event \in Events \cup {None}
  BY CellsAreNumbers DEF ArgumentsInv, TypeOK
<1>3. \A c \in fresh : ~IsListed(c) /\ c \in Cells /\ c > used
  <2>1. \A c \in fresh : c > used BY <1>2
  <2>2. \A c \in fresh : c \in Cells /\ ~(c <= used) BY <1>1, <1>2, <2>1
  <2> HIDE DEF fresh
  <2> QED BY <2>1, <2>2 DEF ArgumentsInv, ListsAlive
<1>4. /\ \A u \in Threads \ {t} : LocalArguments(u)' = LocalArguments(u)
      /\ LocalArguments(t)' = fresh /\ LocalArguments(t) = {}
      /\ \A i : StackArguments(i)' = StackArguments(i)
      /\ HandArguments' = HandArguments
  <2> HIDE DEF fresh
  <2> QED BY <1>1, <1>2 DEF LocalArguments, StackArguments, HandArguments
<1>5. ListsDisjoint'
  <2> HIDE DEF fresh
  <2> QED BY <1>1, <1>3, <1>4 DEF ListsDisjoint, ArgumentsInv, IsListed
<1>6. ListsAlive'
  <2>1. ASSUME NEW c \in Cells PROVE IsListed(c)' <=> IsListed(c) \/ c \in fresh
    <3> HIDE DEF fresh
    <3> QED BY <1>1, <1>4 DEF IsListed
  <2>2. \A c \in fresh : c <= used' BY <1>1, <1>2
  <2>3. \A c \in Cells : c <= used => c <= used' BY <1>1, <1>2
  <2> HIDE DEF fresh
  <2> QED BY <1>1, <1>3, <2>1, <2>2, <2>3 DEF ListsAlive, ArgumentsInv
<1>7. PhaseMatches'
  BY <1>1 DEF PhaseMatches, ArgumentsInv, Running, Quiet
<1>8. ASSUME NEW ev, OnItsWay(ev)' PROVE Whole(ev)'
  <2>1. CASE ev = local'[t]
    <3>1. ev.receiver = e /\ ev.arguments = fresh BY <1>1, <1>2, <2>1
    <3>2. used + 1 \in fresh /\ (used + 1) - used = 1 /\ Identifiers[1] = "position"
      BY <1>2 DEF Identifiers
    <3>3. memory'[used + 1].identifier = "position"
      <4>1. memory'[used + 1] = [identifier |-> Identifiers[(used + 1) - used], payload |-> transform[e] + 1]
        BY <1>1, <3>2
      <4> QED BY <3>2, <4>1
    <3>4. \A c \in fresh : memory'[c] # None
      <4>1. \A c \in fresh : memory'[c] \in Arguments BY AnnounceFacts DEF ArgumentsInv
      <4> HIDE DEF fresh
      <4> QED BY <4>1, NoneAssumption
    <3> HIDE DEF fresh
    <3> QED BY <1>1, <2>1, <3>1, <3>2, <3>3, <3>4 DEF Whole
  <2>2. CASE ev # local'[t]
    <3>1. OnItsWay(ev) BY <1>1, <1>2, <1>8, <2>2 DEF OnItsWay
    <3>2. Whole(ev) BY <3>1 DEF ArgumentsInv
    <3>3. \A c \in ev.arguments : c \in Cells \ fresh
      <4>1. \A c \in ev.arguments : IsListed(c) /\ c \in Cells
        BY <3>1, <3>2, <1>2, NoneAssumption
           DEF OnItsWay, Whole, IsListed, Events, LocalArguments, StackArguments, HandArguments
      <4> HIDE DEF fresh
      <4> QED BY <4>1, <1>3
    <3> HIDE DEF fresh
    <3> QED BY <3>2, <3>3, <1>1 DEF Whole
  <2> QED BY <2>1, <2>2
<1> QED BY <1>5, <1>6, <1>7, <1>8 DEF ArgumentsKept

\* The list moves from the function to the stack.
LEMMA SendKeeps ==
  ASSUME ArgumentsInv, NEW t \in Threads, SendEntityEvent(t)
  PROVE  ArgumentsKept'
<1>1. /\ local[t] \in Events /\ local[t] # None
      /\ entityEvents' \in Seq(Events) /\ DOMAIN entityEvents' = 1 .. Len(entityEvents) + 1
      /\ entityEvents'[1] = local[t]
      /\ \A i \in DOMAIN entityEvents : i + 1 \in DOMAIN entityEvents' /\ entityEvents'[i + 1] = entityEvents[i]
      /\ \A i \in DOMAIN entityEvents' \ {1} : i - 1 \in DOMAIN entityEvents /\ entityEvents'[i] = entityEvents[i - 1]
      /\ local' = [local EXCEPT ![t] = None]
      /\ UNCHANGED <<event, memory, life, used, phase>>
  BY SendFacts DEF ArgumentsInv
<1>2. local \in [Threads -> Events \cup {None}] /\ entityEvents \in Seq(Events)
  BY DEF ArgumentsInv, TypeOK
<1>3. /\ \A u \in Threads \ {t} : LocalArguments(u)' = LocalArguments(u)
      /\ LocalArguments(t)' = {} /\ StackArguments(1)' = LocalArguments(t)
      /\ \A i \in DOMAIN entityEvents' \ {1} : i - 1 \in DOMAIN entityEvents /\ StackArguments(i)' = StackArguments(i - 1)
      /\ HandArguments' = HandArguments
  BY <1>1, <1>2 DEF LocalArguments, StackArguments, HandArguments
<1>4. \A c : IsListed(c)' <=> IsListed(c)
  <2>1. ASSUME NEW c, IsListed(c)' PROVE IsListed(c)
    BY <2>1, <1>3 DEF IsListed
  <2>2. ASSUME NEW c, IsListed(c) PROVE IsListed(c)'
    <3>1. CASE \E i \in DOMAIN entityEvents : c \in StackArguments(i)
      BY <3>1, <1>1 DEF IsListed, StackArguments
    <3>2. CASE c \in LocalArguments(t)
      <4>1. 1 \in DOMAIN entityEvents' BY <1>1, <1>2
      <4> QED BY <3>2, <4>1, <1>3 DEF IsListed
    <3> QED BY <2>2, <3>1, <3>2, <1>3 DEF IsListed
  <2> QED BY <2>1, <2>2
<1>5. ListsDisjoint'
  <2>1. \A u, v \in Threads : u # v => (LocalArguments(u) \cap LocalArguments(v))' = {}
    BY <1>3 DEF ArgumentsInv, ListsDisjoint
  <2>2. ASSUME NEW i \in DOMAIN entityEvents', NEW j \in DOMAIN entityEvents', i # j
        PROVE  (StackArguments(i) \cap StackArguments(j))' = {}
    <3>1. CASE i = 1 BY <2>2, <3>1, <1>3 DEF ArgumentsInv, ListsDisjoint
    <3>2. CASE j = 1 BY <2>2, <3>2, <1>3 DEF ArgumentsInv, ListsDisjoint
    <3>3. CASE i # 1 /\ j # 1
      <4>1. i - 1 # j - 1 BY <2>2, <1>1, <1>2
      <4> QED BY <3>3, <4>1, <1>3 DEF ArgumentsInv, ListsDisjoint
    <3> QED BY <3>1, <3>2, <3>3
  <2>3. \A u \in Threads, i \in DOMAIN entityEvents' : (LocalArguments(u) \cap StackArguments(i))' = {}
    BY <1>3 DEF ArgumentsInv, ListsDisjoint
  <2>4. \A u \in Threads : (LocalArguments(u) \cap HandArguments)' = {}
    BY <1>3 DEF ArgumentsInv, ListsDisjoint
  <2>5. \A i \in DOMAIN entityEvents' : (StackArguments(i) \cap HandArguments)' = {}
    BY <1>3 DEF ArgumentsInv, ListsDisjoint
  <2> QED BY <2>1, <2>2, <2>3, <2>4, <2>5 DEF ListsDisjoint
<1>6. ListsAlive' BY <1>1, <1>4 DEF ListsAlive, ArgumentsInv
<1>7. PhaseMatches' BY <1>1 DEF PhaseMatches, ArgumentsInv, Quiet
<1>8. ASSUME NEW ev, OnItsWay(ev)' PROVE Whole(ev)'
  <2>1. OnItsWay(ev) BY <1>1, <1>2, <1>8 DEF OnItsWay
  <2> QED BY <2>1, <1>1 DEF ArgumentsInv, Whole
<1> QED BY <1>5, <1>6, <1>7, <1>8 DEF ArgumentsKept

\* The list moves from the stack into the hands of the loop, and the arguments
\* that were there are destroyed.
LEMMA PopKeeps ==
  ASSUME ArgumentsInv, PopEvent
  PROVE  ArgumentsKept'
<1>1. /\ phase = "pop" /\ phase' = "deliver"
      /\ event' = entityEvents[1] /\ event' \in Events
      /\ 1 \in DOMAIN entityEvents
      /\ \A i \in DOMAIN entityEvents' : i + 1 \in DOMAIN entityEvents /\ entityEvents'[i] = entityEvents[i + 1]
      /\ \A i \in DOMAIN entityEvents \ {1} : i - 1 \in DOMAIN entityEvents' /\ entityEvents'[i - 1] = entityEvents[i]
      /\ life' = [c \in Cells |-> IF c \in HandArguments THEN "destroyed" ELSE life[c]]
      /\ UNCHANGED <<local, memory, used>>
  BY PopFacts DEF ArgumentsInv
<1>2. entityEvents \in Seq(Events) /\ entityEvents' \in Seq(Events)
  BY PopFacts DEF ArgumentsInv, TypeOK
<1>3. /\ \A u \in Threads : LocalArguments(u)' = LocalArguments(u)
      /\ HandArguments' = StackArguments(1)
      /\ \A i \in DOMAIN entityEvents' : StackArguments(i)' = StackArguments(i + 1)
      /\ \A i \in DOMAIN entityEvents \ {1} : StackArguments(i - 1)' = StackArguments(i)
  BY <1>1, NoneAssumption DEF LocalArguments, StackArguments, HandArguments
<1>4. \A c : IsListed(c)' <=> IsListed(c) /\ c \notin HandArguments
  <2>1. ASSUME NEW c, IsListed(c)' PROVE IsListed(c)
    BY <2>1, <1>1, <1>3 DEF IsListed
  <2>2. ASSUME NEW c, IsListed(c)' PROVE c \notin HandArguments
    BY <2>2, <1>1, <1>3 DEF IsListed, ArgumentsInv, ListsDisjoint
  <2>3. ASSUME NEW c, IsListed(c), c \notin HandArguments PROVE IsListed(c)'
    BY <2>3, <1>1, <1>3 DEF IsListed
  <2> QED BY <2>1, <2>2, <2>3
<1>5. ListsDisjoint'
  <2>1. ASSUME NEW i \in DOMAIN entityEvents', NEW j \in DOMAIN entityEvents', i # j
        PROVE  (StackArguments(i) \cap StackArguments(j))' = {}
    <3>1. i + 1 # j + 1 /\ i + 1 \in DOMAIN entityEvents /\ j + 1 \in DOMAIN entityEvents
      BY <1>1, <1>2, <2>1
    <3> QED BY <3>1, <1>3 DEF ArgumentsInv, ListsDisjoint
  <2>2. ASSUME NEW i \in DOMAIN entityEvents' PROVE (StackArguments(i) \cap HandArguments)' = {}
    <3>1. i + 1 # 1 /\ i + 1 \in DOMAIN entityEvents BY <1>1, <1>2
    <3> QED BY <3>1, <1>1, <1>3 DEF ArgumentsInv, ListsDisjoint
  <2> QED BY <2>1, <2>2, <1>1, <1>3 DEF ArgumentsInv, ListsDisjoint
<1>6. ListsAlive' BY <1>1, <1>4 DEF ListsAlive, ArgumentsInv
<1>7. PhaseMatches' BY <1>1, NoneAssumption DEF PhaseMatches, ArgumentsInv
<1>8. ASSUME NEW ev, OnItsWay(ev)' PROVE Whole(ev)'
  <2>1. OnItsWay(ev) BY <1>1, <1>8 DEF OnItsWay
  <2> QED BY <2>1, <1>1 DEF ArgumentsInv, Whole
<1> QED BY <1>5, <1>6, <1>7, <1>8 DEF ArgumentsKept

\* The last event ends with the loop.
LEMMA EndScopeKeeps ==
  ASSUME ArgumentsInv, EndScope
  PROVE  ArgumentsKept'
<1>1. /\ phase = "pop" /\ phase' = "reclaim" /\ entityEvents = <<>> /\ event' = None /\ event # None
      /\ life' = [c \in Cells |-> IF c \in HandArguments THEN "destroyed" ELSE life[c]]
      /\ UNCHANGED <<local, entityEvents, memory, used>>
  BY DEF EndScope, Destroyed, DestroyedBy, HandArguments, ArgumentsInv, PhaseMatches
<1>2. /\ \A u \in Threads : LocalArguments(u)' = LocalArguments(u)
      /\ HandArguments' = {}
      /\ \A i : StackArguments(i)' = StackArguments(i)
  BY <1>1 DEF LocalArguments, StackArguments, HandArguments
<1>3. \A c : IsListed(c)' <=> IsListed(c) /\ c \notin HandArguments
  BY <1>1, <1>2 DEF IsListed, ArgumentsInv, ListsDisjoint
<1>4. ListsDisjoint' BY <1>1, <1>2 DEF ListsDisjoint, ArgumentsInv
<1>5. ListsAlive' BY <1>1, <1>3 DEF ListsAlive, ArgumentsInv
<1>6. PhaseMatches' BY <1>1 DEF PhaseMatches, ArgumentsInv, Quiet
<1>7. ASSUME NEW ev, OnItsWay(ev)' PROVE Whole(ev)'
  <2>1. OnItsWay(ev) BY <1>1, <1>7 DEF OnItsWay
  <2> QED BY <2>1, <1>1 DEF ArgumentsInv, Whole
<1> QED BY <1>4, <1>5, <1>6, <1>7 DEF ArgumentsKept

\* When the memory is taken back there is no event.
LEMMA ReclaimKeeps ==
  ASSUME ArgumentsInv, Reclaim
  PROVE  ArgumentsKept'
<1>1. /\ phase = "reclaim" /\ phase' = "lifecycle" /\ entityEvents = <<>> /\ event = None /\ Quiet
      /\ life' = [c \in Cells |-> "raw"]
      /\ UNCHANGED <<local, entityEvents, event>>
  BY DEF Reclaim, ArgumentsInv, PhaseMatches
<1>2. /\ \A u \in Threads : LocalArguments(u)' = {} /\ LocalArguments(u) = {}
      /\ HandArguments' = {} /\ HandArguments = {}
      /\ DOMAIN entityEvents' = {}
  BY <1>1 DEF LocalArguments, HandArguments, Quiet
<1>3. ListsDisjoint' BY <1>2 DEF ListsDisjoint
<1>4. ListsAlive' BY <1>1, <1>2 DEF ListsAlive, IsListed
<1>5. PhaseMatches' BY <1>1 DEF PhaseMatches
<1>6. \A ev : ~OnItsWay(ev)' BY <1>1, <1>2 DEF OnItsWay, Quiet
<1> QED BY <1>3, <1>4, <1>5, <1>6 DEF ArgumentsKept

\* The steps of the frame that move no event with arguments.
LEMMA PhaseStepKeeps ==
  ASSUME ArgumentsInv, StartDistribution \/ ReceiveEntityEvent \/ NextEvent \/ EndFrame
  PROVE  ArgumentsKept'
<1>1. UNCHANGED <<local, entityEvents, memory, life, used>>
  BY DEF StartDistribution, ReceiveEntityEvent, NextEvent, EndFrame, eventVars
<1>2. HandArguments' = HandArguments
  <2>1. CASE StartDistribution
    BY <2>1 DEF StartDistribution, NewEvent, HandArguments, ArgumentsInv, PhaseMatches
  <2>2. CASE ~StartDistribution
    BY <2>2 DEF ReceiveEntityEvent, NextEvent, EndFrame, eventVars, HandArguments
  <2> QED BY <2>1, <2>2
<1>3. \A c : IsListed(c)' <=> IsListed(c)
  BY <1>1, <1>2 DEF IsListed, LocalArguments, StackArguments
<1>4. ListsDisjoint'
  BY <1>1, <1>2 DEF ListsDisjoint, ArgumentsInv, LocalArguments, StackArguments
<1>5. ListsAlive' BY <1>1, <1>3 DEF ListsAlive, ArgumentsInv
<1>6. PhaseMatches'
  <2>1. NewEvent(None) \in Events BY DEF NewEvent, Events
  <2>2. CASE StartDistribution
    BY <2>1, <2>2, NoneAssumption DEF StartDistribution, PhaseMatches, Quiet
  <2>3. CASE ~StartDistribution
    BY <2>3 DEF ReceiveEntityEvent, NextEvent, EndFrame, eventVars, PhaseMatches, ArgumentsInv, Quiet
  <2> QED BY <2>2, <2>3
<1>7. ASSUME NEW ev, OnItsWay(ev)' PROVE Whole(ev)'
  <2>1. phase' # "deliver" BY DEF StartDistribution, ReceiveEntityEvent, NextEvent, EndFrame
  <2>2. OnItsWay(ev) BY <1>1, <1>7, <2>1 DEF OnItsWay
  <2> QED BY <2>2, <1>1 DEF ArgumentsInv, Whole
<1> QED BY <1>4, <1>5, <1>6, <1>7 DEF ArgumentsKept

-----------------------------------------------------------------------------
(* The first invariant. *)

LEMMA ArgumentsInit == Init => ArgumentsInv
<1> SUFFICES ASSUME Init PROVE ArgumentsInv OBVIOUS
<1>1. TypeOK BY TypeInit
<1> QED BY <1>1 DEF Init, ArgumentsInv, ListsDisjoint, ListsAlive, PhaseMatches, Quiet, OnItsWay, IsListed,
               LocalArguments, StackArguments, HandArguments

LEMMA ArgumentsStep == ArgumentsInv /\ [Next]_vars => ArgumentsInv'
<1> SUFFICES ASSUME ArgumentsInv, [Next]_vars PROVE TypeOK' /\ ArgumentsKept'
  BY DEF ArgumentsInv, ArgumentsKept
<1>t. TypeOK BY DEF ArgumentsInv
<1>1. CASE Frame
  <2>1. TypeOK' BY <1>1, FrameTypes
  <2> QED BY <1>1, <2>1, PopKeeps, EndScopeKeeps, ReclaimKeeps, PhaseStepKeeps DEF Frame
<1>2. CASE HandleSceneNodeEdited
  <2>1. UNCHANGED <<eventVars, phase>> BY <1>2 DEF HandleSceneNodeEdited
  <2> QED BY <1>2, <1>t, <2>1, HandleTypes, OtherStepKeeps
<1>3. ASSUME NEW t \in Threads, SendEntityEvent(t) PROVE TypeOK' /\ ArgumentsKept'
  BY <1>3, <1>t, SendTypes, SendKeeps
<1>4. ASSUME NEW t \in Threads, NEW e \in Entities, NEW b \in BOOLEAN, SetTransform(t, e, b)
      PROVE  TypeOK' /\ ArgumentsKept'
  <2>1. TypeOK' BY <1>4, <1>t, SetTransformTypes
  <2>2. CASE b = TRUE
    <3>1. SetTransform(t, e, TRUE) BY <1>4, <2>2
    <3> QED BY <2>1, <3>1, AnnounceKeeps
  <2>3. CASE b = FALSE
    <3>1. UNCHANGED <<eventVars, phase>> BY <1>4, <2>3 DEF SetTransform
    <3> QED BY <2>1, <3>1, OtherStepKeeps
  <2> QED BY <2>2, <2>3
<1>5. ASSUME NEW e \in Entities, SpriteStep(e) PROVE TypeOK' /\ ArgumentsKept'
  <2>1. UNCHANGED <<eventVars, phase>>
    BY <1>5 DEF SpriteStep, CreateSprite, Activate, Deactivate, RemoveSprite, SetRenderingState, SetOffset, SetLook
  <2> QED BY <1>5, <1>t, <2>1, SpriteStepTypes, OtherStepKeeps
<1>6. CASE UNCHANGED vars
  <2>1. UNCHANGED <<eventVars, phase>> BY <1>6 DEF vars
  <2>2. TypeOK' BY <1>6, <1>t DEF TypeOK, vars, transformVars, eventVars, spriteVars, sceneVars
  <2> QED BY <2>1, <2>2, OtherStepKeeps
<1> QED BY <1>1, <1>2, <1>3, <1>4, <1>5, <1>6, NextCases

LEMMA ArgumentsAlways == Spec => []ArgumentsInv
BY ArgumentsInit, ArgumentsStep, PTL DEF Spec

\* Every variable keeps its type.
THEOREM TypeCorrect == Spec => []TypeOK
<1>1. ArgumentsInv => TypeOK BY DEF ArgumentsInv
<1> QED BY <1>1, ArgumentsAlways, PTL

LEMMA AtMostOne ==
  ASSUME NEW S, \A x, y \in S : x = y
  PROVE  Cardinality(S) = IF S = {} THEN 0 ELSE 1
<1>1. CASE S = {} BY <1>1, FS_EmptySet
<1>2. CASE S # {}
  <2>1. PICK x \in S : TRUE BY <1>2
  <2>2. S = {x} BY <2>1
  <2> QED BY <2>2, FS_Singleton
<1> QED BY <1>1, <1>2

\* However events are created, sent, moved and destroyed, the arguments that are
\* alive are those that one event lists, for any number of threads, entities and
\* changes.
THEOREM ArgumentsSound == Spec => []ArgumentsOwned
<1>1. ArgumentsInv => ArgumentsOwned
  <2> SUFFICES ASSUME ArgumentsInv, NEW c \in Cells
               PROVE  ListedBy(c) = IF life[c] = "alive" THEN 1 ELSE 0
    BY DEF ArgumentsOwned
  <2> DEFINE T == {t \in Locals : c \in local[t].arguments}
             S == {i \in DOMAIN entityEvents : c \in entityEvents[i].arguments}
             h == IF event # None /\ c \in event.arguments THEN 1 ELSE 0
  <2>1. /\ \A t \in T : t \in Threads /\ c \in LocalArguments(t)
        /\ \A i \in S : i \in DOMAIN entityEvents /\ c \in StackArguments(i)
        /\ \A t \in Threads : c \in LocalArguments(t) => t \in T
        /\ \A i \in DOMAIN entityEvents : c \in StackArguments(i) => i \in S
        /\ h = IF c \in HandArguments THEN 1 ELSE 0
    BY DEF Locals, LocalArguments, StackArguments, HandArguments
  <2>2. ListedBy(c) = Cardinality(T) + Cardinality(S) + h BY DEF ListedBy
  <2> HIDE DEF T, S, h
  <2>3. Cardinality(T) = IF T = {} THEN 0 ELSE 1
    <3>1. \A t, u \in T : t = u BY <2>1 DEF ArgumentsInv, ListsDisjoint
    <3> QED BY <3>1, AtMostOne
  <2>4. Cardinality(S) = IF S = {} THEN 0 ELSE 1
    <3>1. \A i, j \in S : i = j BY <2>1 DEF ArgumentsInv, ListsDisjoint
    <3> QED BY <3>1, AtMostOne
  <2>5. /\ T # {} => S = {} /\ c \notin HandArguments
        /\ S # {} => c \notin HandArguments
    BY <2>1 DEF ArgumentsInv, ListsDisjoint
  <2>6. life[c] = "alive" <=> T # {} \/ S # {} \/ c \in HandArguments
    BY <2>1 DEF ArgumentsInv, ListsAlive, IsListed
  <2> QED BY <2>1, <2>2, <2>3, <2>4, <2>5, <2>6
<1> QED BY <1>1, ArgumentsAlways, PTL

-----------------------------------------------------------------------------
(* The scene graph. *)

\* The engine's queue is the path from the scene as it is to the scene as it
\* should be.
Path(path, from, edits, to) ==
  /\ path \in [0 .. Len(edits) -> [Entities -> Int]]
  /\ path[0] = from
  /\ \A i \in 1 .. Len(edits) : path[i] = Edited(path[i - 1], edits[i])
  /\ path[Len(edits)] = to

\* One more edit at the end.
LEMMA PathGrows ==
  ASSUME NEW path, NEW from, NEW edits \in Seq(Edits), NEW to, NEW edit \in Edits,
         Path(path, from, edits, to), Edited(to, edit) \in [Entities -> Int]
  PROVE  \E p : Path(p, from, Append(edits, edit), Edited(to, edit))
<1> DEFINE n == Len(edits)
           p == [i \in 0 .. n + 1 |-> IF i = n + 1 THEN Edited(to, edit) ELSE path[i]]
           more == Append(edits, edit)
<1>1. n \in Nat /\ Len(more) = n + 1 /\ more[n + 1] = edit /\ \A i \in 1 .. n : more[i] = edits[i]
  OBVIOUS
<1>2. path \in [0 .. n -> [Entities -> Int]] /\ path[0] = from /\ path[n] = to
      /\ \A i \in 1 .. n : path[i] = Edited(path[i - 1], edits[i])
  BY DEF Path
<1> HIDE DEF n, more
<1>3. p \in [0 .. n + 1 -> [Entities -> Int]] /\ p[0] = from /\ p[n + 1] = Edited(to, edit)
  BY <1>1, <1>2
<1>4. \A i \in 0 .. n : p[i] = path[i] BY <1>1
<1>5. ASSUME NEW i \in 1 .. n + 1 PROVE p[i] = Edited(p[i - 1], more[i])
  <2>1. CASE i = n + 1 BY <2>1, <1>1, <1>2, <1>3, <1>4
  <2>2. CASE i # n + 1
    <3>1. i \in 1 .. n /\ i \in 0 .. n /\ i - 1 \in 0 .. n BY <2>2, <1>1
    <3> QED BY <3>1, <1>1, <1>2, <1>4
  <2> QED BY <2>1, <2>2
<1> HIDE DEF p
<1>6. Path(p, from, more, Edited(to, edit)) BY <1>1, <1>3, <1>5 DEF Path
<1> QED BY <1>6 DEF more

\* The engine handles the first edit.
LEMMA PathShrinks ==
  ASSUME NEW path, NEW from, NEW edits \in Seq(Edits), NEW to, edits # <<>>,
         Path(path, from, edits, to)
  PROVE  \E p : Path(p, Edited(from, Head(edits)), Tail(edits), to)
<1> DEFINE n == Len(edits)
           p == [i \in 0 .. n - 1 |-> path[i + 1]]
           rest == Tail(edits)
<1>1. n \in Nat \ {0} /\ Len(rest) = n - 1 /\ Head(edits) = edits[1] /\ \A i \in 1 .. n - 1 : rest[i] = edits[i + 1]
  OBVIOUS
<1>2. path \in [0 .. n -> [Entities -> Int]] /\ path[0] = from /\ path[n] = to
      /\ \A i \in 1 .. n : path[i] = Edited(path[i - 1], edits[i])
  BY DEF Path
<1> HIDE DEF n, rest
<1>3. p \in [0 .. n - 1 -> [Entities -> Int]] /\ p[n - 1] = to
  BY <1>1, <1>2
<1>4. p[0] = Edited(from, Head(edits))
  <2>1. p[0] = path[1] BY <1>1
  <2>2. path[1] = Edited(path[0], edits[1]) BY <1>1, <1>2
  <2> QED BY <2>1, <2>2, <1>1, <1>2
<1>5. ASSUME NEW i \in 1 .. n - 1 PROVE p[i] = Edited(p[i - 1], rest[i])
  <2>1. i + 1 \in 1 .. n /\ (i + 1) - 1 = i /\ i \in 0 .. n - 1 /\ i - 1 \in 0 .. n - 1 /\ (i - 1) + 1 = i BY <1>1
  <2>2. p[i] = path[i + 1] /\ p[i - 1] = path[i] BY <2>1
  <2>3. path[i + 1] = Edited(path[i], edits[i + 1]) BY <2>1, <1>2
  <2> QED BY <2>2, <2>3, <1>1
<1> HIDE DEF p
<1>6. Path(p, Edited(from, Head(edits)), rest, to) BY <1>1, <1>3, <1>4, <1>5 DEF Path
<1> QED BY <1>6 DEF rest

\* Inductive: the engine's queue leads to a scene in which every node is as often as it
\* should be, up to the calls for a sprite that was not active.
LeadsNear ==
  \E path, to : /\ to \in [Entities -> Int]
                /\ Path(path, scene, broadcaster, to)
                /\ \A e \in Entities : Near(to[e], e)

SceneInv == TypeOK /\ LookIsShown /\ LeadsNear

\* The count of a node that e's step changes.
Changed(n, action) == IF action = "CREATE" THEN n + 1 ELSE n - 1

\* A sprite goes in or out, and the engine is told.
LEMMA EditLeadsNear ==
  ASSUME SceneInv, NEW e \in Entities, NEW action \in {"CREATE", "REMOVE"},
         Broadcast(e, action), UNCHANGED scene,
         \A n \in Int : Near(n, e) => Near(Changed(n, action), e)',
         \A d \in Entities \ {e} : Due(d)' = Due(d) /\ offstage'[d] = offstage[d]
  PROVE  LeadsNear'
<1> DEFINE edit == <<e, action>>
<1>1. edit \in Edits /\ broadcaster \in Seq(Edits) BY DEF Edits, SceneInv, TypeOK
<1>2. PICK path, to :
        /\ to \in [Entities -> Int]
        /\ Path(path, scene, broadcaster, to)
        /\ \A d \in Entities : Near(to[d], d)
  BY DEF SceneInv, LeadsNear
<1>3. Edited(to, edit) = [to EXCEPT ![e] = Changed(@, action)] BY DEF Edited, Changed
<1>4. Edited(to, edit) \in [Entities -> Int]
  <2>1. to[e] \in Int BY <1>2
  <2>2. Changed(to[e], action) \in Int BY <2>1 DEF Changed
  <2> QED BY <1>2, <1>3, <2>2
<1>5. PICK p : Path(p, scene, Append(broadcaster, edit), Edited(to, edit))
  BY <1>1, <1>2, <1>4, PathGrows
<1>6. broadcaster' = Append(broadcaster, edit) BY DEF Broadcast
<1>7. ASSUME NEW d \in Entities PROVE Near(Edited(to, edit)[d], d)'
  <2>1. CASE d = e
    <3>1. Edited(to, edit)[d] = Changed(to[e], action) BY <1>2, <1>3, <2>1
    <3>2. Near(Changed(to[e], action), e)' BY <1>2
    <3> QED BY <2>1, <3>1, <3>2 DEF Near
  <2>2. CASE d # e
    <3>1. Edited(to, edit)[d] = to[d] /\ Near(to[d], d) BY <1>2, <1>3, <2>2
    <3> QED BY <2>2, <3>1 DEF Near
  <2> QED BY <2>1, <2>2
<1>8. Path(p, scene, broadcaster, Edited(to, edit))' BY <1>5, <1>6 DEF Path
<1> QED BY <1>4, <1>7, <1>8 DEF LeadsNear

\* What is to be seen does not change.
LEMMA StaysNear ==
  ASSUME SceneInv, UNCHANGED <<broadcaster, scene, offstage>>, \A e \in Entities : Due(e)' = Due(e)
  PROVE  LeadsNear'
BY DEF SceneInv, LeadsNear, Near, Path

\* The other sprites stay where they are.
LEMMA OthersStay ==
  ASSUME NEW e \in Entities, NEW d \in Entities \ {e},
         stage'[d] = stage[d] /\ renderingEnabled'[d] = renderingEnabled[d]
  PROVE  Due(d)' = Due(d)
BY DEF Due

\* Activation, deactivation and calls for an active sprite: the node belongs into the
\* scene from now on, or no longer.
LEMMA DueChanges ==
  ASSUME TypeOK, NEW e \in Entities, NEW action \in {"CREATE", "REMOVE"},
         Due(e)' = Changed(Due(e), action), offstage'[e] = offstage[e]
  PROVE  \A n \in Int : Near(n, e) => Near(Changed(n, action), e)'
<1>1. offstage[e] \in Nat /\ Due(e) \in Int BY DEF TypeOK, Due
<1> QED BY <1>1 DEF Near, Changed

\* Calls for a sprite that is not active: what belongs into the scene stays.
LEMMA DueStaysOff ==
  ASSUME TypeOK, NEW e \in Entities, NEW action \in {"CREATE", "REMOVE"},
         Due(e)' = Due(e), offstage'[e] = offstage[e] + 1
  PROVE  \A n \in Int : Near(n, e) => Near(Changed(n, action), e)'
<1>1. offstage[e] \in Nat /\ Due(e) \in Int BY DEF TypeOK, Due
<1> QED BY <1>1 DEF Near, Changed

\* setRenderingState() changes the state of a sprite, and tells the engine.
LEMMA StateChanges ==
  ASSUME SceneInv, NEW e \in Entities, NEW state \in BOOLEAN, SetRenderingState(e, state),
         state # renderingEnabled[e]
  PROVE  LeadsNear'
<1> DEFINE action == IF state THEN "CREATE" ELSE "REMOVE"
<1>1. /\ stage \in [Entities -> {"none", "inactive", "active"}]
      /\ renderingEnabled \in [Entities -> BOOLEAN] /\ offstage \in [Entities -> Nat] /\ TypeOK
  BY DEF SceneInv, TypeOK
<1>2. /\ Broadcast(e, action) /\ UNCHANGED <<scene, stage>>
      /\ offstage' = [offstage EXCEPT ![e] = IF stage[e] = "active" THEN @ ELSE @ + 1]
      /\ renderingEnabled' = [renderingEnabled EXCEPT ![e] = state]
  BY DEF SetRenderingState
<1>3. \A d \in Entities \ {e} : Due(d)' = Due(d) /\ offstage'[d] = offstage[d]
  BY <1>1, <1>2, OthersStay
<1>4. renderingEnabled'[e] = state /\ state = ~renderingEnabled[e] BY <1>1, <1>2
<1>5. \A n \in Int : Near(n, e) => Near(Changed(n, action), e)'
  <2>1. CASE stage[e] = "active"
    <3>1. offstage'[e] = offstage[e] BY <1>1, <1>2, <2>1
    <3>2. Due(e)' = Changed(Due(e), action)
      <4>1. CASE state
        <5>1. Due(e)' = 1 /\ Due(e) = 0 BY <1>2, <1>4, <2>1, <4>1 DEF Due
        <5> QED BY <4>1, <5>1 DEF Changed
      <4>2. CASE ~state
        <5>1. Due(e)' = 0 /\ Due(e) = 1 BY <1>2, <1>4, <2>1, <4>2 DEF Due
        <5> QED BY <4>2, <5>1 DEF Changed
      <4> QED BY <4>1, <4>2
    <3> QED BY <1>1, <3>1, <3>2, DueChanges
  <2>2. CASE stage[e] # "active"
    <3>1. offstage'[e] = offstage[e] + 1 BY <1>1, <1>2, <2>2
    <3>2. Due(e)' = Due(e) BY <1>2, <2>2 DEF Due
    <3> QED BY <1>1, <3>1, <3>2, DueStaysOff
  <2> QED BY <2>1, <2>2
<1> QED BY <1>2, <1>3, <1>5, EditLeadsNear

\* The functions of sprites: whenever a sprite becomes visible or invisible, the
\* engine is told, and otherwise only by the calls that are counted.
LEMMA SpriteStepScene ==
  ASSUME SceneInv, NEW e \in Entities, SpriteStep(e)
  PROVE  LookIsShown' /\ LeadsNear'
<1>t. /\ stage \in [Entities -> {"none", "inactive", "active"}]
      /\ renderingEnabled \in [Entities -> BOOLEAN]
      /\ DOMAIN look = Entities /\ DOMAIN shown = Entities /\ LookIsShown /\ TypeOK
  BY DEF SceneInv, TypeOK
<1>1. ASSUME NEW json \in BOOLEAN, CreateSprite(e, json)
      PROVE  LookIsShown' /\ LeadsNear'
  <2>1. UNCHANGED <<broadcaster, scene, offstage>> /\ \A d \in Entities : Due(d)' = Due(d)
    BY <1>1, <1>t DEF CreateSprite, sceneVars, Due
  <2>2. LookIsShown' BY <1>1, <1>t DEF CreateSprite, LookIsShown
  <2> QED BY <2>1, <2>2, StaysNear
<1>2. CASE Activate(e)
  <2>1. LookIsShown' /\ UNCHANGED <<scene, offstage>> BY <1>2, <1>t DEF Activate, LookIsShown
  <2>2. CASE renderingEnabled[e]
    <3>1. /\ Due(e)' = Changed(Due(e), "CREATE")
          /\ \A d \in Entities \ {e} : Due(d)' = Due(d)
      BY <1>2, <1>t, <2>2 DEF Activate, Due, Changed
    <3>2. \A n \in Int : Near(n, e) => Near(Changed(n, "CREATE"), e)'
      BY <1>t, <2>1, <3>1, DueChanges
    <3> QED BY <1>2, <2>1, <2>2, <3>1, <3>2, EditLeadsNear DEF Activate
  <2>3. CASE ~renderingEnabled[e]
    <3>1. UNCHANGED broadcaster /\ \A d \in Entities : Due(d)' = Due(d)
      BY <1>2, <1>t, <2>3 DEF Activate, Due
    <3> QED BY <2>1, <3>1, StaysNear
  <2> QED BY <2>2, <2>3
<1>3. CASE Deactivate(e)
  <2>1. LookIsShown' /\ UNCHANGED <<scene, offstage>> BY <1>3, <1>t DEF Deactivate, LookIsShown
  <2>2. CASE renderingEnabled[e]
    <3>1. /\ Due(e)' = Changed(Due(e), "REMOVE")
          /\ \A d \in Entities \ {e} : Due(d)' = Due(d)
      BY <1>3, <1>t, <2>2 DEF Deactivate, Due, Changed
    <3>2. \A n \in Int : Near(n, e) => Near(Changed(n, "REMOVE"), e)'
      BY <1>t, <2>1, <3>1, DueChanges
    <3> QED BY <1>3, <2>1, <2>2, <3>1, <3>2, EditLeadsNear DEF Deactivate
  <2>3. CASE ~renderingEnabled[e]
    <3>1. UNCHANGED broadcaster /\ \A d \in Entities : Due(d)' = Due(d)
      BY <1>3, <1>t, <2>3 DEF Deactivate, Due
    <3> QED BY <2>1, <3>1, StaysNear
  <2> QED BY <2>2, <2>3
<1>4. CASE RemoveSprite(e)
  <2>1. UNCHANGED <<broadcaster, scene, offstage>> /\ \A d \in Entities : Due(d)' = Due(d)
    BY <1>4, <1>t DEF RemoveSprite, sceneVars, Due
  <2>2. LookIsShown' BY <1>4, <1>t DEF RemoveSprite, LookIsShown
  <2> QED BY <2>1, <2>2, StaysNear
<1>5. ASSUME NEW state \in BOOLEAN, SetRenderingState(e, state)
      PROVE  LookIsShown' /\ LeadsNear'
  <2>1. LookIsShown' BY <1>5, <1>t DEF SetRenderingState, LookIsShown
  <2>2. CASE state = renderingEnabled[e]
    <3>1. UNCHANGED <<broadcaster, scene, offstage>> /\ \A d \in Entities : Due(d)' = Due(d)
      BY <1>5, <1>t, <2>2 DEF SetRenderingState, Due
    <3> QED BY <2>1, <3>1, StaysNear
  <2>3. CASE state # renderingEnabled[e] BY <1>5, <2>1, <2>3, StateChanges
  <2> QED BY <2>2, <2>3
<1>6. ASSUME NEW o \in {0, 1}, SetOffset(e, o)
      PROVE  LookIsShown' /\ LeadsNear'
  <2>1. UNCHANGED <<broadcaster, scene, offstage>> /\ \A d \in Entities : Due(d)' = Due(d)
    BY <1>6 DEF SetOffset, sceneVars, Due
  <2>2. LookIsShown' BY <1>6, <1>t DEF SetOffset, LookIsShown
  <2> QED BY <2>1, <2>2, StaysNear
<1>7. ASSUME NEW v \in {0, 1}, NEW always \in BOOLEAN, SetLook(e, v, always)
      PROVE  LookIsShown' /\ LeadsNear'
  <2>1. UNCHANGED <<broadcaster, scene, offstage>> /\ \A d \in Entities : Due(d)' = Due(d)
    BY <1>7 DEF SetLook, sceneVars, Due
  <2>2. LookIsShown' BY <1>7, <1>t DEF SetLook, Show, LookIsShown
  <2> QED BY <2>1, <2>2, StaysNear
<1> QED BY <1>1, <1>2, <1>3, <1>4, <1>5, <1>6, <1>7 DEF SpriteStep

LEMMA SceneInit == Init => SceneInv
<1> SUFFICES ASSUME Init PROVE SceneInv OBVIOUS
<1> DEFINE path == [i \in 0 .. 0 |-> scene]
<1>1. Len(broadcaster) = 0 /\ scene \in [Entities -> Int] BY DEF Init
<1>2. path \in [0 .. 0 -> [Entities -> Int]] /\ path[0] = scene BY <1>1
<1> HIDE DEF path
<1>3. Path(path, scene, broadcaster, scene) BY <1>1, <1>2 DEF Path
<1>4. ASSUME NEW e \in Entities PROVE Near(scene[e], e)
  <2>1. scene[e] = 0 /\ Due(e) = 0 /\ offstage[e] = 0 BY DEF Init, Due
  <2> QED BY <2>1 DEF Near
<1>5. LookIsShown BY DEF Init, LookIsShown
<1> QED BY <1>1, <1>3, <1>4, <1>5, TypeInit DEF SceneInv, LeadsNear

LEMMA SceneStep == SceneInv /\ TypeOK' /\ [Next]_vars => SceneInv'
<1> SUFFICES ASSUME SceneInv, [Next]_vars
             PROVE  LookIsShown' /\ LeadsNear'
  BY DEF SceneInv
<1>t. LookIsShown /\ TypeOK BY DEF SceneInv
<1>1. CASE UNCHANGED <<spriteVars, sceneVars>>
  <2>1. UNCHANGED <<broadcaster, scene, offstage>> /\ \A d \in Entities : Due(d)' = Due(d)
    BY <1>1 DEF spriteVars, sceneVars, Due
  <2>2. LookIsShown' BY <1>1, <1>t DEF spriteVars, LookIsShown
  <2> QED BY <2>1, <2>2, StaysNear
<1>2. CASE ReceiveEntityEvent
  <2>1. UNCHANGED <<stage, renderingEnabled, look, shown, broadcaster, scene, offstage>>
    BY <1>2 DEF ReceiveEntityEvent, sceneVars
  <2>2. LookIsShown' /\ \A d \in Entities : Due(d)' = Due(d)
    BY <2>1, <1>t DEF Due, LookIsShown
  <2> QED BY <2>1, <2>2, StaysNear
<1>3. CASE HandleSceneNodeEdited
  <2>1. /\ broadcaster \in Seq(Edits) /\ broadcaster # <<>> /\ Head(broadcaster) \in Edits
        /\ broadcaster' = Tail(broadcaster)
        /\ scene' = Edited(scene, Head(broadcaster))
        /\ UNCHANGED <<spriteVars, offstage>>
    BY <1>3, <1>t DEF HandleSceneNodeEdited, TypeOK, Edited
  <2>2. PICK path, to :
          /\ to \in [Entities -> Int]
          /\ Path(path, scene, broadcaster, to)
          /\ \A d \in Entities : Near(to[d], d)
    BY DEF SceneInv, LeadsNear
  <2>3. PICK p : Path(p, Edited(scene, Head(broadcaster)), Tail(broadcaster), to)
    BY <2>1, <2>2, PathShrinks
  <2>4. LookIsShown' /\ \A d \in Entities : Due(d)' = Due(d) /\ offstage'[d] = offstage[d]
    BY <2>1, <1>t DEF spriteVars, Due, LookIsShown
  <2>5. Path(p, scene', broadcaster', to) BY <2>1, <2>3
  <2>6. \A d \in Entities : Near(to[d], d)' BY <2>2, <2>4 DEF Near
  <2> QED BY <2>2, <2>4, <2>5, <2>6 DEF LeadsNear, Path
<1>4. CASE Frame
  <2>1. ReceiveEntityEvent \/ UNCHANGED <<spriteVars, sceneVars>>
    BY <1>4 DEF Frame, StartDistribution, PopEvent, NextEvent, EndScope, Reclaim, EndFrame
  <2> QED BY <2>1, <1>1, <1>2
<1>5. ASSUME NEW t \in Threads, SendEntityEvent(t) PROVE UNCHANGED <<spriteVars, sceneVars>>
  BY <1>5 DEF SendEntityEvent
<1>6. ASSUME NEW t \in Threads, NEW e \in Entities, NEW b \in BOOLEAN, SetTransform(t, e, b)
      PROVE  UNCHANGED <<spriteVars, sceneVars>>
  BY <1>6 DEF SetTransform
<1>7. CASE UNCHANGED vars
  <2>1. UNCHANGED <<spriteVars, sceneVars>> BY <1>7 DEF vars
  <2> QED BY <2>1, <1>1
<1> QED BY <1>1, <1>3, <1>4, <1>5, <1>6, <1>7, SpriteStepScene, NextCases

\* As soon as the engine has handled its queue a node is in the scene once when its
\* sprite is active and shown, and not at all otherwise, give or take one for each
\* call of setRenderingState() that changed the state of a sprite which was not
\* active; and it looks as the members of the sprite say, once they were handed on.
THEOREM SceneSound == Spec => []SceneConsistent
<1>1. SceneInv => SceneConsistent
  <2> SUFFICES ASSUME SceneInv, broadcaster = <<>>, NEW e \in Entities
               PROVE  Near(scene[e], e)
    BY DEF SceneInv, SceneConsistent, ShownOnce, Near
  <2>1. PICK path, to : Path(path, scene, broadcaster, to) /\ \A d \in Entities : Near(to[d], d)
    BY DEF SceneInv, LeadsNear
  <2>2. scene = to BY <2>1 DEF Path
  <2> QED BY <2>1, <2>2
<1>2. Spec => []SceneInv
  BY SceneInit, SceneStep, TypeCorrect, PTL DEF Spec
<1> QED BY <1>1, <1>2, PTL

-----------------------------------------------------------------------------
(* Sprites follow their transforms. *)

\* Events stay on their way, and nothing that they carry changes.
LEMMA EventsStay ==
  ASSUME ArgumentsInv, FollowInv, UNCHANGED <<transform, changes, memory>>,
         \A ev : OnItsWay(ev)' <=> OnItsWay(ev)
  PROVE  /\ \A ev : OnItsWay(ev)' => Carries(ev)'
         /\ \A e \in Entities : Pending(e)' <=> Pending(e)
BY DEF FollowInv, Carries, Pending, Events

LEMMA AnnounceFollows ==
  ASSUME ArgumentsInv, FollowInv, MaxChanges <= 1,
         NEW t \in Threads, NEW e \in Entities, SetTransform(t, e, TRUE)
  PROVE  FollowInv'
<1> DEFINE fresh == used + 1 .. used + 3
           new == local'[t]
<1>1. /\ local' = [local EXCEPT ![t] = [receiver |-> e, arguments |-> fresh]]
      /\ new \in Events /\ new # None
      /\ \A c \in fresh :
              memory'[c] = [identifier |-> Identifiers[c - used], payload |-> transform[e] + 1]
      /\ \A c \in Cells \ fresh : memory'[c] = memory[c]
      /\ transform' = [transform EXCEPT ![e] = @ + 1]
      /\ changes' = [changes EXCEPT ![e] = @ + 1] /\ changes[e] < MaxChanges
      /\ announced' = [announced EXCEPT ![e] = IF stage[e] = "none" THEN @ ELSE transform[e] + 1]
      /\ local[t] = None
      /\ UNCHANGED <<entityEvents, event, phase, stage, node, offset>>
  BY AnnounceFacts DEF ArgumentsInv, spriteVars
<1>2. /\ transform \in [Entities -> Nat] /\ announced \in [Entities -> Nat]
      /\ changes[e] = 0 /\ changes'[e] = 1
      /\ transform'[e] = transform[e] + 1
      /\ local \in [Threads -> Events \cup {None}] /\ entityEvents \in Seq(Events)
      /\ used \in Nat /\ Cells \subseteq Nat
  <2>1. changes \in [Entities -> 0 .. MaxChanges] BY DEF ArgumentsInv, TypeOK
  <2>2. changes[e] = 0 BY <1>1, <2>1, BoundsAssumption
  <2> QED BY <1>1, <2>1, <2>2, CellsAreNumbers DEF ArgumentsInv, TypeOK
<1>3. new.receiver = e /\ new.arguments = fresh BY <1>1, <1>2
<1>4. \A ev : OnItsWay(ev)' <=> OnItsWay(ev) \/ ev = new
  BY <1>1, <1>2 DEF OnItsWay
<1>5. ASSUME NEW ev, OnItsWay(ev)
      PROVE  /\ ev \in Events /\ ev.receiver \in Entities \ {e}
             /\ ev.arguments \subseteq Cells \ fresh
  <2>1. Whole(ev) /\ Carries(ev) BY <1>5 DEF ArgumentsInv, FollowInv
  <2>2. \A c \in ev.arguments : IsListed(c) /\ c \in Cells
    BY <1>5, <2>1, <1>2, NoneAssumption
       DEF OnItsWay, Whole, IsListed, Events, LocalArguments, StackArguments, HandArguments
  <2>3. \A c \in ev.arguments : c <= used /\ c \in Nat BY <2>2, <1>2 DEF ArgumentsInv, ListsAlive
  <2>4. \A c \in ev.arguments : c \notin fresh BY <2>3, <1>2
  <2>5. ev.receiver # e BY <2>1, <1>2 DEF Carries
  <2> HIDE DEF fresh
  <2> QED BY <2>1, <2>2, <2>4, <2>5 DEF Whole
<1>6. ASSUME NEW ev, OnItsWay(ev)' PROVE Carries(ev)'
  <2>1. CASE ev = new
    <3>0. ASSUME NEW c \in fresh PROVE memory'[c].payload = transform'[e]
      <4>1. memory'[c] = [identifier |-> Identifiers[c - used], payload |-> transform[e] + 1] BY <1>1
      <4> QED BY <4>1, <1>2
    <3> HIDE DEF fresh, new
    <3>1. changes'[ev.receiver] > 0 BY <2>1, <1>2, <1>3
    <3>2. \A c \in ev.arguments : memory'[c].payload = transform'[ev.receiver]
      BY <2>1, <3>0, <1>3
    <3> QED BY <3>1, <3>2 DEF Carries
  <2>2. CASE ev # new
    <3>1. OnItsWay(ev) /\ Carries(ev) BY <1>4, <1>6, <2>2 DEF FollowInv
    <3>2. changes'[ev.receiver] = changes[ev.receiver] /\ transform'[ev.receiver] = transform[ev.receiver]
      BY <1>1, <1>2, <1>5, <3>1 DEF ArgumentsInv, TypeOK
    <3>3. \A c \in ev.arguments : memory'[c] = memory[c] BY <1>1, <1>5, <3>1
    <3> QED BY <3>1, <3>2, <3>3 DEF Carries
  <2> QED BY <2>1, <2>2
<1>7. ASSUME NEW d \in Entities PROVE Follows(d)'
  <2>1. Follows(d) BY DEF FollowInv
  <2>2. Pending(d) => Pending(d)' BY <1>4 DEF Pending
  <2>3. Pending(e)' BY <1>1, <1>3, <1>4 DEF Pending
  <2>4. CASE d # e
    <3>1. announced'[d] = announced[d] /\ transform'[d] = transform[d] BY <1>1, <1>2, <2>4
    <3> QED BY <1>1, <2>1, <2>2, <3>1 DEF Follows
  <2>5. CASE d = e
    <3>1. announced'[e] = IF stage[e] = "none" THEN announced[e] ELSE transform'[e]
      BY <1>1, <1>2
    <3>2. announced[e] <= transform'[e] BY <1>2, <2>1, <2>5 DEF Follows
    <3> QED BY <1>1, <1>2, <2>1, <2>3, <2>5, <3>1, <3>2 DEF Follows
  <2> QED BY <2>4, <2>5
<1> QED BY <1>6, <1>7 DEF FollowInv

LEMMA ChangeFollows ==
  ASSUME ArgumentsInv, FollowInv, MaxChanges <= 1,
         NEW t \in Threads, NEW e \in Entities, SetTransform(t, e, FALSE)
  PROVE  FollowInv'
<1>1. /\ transform' = [transform EXCEPT ![e] = @ + 1]
      /\ changes' = [changes EXCEPT ![e] = @ + 1] /\ changes[e] < MaxChanges
      /\ UNCHANGED <<announced, eventVars, phase, stage, node, offset>>
  BY DEF SetTransform, spriteVars
<1>2. /\ transform \in [Entities -> Nat] /\ announced \in [Entities -> Nat]
      /\ changes[e] = 0
  <2>1. changes \in [Entities -> 0 .. MaxChanges] BY DEF ArgumentsInv, TypeOK
  <2>2. changes[e] = 0 BY <1>1, <2>1, BoundsAssumption
  <2> QED BY <2>2 DEF ArgumentsInv, TypeOK
<1>3. \A ev : OnItsWay(ev)' <=> OnItsWay(ev) BY <1>1 DEF OnItsWay, eventVars
<1>4. ASSUME NEW ev, OnItsWay(ev)' PROVE Carries(ev)'
  <2>1. Carries(ev) /\ Whole(ev) BY <1>3, <1>4 DEF FollowInv, ArgumentsInv
  <2>2. ev.receiver \in Entities /\ ev.receiver # e BY <2>1, <1>2 DEF Carries, Whole
  <2>3. changes'[ev.receiver] = changes[ev.receiver] /\ transform'[ev.receiver] = transform[ev.receiver]
    BY <1>1, <2>2 DEF ArgumentsInv, TypeOK
  <2> QED BY <1>1, <2>1, <2>3 DEF Carries, eventVars
<1>5. ASSUME NEW d \in Entities PROVE Follows(d)'
  <2>1. Follows(d) /\ (Pending(d)' <=> Pending(d)) BY <1>3 DEF FollowInv, Pending, Events
  <2>2. announced[d] <= transform'[d] BY <1>1, <1>2, <2>1 DEF Follows
  <2> QED BY <1>1, <2>1, <2>2 DEF Follows
<1> QED BY <1>4, <1>5 DEF FollowInv

\* A step that moves events, if any, along their way.
LEMMA MoveFollows ==
  ASSUME ArgumentsInv, FollowInv,
         UNCHANGED <<transformVars, memory, stage, offset, node>>,
         \A ev : OnItsWay(ev)' <=> OnItsWay(ev)
  PROVE  FollowInv'
<1>1. UNCHANGED <<transform, changes, announced>> BY DEF transformVars
<1>2. /\ \A ev : OnItsWay(ev)' => Carries(ev)'
      /\ \A e \in Entities : Pending(e)' <=> Pending(e)
  BY <1>1, EventsStay
<1> QED BY <1>1, <1>2 DEF FollowInv, Follows

\* A sprite gets the transform as it is, which is what was announced or later.
LEMMA ReceiveFollows ==
  ASSUME ArgumentsInv, FollowInv, ReceiveEntityEvent
  PROVE  FollowInv'
<1> DEFINE e == event.receiver
<1>1. /\ phase = "deliver" /\ phase' = "delivered"
      /\ Whole(event) /\ OnItsWay(event)
      /\ UNCHANGED <<transform, changes, announced, local, entityEvents, event, memory, stage, offset>>
  BY ReceiveFacts DEF transformVars, eventVars
<1>2. PICK c \in event.arguments :
        /\ memory[c].payload \in Nat
        /\ node' = IF stage[e] = "none" THEN node
                   ELSE [node EXCEPT ![e] = [offset |-> offset[e], version |-> memory[c].payload]]
  BY ReceiveFacts
<1>3. e \in Entities /\ memory[c].payload = transform[e]
  BY <1>1, <1>2 DEF Whole, FollowInv, Carries
<1>4. \A ev : OnItsWay(ev)' => OnItsWay(ev) BY <1>1 DEF OnItsWay
<1>5. \A ev : OnItsWay(ev)' => Carries(ev)' BY <1>1, <1>4 DEF FollowInv, Carries
<1>6. ASSUME NEW d \in Entities PROVE Follows(d)'
  <2>1. Follows(d) BY DEF FollowInv
  <2>2. DOMAIN node = Entities BY DEF ArgumentsInv, TypeOK
  <2>3. CASE d = e /\ stage[e] # "none"
    <3>1. node'[e] = [offset |-> offset[e], version |-> transform[e]] BY <1>2, <1>3, <2>2, <2>3
    <3>2. node'[e] # None
      <4>1. node'[e] \in NodeStates BY <3>1, <1>2, <1>3 DEF NodeStates, ArgumentsInv, TypeOK
      <4> QED BY <4>1, NoneAssumption
    <3>3. node'[e].offset = offset[e] /\ node'[e].version = transform[e] BY <3>1
    <3> QED BY <1>1, <2>1, <2>3, <3>2, <3>3 DEF Follows
  <2>4. CASE d = e /\ stage[e] = "none"
    <3>1. node' = node BY <1>2, <2>4
    <3> QED BY <1>1, <2>1, <2>4, <3>1 DEF Follows
  <2>5. CASE d # e
    <3>1. node'[d] = node[d] BY <1>2, <2>5
    <3>2. Pending(d) => Pending(d)' BY <1>1, <2>5 DEF Pending, OnItsWay
    <3> QED BY <1>1, <2>1, <3>1, <3>2 DEF Follows
  <2> QED BY <2>3, <2>4, <2>5
<1> QED BY <1>5, <1>6 DEF FollowInv

\* At the end of the loop no event is on its way.
LEMMA EndScopeFollows ==
  ASSUME ArgumentsInv, FollowInv, EndScope
  PROVE  FollowInv'
<1>1. /\ phase = "pop" /\ phase' = "reclaim" /\ entityEvents = <<>> /\ Quiet
      /\ UNCHANGED <<transform, announced, local, entityEvents, stage, offset, node>>
  BY DEF EndScope, ArgumentsInv, PhaseMatches, spriteVars
<1>2. \A ev : ~OnItsWay(ev) /\ ~OnItsWay(ev)' BY <1>1 DEF OnItsWay, Quiet
<1> QED BY <1>1, <1>2 DEF FollowInv, Follows, Pending

LEMMA ReclaimFollows ==
  ASSUME ArgumentsInv, FollowInv, Reclaim
  PROVE  FollowInv'
<1>1. /\ phase = "reclaim" /\ phase' = "lifecycle" /\ entityEvents = <<>> /\ Quiet
      /\ UNCHANGED <<transform, announced, local, entityEvents, stage, offset, node>>
  BY DEF Reclaim, ArgumentsInv, PhaseMatches, spriteVars, transformVars
<1>2. \A ev : ~OnItsWay(ev) /\ ~OnItsWay(ev)' BY <1>1 DEF OnItsWay, Quiet
<1> QED BY <1>1, <1>2 DEF FollowInv, Follows, Pending

LEMMA SpriteStepFollows ==
  ASSUME ArgumentsInv, FollowInv, NEW e \in Entities, SpriteStep(e)
  PROVE  FollowInv'
<1>1. UNCHANGED <<transform, changes, eventVars, phase>>
  BY DEF SpriteStep, CreateSprite, Activate, Deactivate, RemoveSprite, SetRenderingState, SetOffset, SetLook,
         transformVars
<1>2. \A ev : OnItsWay(ev)' <=> OnItsWay(ev) BY <1>1 DEF OnItsWay, eventVars
<1>3. /\ \A ev : OnItsWay(ev)' => Carries(ev)'
      /\ \A d \in Entities : Pending(d)' <=> Pending(d)
  BY <1>1, <1>2, EventsStay DEF eventVars
<1>4. /\ announced \in [Entities -> Nat] /\ transform \in [Entities -> Nat]
      /\ node \in [Entities -> NodeStates \cup {None}] /\ offset \in [Entities -> {0, 1}]
      /\ stage \in [Entities -> {"none", "inactive", "active"}]
  BY DEF ArgumentsInv, TypeOK
<1>5. ASSUME NEW d \in Entities PROVE Follows(d)'
  <2>1. Follows(d) BY DEF FollowInv
  <2>2. CASE UNCHANGED <<announced, stage, offset, node>> BY <2>1, <2>2, <1>1, <1>3 DEF Follows
  <2>3. ASSUME NEW json \in BOOLEAN, CreateSprite(e, json) PROVE Follows(d)'
    <3>1. stage[e] = "none" /\ stage' = [stage EXCEPT ![e] = "inactive"] /\ UNCHANGED <<announced, offset, node>>
      BY <2>3 DEF CreateSprite, transformVars
    <3> QED BY <1>1, <1>3, <1>4, <2>1, <3>1 DEF Follows
  <2>4. CASE Activate(e) \/ Deactivate(e)
    <3>1. stage[e] # "none" /\ \A x \in Entities : stage'[x] = "none" <=> stage[x] = "none"
      BY <2>4, <1>4 DEF Activate, Deactivate
    <3>2. UNCHANGED <<announced, offset, node>> BY <2>4 DEF Activate, Deactivate, transformVars
    <3> QED BY <1>1, <1>3, <2>1, <3>1, <3>2 DEF Follows
  <2>5. CASE RemoveSprite(e)
    <3>1. \A x \in Entities \ {e} : /\ announced'[x] = announced[x] /\ stage'[x] = stage[x]
                                    /\ offset'[x] = offset[x] /\ node'[x] = node[x]
      BY <2>5, <1>4 DEF RemoveSprite
    <3>2. announced'[e] = 0 /\ stage'[e] = "none" /\ node'[e] = None BY <2>5, <1>4 DEF RemoveSprite
    <3>3. transform[e] \in Nat BY <1>4
    <3>4. CASE d = e BY <1>1, <3>2, <3>3, <3>4 DEF Follows
    <3>5. CASE d # e BY <1>1, <1>3, <2>1, <3>1, <3>5 DEF Follows
    <3> QED BY <3>4, <3>5
  <2>6. ASSUME NEW state \in BOOLEAN, SetRenderingState(e, state) PROVE Follows(d)'
    BY <2>2, <2>6 DEF SetRenderingState, transformVars
  <2>7. ASSUME NEW o \in {0, 1}, SetOffset(e, o) PROVE Follows(d)'
    <3>1. /\ offset' = [offset EXCEPT ![e] = o]
          /\ node' = [node EXCEPT ![e] = [offset |-> o, version |-> transform[e]]]
          /\ UNCHANGED <<announced, stage>>
      BY <2>7 DEF SetOffset, transformVars
    <3>2. CASE d = e
      <4>1. node'[e].offset = o /\ node'[e].version = transform[e] /\ offset'[e] = o BY <3>1, <1>4
      <4>2. node'[e] \in NodeStates BY <3>1, <1>4 DEF NodeStates
      <4> QED BY <1>1, <2>1, <3>1, <3>2, <4>1, <4>2, NoneAssumption DEF Follows
    <3>3. CASE d # e
      <4>1. node'[d] = node[d] /\ offset'[d] = offset[d] BY <3>1, <3>3, <1>4
      <4> QED BY <1>1, <1>3, <2>1, <3>1, <4>1 DEF Follows
    <3> QED BY <3>2, <3>3
  <2>8. ASSUME NEW v \in {0, 1}, NEW always \in BOOLEAN, SetLook(e, v, always) PROVE Follows(d)'
    BY <2>2, <2>8 DEF SetLook, transformVars
  <2> QED BY <2>3, <2>4, <2>5, <2>6, <2>7, <2>8 DEF SpriteStep
<1> QED BY <1>3, <1>5 DEF FollowInv

LEMMA FollowInit == Init => FollowInv
BY DEF Init, FollowInv, Follows, OnItsWay

LEMMA FollowStep ==
  ASSUME MaxChanges <= 1
  PROVE  ArgumentsInv /\ FollowInv /\ [Next]_vars => FollowInv'
<1> SUFFICES ASSUME ArgumentsInv, FollowInv, [Next]_vars PROVE FollowInv'
  OBVIOUS
<1>1. CASE Frame
  <2>1. CASE StartDistribution \/ NextEvent \/ EndFrame
    <3>1. UNCHANGED <<transformVars, memory, stage, offset, node, local, entityEvents>>
          /\ phase # "deliver" /\ phase' # "deliver"
      BY <2>1 DEF StartDistribution, NextEvent, EndFrame, eventVars, spriteVars
    <3>2. \A ev : OnItsWay(ev)' <=> OnItsWay(ev) BY <3>1 DEF OnItsWay
    <3> QED BY <3>1, <3>2, MoveFollows
  <2>2. CASE PopEvent
    <3>1. /\ phase = "pop" /\ phase' = "deliver" /\ event' = entityEvents[1]
          /\ 1 \in DOMAIN entityEvents
          /\ \A i \in DOMAIN entityEvents' : i + 1 \in DOMAIN entityEvents /\ entityEvents'[i] = entityEvents[i + 1]
          /\ \A i \in DOMAIN entityEvents \ {1} : i - 1 \in DOMAIN entityEvents' /\ entityEvents'[i - 1] = entityEvents[i]
          /\ UNCHANGED <<transformVars, local, memory, stage, offset, node>>
      BY <2>2, PopFacts DEF ArgumentsInv, spriteVars
    <3>2. \A ev : OnItsWay(ev)' <=> OnItsWay(ev) BY <3>1 DEF OnItsWay
    <3> QED BY <3>1, <3>2, MoveFollows
  <2> QED BY <1>1, <2>1, <2>2, ReceiveFollows, EndScopeFollows, ReclaimFollows DEF Frame
<1>2. CASE HandleSceneNodeEdited
  <2>1. UNCHANGED <<transformVars, memory, stage, offset, node, local, entityEvents, event, phase>>
    BY <1>2 DEF HandleSceneNodeEdited, eventVars, spriteVars
  <2>2. \A ev : OnItsWay(ev)' <=> OnItsWay(ev) BY <2>1 DEF OnItsWay
  <2> QED BY <2>1, <2>2, MoveFollows
<1>3. ASSUME NEW t \in Threads, SendEntityEvent(t) PROVE FollowInv'
  <2>1. /\ local[t] \in Events /\ local[t] # None
        /\ 1 \in DOMAIN entityEvents' /\ entityEvents'[1] = local[t]
        /\ \A i \in DOMAIN entityEvents : i + 1 \in DOMAIN entityEvents' /\ entityEvents'[i + 1] = entityEvents[i]
        /\ \A i \in DOMAIN entityEvents' \ {1} : i - 1 \in DOMAIN entityEvents /\ entityEvents'[i] = entityEvents[i - 1]
        /\ local' = [local EXCEPT ![t] = None]
        /\ UNCHANGED <<transformVars, event, memory, phase, stage, offset, node>>
    <3>1. 1 \in 1 .. Len(entityEvents) + 1 BY DEF ArgumentsInv, TypeOK
    <3> QED BY <1>3, <3>1, SendFacts DEF ArgumentsInv, spriteVars
  <2>2. local \in [Threads -> Events \cup {None}] BY DEF ArgumentsInv, TypeOK
  <2>3. \A ev : OnItsWay(ev)' => OnItsWay(ev) BY <2>1, <2>2 DEF OnItsWay
  <2>4. \A ev : OnItsWay(ev) => OnItsWay(ev)' BY <2>1, <2>2 DEF OnItsWay
  <2> QED BY <2>1, <2>3, <2>4, MoveFollows
<1>4. ASSUME NEW t \in Threads, NEW e \in Entities, NEW b \in BOOLEAN, SetTransform(t, e, b) PROVE FollowInv'
  <2>1. SetTransform(t, e, TRUE) \/ SetTransform(t, e, FALSE)
    <3>1. CASE b = TRUE BY <1>4, <3>1
    <3>2. CASE b = FALSE BY <1>4, <3>2
    <3> QED BY <3>1, <3>2
  <2> QED BY <2>1, AnnounceFollows, ChangeFollows
<1>5. CASE UNCHANGED vars
  <2>1. UNCHANGED <<transformVars, memory, stage, offset, node, local, entityEvents, event, phase>>
    BY <1>5 DEF vars, eventVars, spriteVars
  <2>2. \A ev : OnItsWay(ev)' <=> OnItsWay(ev) BY <2>1 DEF OnItsWay
  <2> QED BY <2>1, <2>2, MoveFollows
<1> QED BY <1>1, <1>2, <1>3, <1>4, <1>5, SpriteStepFollows, NextCases

\* A sprite shows the last announced change of its transform when the events of a
\* frame are distributed, if no transform changes twice in between: then the order
\* of the stack cannot hurt.  Run rendering_lifo shows what two changes do.
THEOREM SpritesFollow == MaxChanges <= 1 => (Spec => []SpriteFollowsTransform)
<1> SUFFICES ASSUME MaxChanges <= 1 PROVE Spec => []SpriteFollowsTransform
  OBVIOUS
<1>1. FollowInv => SpriteFollowsTransform
  <2> SUFFICES ASSUME FollowInv, NEW e \in Entities, changes[e] = 0, announced[e] # 0
               PROVE  node[e] # None /\ node[e].version >= announced[e] /\ node[e].offset = offset[e]
    BY DEF SpriteFollowsTransform
  <2>1. ~Pending(e)
    <3> SUFFICES ASSUME Pending(e) PROVE FALSE OBVIOUS
    <3>1. PICK ev \in Events : OnItsWay(ev) /\ ev.receiver = e BY DEF Pending
    <3>2. changes[e] > 0 BY <3>1 DEF FollowInv, Carries
    <3> QED BY <3>2
  <2> QED BY <2>1 DEF FollowInv, Follows
<1>2. Spec => []FollowInv
  BY FollowInit, FollowStep, ArgumentsAlways, PTL DEF Spec
<1> QED BY <1>1, <1>2, PTL
=============================================================================
