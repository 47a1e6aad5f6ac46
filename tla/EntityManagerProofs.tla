-------------------------- MODULE EntityManagerProofs --------------------------
(***************************************************************************)
(* Proofs about EntityManager: for any number of entities and of types, and *)
(* any number of pending requests.                                          *)
(*                                                                          *)
(* The requests for a component are a path through its lifecycle: kinds are *)
(* served in turns, and each request starts where the one before it ends.   *)
(***************************************************************************)
EXTENDS EntityManager, TLAPS

\* May a request of kind k meet a component in stage s, and what does it leave?
Legal(s, k)  == s = From[k] \/ (s = "absent" /\ k # "create")
Result(s, k) == IF s = "absent" /\ k # "create" THEN s ELSE To[k]

-----------------------------------------------------------------------------
(* The inductive invariant. *)

\* p[i]: the stage of c when i turns have passed.
Path(p, c) ==
  /\ p \in [0 .. 7 -> Stages]
  /\ p[0] = stage[c] /\ p[7] = goal[c]
  /\ \A k \in Kinds : c \in requests[k] =>
       Legal(p[Turn(k)], k) /\ p[Turn(k) + 1] = Result(p[Turn(k)], k)
  /\ \A i \in 0 .. 6 : (\A k \in Kinds : Turn(k) = i => c \notin requests[k]) => p[i + 1] = p[i]

\* What is requested for a component leads, in turn, to where the client wants it.
RequestsLead == state = "running" => \A c \in Components : \E p \in [0 .. 7 -> Stages] : Path(p, c)

\* Nothing is known of entities that do not exist yet.
FreshUnknown ==
  \A c \in Components : c[1] >= currentEntityId =>
    stage[c] = "absent" /\ \A k \in Kinds : c \notin requests[k]

\* In the destructor a component is gone or about to be removed, and what is
\* deactivated or hibernated before is in the right stage.
LastRequests ==
  state = "destroying" =>
    /\ at \in 1 .. 3
    /\ \A c \in Components :
         /\ c \in requests["remove"] \/ stage[c] = "absent"
         /\ at = 1 /\ c \in requests["deactivate"] => Legal(stage[c], "deactivate")
         /\ at = 1 /\ c \in requests["hibernate"] =>
              Legal(IF c \in requests["deactivate"] THEN Result(stage[c], "deactivate")
                    ELSE stage[c], "hibernate")
         /\ at = 2 /\ c \in requests["hibernate"] => Legal(stage[c], "hibernate")

IInv ==
  /\ TypeOK
  /\ state = "destroyed" => at = 0
  /\ RequestsLead /\ FreshUnknown /\ LastRequests
  /\ ServedInFrame /\ DestroyedEmpty

-----------------------------------------------------------------------------
(* Turns. *)

\* Turns without the remainder.
LEMMA Turns ==
  ASSUME TypeOK, NEW k \in Kinds
  PROVE  /\ Turn(k) \in 0 .. 6 /\ Position[k] \in 1 .. 6
         /\ Turn(k) = IF Position[k] >= at THEN Position[k] - at ELSE Position[k] - at + 7
BY DEF TypeOK, Kinds, Turn, Position

\* Kinds have turns of their own.
LEMMA TurnsDiffer ==
  ASSUME TypeOK, NEW k \in Kinds, NEW j \in Kinds, Turn(k) = Turn(j)
  PROVE  k = j
<1>1. Position[k] = Position[j] BY Turns DEF TypeOK
<1> QED BY <1>1 DEF Kinds, Position

\* A step of the frame serves the kind whose turn it is.
LEMMA ServedTurn ==
  ASSUME TypeOK, NEW k \in Kinds, state = "running" \/ at \in 1 .. 3
  PROVE  Served(k) <=> Turn(k) = 0
<1>1. Turn(k) = 0 <=> at = Position[k] BY Turns DEF TypeOK
<1>2. at # 0 => (k = Steps[at] <=> at = Position[k])
  BY DEF Steps, Order, LastSteps, Kinds, Position, TypeOK
<1> QED BY <1>1, <1>2, Turns DEF Served

\* A request goes from stage to stage.
LEMMA ResultTyped ==
  ASSUME NEW s \in Stages, NEW k \in Kinds
  PROVE  Result(s, k) \in Stages /\ From[k] \in Stages /\ Result(From[k], k) = To[k]
BY DEF Result, Stages, Kinds, To, From

-----------------------------------------------------------------------------
(* Paths: what each operation makes of the path of one component. *)

\* Nothing happened to the component.
LEMMA PathKept ==
  ASSUME NEW c \in Components, NEW p, Path(p, c), at' = at,
         stage'[c] = stage[c], goal'[c] = goal[c],
         \A k \in Kinds : c \in requests'[k] <=> c \in requests[k]
  PROVE  Path(p, c)'
BY DEF Path, Turn

\* From the last turn with a request on, a path stays where it is.
LEMMA PathEnds ==
  ASSUME NEW c \in Components, NEW p, Path(p, c), NEW n \in 0 .. 7,
         \A k \in Kinds : c \in requests[k] => Turn(k) < n
  PROVE  \A i \in n .. 7 : p[i] = goal[c]
<1>1. \A i \in 0 .. 6 : i >= n => p[i + 1] = p[i] BY DEF Path
<1>2. p[7] = goal[c] BY DEF Path
<1>3. n <= 6 => p[6] = goal[c] BY <1>1, <1>2
<1>4. n <= 5 => p[5] = goal[c] BY <1>1, <1>3
<1>5. n <= 4 => p[4] = goal[c] BY <1>1, <1>4
<1>6. n <= 3 => p[3] = goal[c] BY <1>1, <1>5
<1>7. n <= 2 => p[2] = goal[c] BY <1>1, <1>6
<1>8. n <= 1 => p[1] = goal[c] BY <1>1, <1>7
<1>9. n <= 0 => p[0] = goal[c] BY <1>1, <1>8
<1> QED BY <1>2, <1>3, <1>4, <1>5, <1>6, <1>7, <1>8, <1>9

\* A request that comes in turn lengthens the path.
LEMMA PathAsked ==
  ASSUME TypeOK, NEW c \in Components, NEW p, Path(p, c), NEW k \in Kinds,
         Asks(c, k) \/ AsksInVain(c, k),
         at' = at, stage'[c] = stage[c],
         goal'[c] = IF Asks(c, k) THEN To[k] ELSE goal[c],
         \A j \in Kinds : c \in requests'[j] <=> (c \in requests[j] \/ j = k)
  PROVE  \E q \in [0 .. 7 -> Stages] : Path(q, c)'
<1>1. goal[c] \in Stages /\ p \in [0 .. 7 -> Stages] BY DEF TypeOK, Path
<1>a. PICK n \in 0 .. 6 : n = Turn(k) BY Turns
<1>b. PICK s \in Stages : s = Result(goal[c], k) BY <1>1, ResultTyped
<1> DEFINE q == [i \in 0 .. 7 |-> IF i <= n THEN p[i] ELSE s]
<1>2. q \in [0 .. 7 -> Stages] BY <1>1
<1>3. \A j \in Kinds : c \in requests[j] => Turn(j) < Turn(k) BY DEF Asks, AsksInVain, InTurn
<1>4. \A j \in Kinds : Turn(j) \in 0 .. 6 BY Turns
<1>5. \A i \in n .. 7 : p[i] = goal[c] BY <1>a, <1>3, PathEnds
<1>6. Legal(goal[c], k) BY DEF Legal, Asks, AsksInVain
<1>7. q[0] = stage'[c] BY <1>4 DEF Path
<1>8. q[7] = goal'[c]
  <2>1. q[7] = Result(goal[c], k) BY <1>b
  <2>2. Result(goal[c], k) = goal'[c]
    BY ResultTyped, <1>1 DEF Asks, AsksInVain, Result
  <2> QED BY <2>1, <2>2
<1>9. ASSUME NEW j \in Kinds, c \in requests'[j]
      PROVE  Legal(q[Turn(j)], j) /\ q[Turn(j) + 1] = Result(q[Turn(j)], j)
  <2>1. CASE j = k
    <3>1. q[Turn(k)] = goal[c] /\ q[Turn(k) + 1] = Result(goal[c], k) BY <1>a, <1>b, <1>5
    <3> QED BY <1>6, <2>1, <3>1
  <2>2. CASE j # k
    <3>1. c \in requests[j] BY <1>9, <2>2
    <3>2. Turn(j) \in 0 .. 6 /\ Turn(j) < Turn(k) BY <1>3, <1>4, <3>1
    <3>3. q[Turn(j)] = p[Turn(j)] /\ q[Turn(j) + 1] = p[Turn(j) + 1] BY <1>a, <3>2
    <3> QED BY <3>1, <3>3 DEF Path
  <2> QED BY <2>1, <2>2
<1>10. ASSUME NEW i \in 0 .. 6, \A j \in Kinds : Turn(j) = i => c \notin requests'[j]
       PROVE  q[i + 1] = q[i]
  <2>1. i # n BY <1>a, <1>10
  <2>2. CASE i < n
    <3>1. q[i] = p[i] /\ q[i + 1] = p[i + 1] BY <2>2
    <3> QED BY <1>10, <3>1 DEF Path
  <2>3. CASE i > n BY <2>3
  <2> QED BY <2>1, <2>2, <2>3
<1>11. \A j \in Kinds : Turn(j)' = Turn(j) BY DEF Turn
<1> HIDE DEF q
<1>12. \A j \in Kinds : c \in requests'[j] =>
         Legal(q[Turn(j)'], j) /\ q[Turn(j)' + 1] = Result(q[Turn(j)'], j)
  BY <1>9, <1>11
<1>13. \A i \in 0 .. 6 : (\A j \in Kinds : Turn(j)' = i => c \notin requests'[j]) => q[i + 1] = q[i]
  BY <1>10, <1>11
<1>14. Path(q, c)' BY <1>2, <1>7, <1>8, <1>12, <1>13 DEF Path
<1> QED BY <1>2, <1>14

\* The turn moves on when there is no request left whose turn it is.
LEMMA PathAdvances ==
  ASSUME TypeOK, NEW c \in Components, NEW p, Path(p, c),
         at' = IF at = 6 THEN 0 ELSE at + 1,
         \A k \in Kinds : Turn(k) = 0 => c \notin requests[k],
         stage'[c] = stage[c], goal'[c] = goal[c], requests' = requests
  PROVE  \E q \in [0 .. 7 -> Stages] : Path(q, c)'
<1> DEFINE q == [i \in 0 .. 7 |-> IF i = 7 THEN p[7] ELSE p[i + 1]]
<1>1. p \in [0 .. 7 -> Stages] BY DEF Path
<1>2. q \in [0 .. 7 -> Stages] BY <1>1
<1>3. \A k \in Kinds : Turn(k)' = IF Turn(k) = 0 THEN 6 ELSE Turn(k) - 1
  <2> SUFFICES ASSUME NEW k \in Kinds PROVE Turn(k)' = IF Turn(k) = 0 THEN 6 ELSE Turn(k) - 1
    OBVIOUS
  <2>1. Position[k] \in 1 .. 6 /\ Turn(k) = IF Position[k] >= at THEN Position[k] - at ELSE Position[k] - at + 7
    BY Turns
  <2>2. at \in 0 .. 6 /\ at' \in 0 .. 6 BY DEF TypeOK
  <2>3. Turn(k)' = IF Position[k] >= at' THEN Position[k] - at' ELSE Position[k] - at' + 7
    BY <2>1, <2>2 DEF Turn
  <2> QED BY <2>1, <2>2, <2>3
<1>4. \A k \in Kinds : Turn(k) \in 0 .. 6 BY Turns
<1>5. p[0] = p[1] BY DEF Path
<1>6. q[0] = stage[c] /\ q[7] = goal[c] BY <1>5 DEF Path
<1>7. ASSUME NEW k \in Kinds, c \in requests[k]
      PROVE  Legal(q[Turn(k)'], k) /\ q[Turn(k)' + 1] = Result(q[Turn(k)'], k)
  <2>1. Turn(k) # 0 BY <1>7
  <2>2. Turn(k)' = Turn(k) - 1 /\ Turn(k) \in 1 .. 6 BY <1>3, <1>4, <2>1
  <2>3. q[Turn(k)'] = p[Turn(k)] /\ q[Turn(k)' + 1] = p[Turn(k) + 1] BY <2>2
  <2> QED BY <1>7, <2>3 DEF Path
<1>8. ASSUME NEW i \in 0 .. 6, \A k \in Kinds : Turn(k)' = i => c \notin requests[k]
      PROVE  q[i + 1] = q[i]
  <2>1. CASE i = 6 BY <2>1
  <2>2. CASE i < 6
    <3>1. \A k \in Kinds : Turn(k) = i + 1 => c \notin requests[k] BY <1>3, <1>8, <2>2
    <3>2. p[i + 2] = p[i + 1] BY <2>2, <3>1 DEF Path
    <3> QED BY <2>2, <3>2
  <2> QED BY <2>1, <2>2
<1>9. Path(q, c)'
  <2> HIDE DEF q
  <2> QED BY <1>2, <1>6, <1>7, <1>8 DEF Path
<1> QED BY <1>2, <1>9

\* The request whose turn it is is served.
LEMMA PathServed ==
  ASSUME TypeOK, NEW c \in Components, NEW p, Path(p, c), NEW k \in Kinds,
         Turn(k) = 0, c \in requests[k], at' = at,
         stage'[c] = Result(stage[c], k), goal'[c] = goal[c],
         \A j \in Kinds : c \in requests'[j] <=> (c \in requests[j] /\ j # k)
  PROVE  \E q \in [0 .. 7 -> Stages] : Path(q, c)'
<1> DEFINE q == [p EXCEPT ![0] = p[1]]
<1>1. p \in [0 .. 7 -> Stages] BY DEF Path
<1>2. q \in [0 .. 7 -> Stages] BY <1>1
<1>3. q[0] = stage'[c] BY <1>1 DEF Path
<1>4. \A j \in Kinds : Turn(j) \in 0 .. 6 /\ (j # k => Turn(j) # 0) BY Turns, TurnsDiffer
<1>5. \A i \in 1 .. 7 : q[i] = p[i] BY <1>1
<1>6. ASSUME NEW j \in Kinds, c \in requests'[j]
      PROVE  Legal(q[Turn(j)], j) /\ q[Turn(j) + 1] = Result(q[Turn(j)], j)
  <2>1. c \in requests[j] /\ Turn(j) \in 1 .. 6 BY <1>4, <1>6
  <2> QED BY <1>5, <2>1 DEF Path
<1>7. ASSUME NEW i \in 0 .. 6, \A j \in Kinds : Turn(j) = i => c \notin requests'[j]
      PROVE  q[i + 1] = q[i]
  <2>1. CASE i = 0 BY <1>1, <2>1
  <2>2. CASE i # 0
    <3>1. \A j \in Kinds : Turn(j) = i => c \notin requests[j] BY <1>7, <2>2
    <3> QED BY <1>5, <2>2, <3>1 DEF Path
  <2> QED BY <2>1, <2>2
<1>8. \A j \in Kinds : Turn(j)' = Turn(j) BY DEF Turn
<1>9. q[7] = goal'[c] BY <1>5 DEF Path
<1>10. Path(q, c)'
  <2> HIDE DEF q
  <2> QED BY <1>2, <1>3, <1>6, <1>7, <1>8, <1>9 DEF Path
<1> QED BY <1>2, <1>10

-----------------------------------------------------------------------------
(* The operations. *)

\* Nothing is requested and nothing exists.
LEMMA InvariantInit == Init => IInv
<1> SUFFICES ASSUME Init PROVE IInv OBVIOUS
<1>1. TypeOK
  <2>1. stage \in [Components -> Stages] /\ goal \in [Components -> Stages] BY DEF Init, Stages
  <2>2. requests \in [Kinds -> SUBSET Components] /\ late \in [Kinds -> SUBSET Components]
    BY DEF Init
  <2>3. currentEntityId \in 0 .. MaxIds /\ at \in 0 .. 6 BY MaxIdsAssumption DEF Init
  <2> QED BY <2>1, <2>2, <2>3 DEF Init, TypeOK
<1>2. RequestsLead
  <2> SUFFICES ASSUME NEW c \in Components PROVE \E p \in [0 .. 7 -> Stages] : Path(p, c)
    BY DEF RequestsLead
  <2> DEFINE p == [i \in 0 .. 7 |-> "absent"]
  <2>1. p \in [0 .. 7 -> Stages] BY DEF Stages
  <2>2. Path(p, c) BY <2>1 DEF Path, Init
  <2> HIDE DEF p
  <2> QED BY <2>1, <2>2
<1>3. FreshUnknown BY DEF FreshUnknown, Init
<1>4. ServedInFrame BY DEF ServedInFrame, Init, Kinds, Position
<1> QED BY <1>1, <1>2, <1>3, <1>4 DEF Init, IInv, LastRequests, DestroyedEmpty

\* A new id.
LEMMA CreateEntityStep == IInv /\ CreateEntity => IInv'
<1> SUFFICES ASSUME IInv, CreateEntity PROVE IInv' OBVIOUS
<1> USE DEF IInv, CreateEntity
<1>1. TypeOK' BY MaxIdsAssumption DEF TypeOK
<1>2. RequestsLead' BY DEF RequestsLead, Path, Turn
<1>3. FreshUnknown'
  BY DEF FreshUnknown, TypeOK, Components, Ids
<1>4. LastRequests' /\ ServedInFrame' /\ DestroyedEmpty'
  BY DEF LastRequests, ServedInFrame, DestroyedEmpty
<1> QED BY <1>1, <1>2, <1>3, <1>4

\* Requests of one kind for the components cs, each of them in turn.
LEMMA QueueStep ==
  ASSUME IInv, NEW k \in Kinds, NEW cs \in SUBSET Components, Queue(cs, k),
         \A c \in cs : (Asks(c, k) \/ AsksInVain(c, k)) /\ c[1] < currentEntityId
  PROVE  IInv'
<1> USE DEF IInv
<1>0. /\ requests' = [requests EXCEPT ![k] = @ \cup cs]
      /\ goal' = [c \in Components |-> IF c \in cs /\ Asks(c, k) THEN To[k] ELSE goal[c]]
      /\ late' = [late EXCEPT ![k] = IF at > Position[k] THEN @ \cup cs ELSE @]
      /\ UNCHANGED <<currentEntityId, stage, at, hook, state>>
      /\ state # "destroyed"
  BY DEF Queue, Listening
<1>1. TypeOK'
  <2>1. To[k] \in Stages BY DEF To, Kinds, Stages
  <2>2. goal' \in [Components -> Stages] BY <1>0, <2>1 DEF TypeOK
  <2>3. requests' \in [Kinds -> SUBSET Components] BY <1>0 DEF TypeOK
  <2>4. late' \in [Kinds -> SUBSET Components] BY <1>0 DEF TypeOK
  <2> QED BY <1>0, <2>2, <2>3, <2>4 DEF TypeOK
<1>2. \A c \in Components, j \in Kinds :
        c \in requests'[j] <=> (c \in requests[j] \/ (j = k /\ c \in cs))
  BY <1>0 DEF TypeOK
<1>3. RequestsLead'
  <2> SUFFICES ASSUME state = "running", NEW c \in Components
               PROVE  \E q \in [0 .. 7 -> Stages] : Path(q, c)'
    BY <1>0 DEF RequestsLead
  <2>1. PICK p \in [0 .. 7 -> Stages] : Path(p, c) BY DEF RequestsLead
  <2>2. CASE c \in cs
    <3>1. goal'[c] = IF Asks(c, k) THEN To[k] ELSE goal[c] BY <1>0, <2>2
    <3> QED BY <1>0, <1>2, <2>1, <2>2, <3>1, PathAsked
  <2>3. CASE c \notin cs
    <3>1. goal'[c] = goal[c] BY <1>0, <2>3
    <3>2. \A j \in Kinds : c \in requests'[j] <=> c \in requests[j] BY <1>2, <2>3
    <3>3. Path(p, c)' BY <1>0, <2>1, <3>1, <3>2, PathKept
    <3> QED BY <3>3
  <2> QED BY <2>2, <2>3
<1>4. FreshUnknown'
  <2> SUFFICES ASSUME NEW c \in Components, c[1] >= currentEntityId
               PROVE  stage[c] = "absent" /\ \A j \in Kinds : c \notin requests'[j]
    BY <1>0 DEF FreshUnknown
  <2>1. c[1] \in Int /\ currentEntityId \in Int BY DEF Components, Ids, TypeOK
  <2>2. c \notin cs BY <2>1
  <2> QED BY <1>2, <2>2 DEF FreshUnknown
<1>5. LastRequests'
  <2> SUFFICES ASSUME state = "destroying", NEW c \in Components
               PROVE  /\ at \in 1 .. 3
                      /\ c \in requests'["remove"] \/ stage[c] = "absent"
                      /\ at = 1 /\ c \in requests'["deactivate"] => Legal(stage[c], "deactivate")
                      /\ at = 1 /\ c \in requests'["hibernate"] =>
                           Legal(IF c \in requests'["deactivate"] THEN Result(stage[c], "deactivate")
                                 ELSE stage[c], "hibernate")
                      /\ at = 2 /\ c \in requests'["hibernate"] => Legal(stage[c], "hibernate")
    BY <1>0 DEF LastRequests
  <2>1. at \in 1 .. 3 BY DEF LastRequests
  <2>2. CASE stage[c] = "absent"
    BY <2>1, <2>2 DEF Legal, Result
  <2>3. CASE stage[c] # "absent"
    <3>1. c \in requests["remove"] BY <2>3 DEF LastRequests
    <3>2. c \in cs => Turn("remove") < Turn(k) BY <3>1 DEF Asks, AsksInVain, InTurn, Kinds
    <3>3. "remove" \in Kinds /\ "hibernate" \in Kinds /\ "deactivate" \in Kinds BY DEF Kinds
    <3>4. Turn("remove") = 3 - at /\ Turn("hibernate") = (IF at <= 2 THEN 2 - at ELSE 6)
          /\ Turn("deactivate") = (IF at <= 1 THEN 0 ELSE 8 - at)
      BY <2>1, <3>3, Turns DEF Position
    <3>5. at <= 2 /\ c \in cs => k # "hibernate" BY <2>1, <3>2, <3>4
    <3>6. at <= 1 /\ c \in cs => k # "deactivate" BY <2>1, <3>2, <3>4
    <3>7. /\ at <= 2 => (c \in requests'["hibernate"] <=> c \in requests["hibernate"])
          /\ at <= 1 => (c \in requests'["deactivate"] <=> c \in requests["deactivate"])
          /\ c \in requests'["remove"]
      BY <1>2, <3>1, <3>3, <3>5, <3>6
    <3> QED BY <2>1, <3>7 DEF LastRequests
  <2> QED BY <2>2, <2>3
<1>6. ServedInFrame'
  <2> SUFFICES ASSUME state = "running", NEW j \in Kinds, at > Position[j]
               PROVE  requests'[j] \subseteq late'[j]
    BY <1>0 DEF ServedInFrame
  <2>1. requests[j] \subseteq late[j] BY DEF ServedInFrame
  <2>2. CASE j = k BY <1>0, <2>1, <2>2 DEF TypeOK
  <2>3. CASE j # k BY <1>0, <2>1, <2>3 DEF TypeOK
  <2> QED BY <2>2, <2>3
<1>7. DestroyedEmpty' BY <1>0 DEF DestroyedEmpty
<1> QED BY <1>0, <1>1, <1>3, <1>4, <1>5, <1>6, <1>7

\* Calls of the manager and of Entity.
LEMMA CallStep ==
  ASSUME IInv, NEW k \in Kinds, NEW id \in Ids, EntityCall(id, k)
  PROVE  IInv'
<1>1. CASE RequestEntity(id, k)
  <2>1. {id} \X Types \in SUBSET Components BY DEF Components
  <2>2. \A c \in {id} \X Types : \E t \in Types : c = <<id, t>> /\ c[1] = id OBVIOUS
  <2> QED BY <1>1, <2>1, <2>2, QueueStep DEF RequestEntity
<1>2. ASSUME NEW t \in Types, RequestComponent(<<id, t>>, k) PROVE IInv'
  <2>1. {<<id, t>>} \in SUBSET Components BY DEF Components
  <2> QED BY <1>2, <2>1, QueueStep DEF RequestComponent
<1> QED BY <1>1, <1>2 DEF EntityCall

\* The first step of a frame.
LEMMA StartFrameStep == IInv /\ StartFrame => IInv'
<1> SUFFICES ASSUME IInv, StartFrame PROVE IInv' OBVIOUS
<1> USE DEF IInv, StartFrame
<1>1. TypeOK' BY DEF TypeOK
<1>2. RequestsLead'
  <2> SUFFICES ASSUME NEW c \in Components PROVE \E q \in [0 .. 7 -> Stages] : Path(q, c)'
    BY DEF RequestsLead
  <2>1. PICK p \in [0 .. 7 -> Stages] : Path(p, c) BY DEF RequestsLead
  <2>2. \A k \in Kinds : Turn(k) # 0 BY Turns
  <2> QED BY <2>1, <2>2, PathAdvances
<1>3. FreshUnknown' BY DEF FreshUnknown
<1>4. ServedInFrame' BY Turns DEF ServedInFrame
<1> QED BY <1>1, <1>2, <1>3, <1>4 DEF LastRequests, DestroyedEmpty

\* A request is served.
LEMMA ServeStep ==
  ASSUME IInv, NEW k \in Kinds, NEW c \in Components, Serve(k, c)
  PROVE  IInv'
<1> USE DEF IInv
<1>0. /\ Served(k) /\ c \in requests[k]
      /\ requests' = [requests EXCEPT ![k] = @ \ {c}]
      /\ hook' = (stage' # stage)
      /\ UNCHANGED <<currentEntityId, at, state, goal, late>>
  BY DEF Serve
<1>1. stage' = [stage EXCEPT ![c] = Result(stage[c], k)]
  BY DEF Serve, Result, TypeOK
<1>2. /\ \A d \in Components, j \in Kinds :
           d \in requests'[j] <=> (d \in requests[j] /\ ~(j = k /\ d = c))
      /\ \A d \in Components : stage'[d] = IF d = c THEN Result(stage[c], k) ELSE stage[d]
  BY <1>0, <1>1 DEF TypeOK
<1>3. TypeOK'
  <2>1. stage[c] \in Stages BY DEF TypeOK
  <2>2. stage' \in [Components -> Stages] BY <1>1, <2>1, ResultTyped DEF TypeOK
  <2>3. requests' \in [Kinds -> SUBSET Components] BY <1>0 DEF TypeOK
  <2>4. hook' \in BOOLEAN BY <1>0
  <2> QED BY <1>0, <2>2, <2>3, <2>4 DEF TypeOK
<1>4. at # 0 /\ state # "destroyed" BY <1>0 DEF Served
<1>5. Turn(k) = 0
  BY <1>0, <1>4, ServedTurn DEF LastRequests, TypeOK
<1>6. RequestsLead'
  <2> SUFFICES ASSUME state = "running", NEW d \in Components
               PROVE  \E q \in [0 .. 7 -> Stages] : Path(q, d)'
    BY <1>0 DEF RequestsLead
  <2>1. PICK p \in [0 .. 7 -> Stages] : Path(p, d) BY DEF RequestsLead
  <2>2. CASE d = c
    <3>1. \A j \in Kinds : c \in requests'[j] <=> (c \in requests[j] /\ j # k) BY <1>2
    <3>2. stage'[c] = Result(stage[c], k) BY <1>2
    <3> QED BY <1>0, <1>5, <2>1, <2>2, <3>1, <3>2, PathServed
  <2>3. CASE d # c
    <3>1. Path(p, d)' BY <1>0, <1>2, <2>1, <2>3, PathKept
    <3> QED BY <3>1
  <2> QED BY <2>2, <2>3
<1>7. FreshUnknown' BY <1>0, <1>2 DEF FreshUnknown
<1>8. LastRequests'
  <2> SUFFICES ASSUME state = "destroying", NEW d \in Components
               PROVE  /\ at \in 1 .. 3
                      /\ d \in requests'["remove"] \/ stage'[d] = "absent"
                      /\ at = 1 /\ d \in requests'["deactivate"] => Legal(stage'[d], "deactivate")
                      /\ at = 1 /\ d \in requests'["hibernate"] =>
                           Legal(IF d \in requests'["deactivate"] THEN Result(stage'[d], "deactivate")
                                 ELSE stage'[d], "hibernate")
                      /\ at = 2 /\ d \in requests'["hibernate"] => Legal(stage'[d], "hibernate")
    BY <1>0 DEF LastRequests
  <2>1. at \in 1 .. 3 BY DEF LastRequests
  <2>2. "remove" \in Kinds /\ "hibernate" \in Kinds /\ "deactivate" \in Kinds BY DEF Kinds
  <2>3. k = (IF at = 1 THEN "deactivate" ELSE IF at = 2 THEN "hibernate" ELSE "remove")
    BY <1>0, <2>1 DEF Served, Steps, LastSteps
  <2>4. CASE d # c BY <1>2, <2>1, <2>2, <2>4 DEF LastRequests
  <2>5. CASE d = c
    <3>1. at = 3 => stage'[d] = "absent"
      BY <1>2, <2>3, <2>5 DEF Result, To
    <3>2. at # 3 => d \in requests'["remove"] \/ stage'[d] = "absent"
      <4>1. CASE d \in requests["remove"] BY <1>2, <2>1, <2>2, <2>3, <4>1
      <4>2. CASE stage[d] = "absent" BY <1>2, <2>1, <2>3, <2>5, <4>2 DEF Result
      <4> QED BY <4>1, <4>2 DEF LastRequests
    <3>3. at = 1 => d \notin requests'["deactivate"] BY <1>2, <2>2, <2>3, <2>5
    <3>4. at = 1 /\ d \in requests'["hibernate"] => Legal(stage'[d], "hibernate")
      BY <1>0, <1>2, <2>2, <2>3, <2>5 DEF LastRequests
    <3>5. at = 2 => d \notin requests'["hibernate"] BY <1>2, <2>2, <2>3, <2>5
    <3> QED BY <2>1, <3>1, <3>2, <3>3, <3>4, <3>5
  <2> QED BY <2>4, <2>5
<1>9. ServedInFrame' BY <1>0, <1>2 DEF ServedInFrame, TypeOK
<1>10. DestroyedEmpty' BY <1>0, <1>4 DEF DestroyedEmpty
<1> QED BY <1>0, <1>3, <1>4, <1>6, <1>7, <1>8, <1>9, <1>10

\* A step ends, and the next begins.
LEMMA EndStepStep == IInv /\ EndStep => IInv'
<1> SUFFICES ASSUME IInv, EndStep PROVE IInv' OBVIOUS
<1> USE DEF IInv, EndStep
<1>1. CASE state = "running"
  <2>1. /\ at \in 1 .. 6 /\ at' = (IF at = 6 THEN 0 ELSE at + 1) /\ state' = "running"
        /\ Steps[at] = Order[at] /\ requests[Order[at]] = {}
    BY <1>1 DEF TypeOK, Steps, Order
  <2>2. TypeOK'
    <3>1. at' \in 0 .. 6 /\ state' \in {"running", "destroying", "destroyed"} BY <2>1
    <3>2. hook' \in BOOLEAN OBVIOUS
    <3> QED BY <3>1, <3>2 DEF TypeOK
  <2>3. \A k \in Kinds : Turn(k) = 0 => requests[k] = {}
    BY <1>1, <2>1, ServedTurn DEF Served
  <2>4. RequestsLead'
    <3> SUFFICES ASSUME NEW c \in Components PROVE \E q \in [0 .. 7 -> Stages] : Path(q, c)'
      BY DEF RequestsLead
    <3>1. PICK p \in [0 .. 7 -> Stages] : Path(p, c) BY <1>1 DEF RequestsLead
    <3> QED BY <2>1, <2>3, <3>1, PathAdvances
  <2>5. ServedInFrame'
    <3> SUFFICES ASSUME NEW k \in Kinds, at' > Position[k] PROVE requests[k] \subseteq late[k]
      BY DEF ServedInFrame
    <3>1. at > Position[k] \/ Turn(k) = 0 BY <2>1, Turns
    <3> QED BY <1>1, <2>3, <3>1 DEF ServedInFrame
  <2> QED BY <2>1, <2>2, <2>4, <2>5 DEF FreshUnknown, LastRequests, DestroyedEmpty
<1>2. CASE state = "destroying"
  <2>1. /\ at \in 1 .. 3 /\ at' = (IF at = 3 THEN 0 ELSE at + 1)
        /\ state' = (IF at = 3 THEN "destroyed" ELSE "destroying")
        /\ requests[LastSteps[at]] = {}
    BY <1>2 DEF LastRequests, Steps, LastSteps
  <2>2. TypeOK'
    <3>1. at' \in 0 .. 6 /\ state' \in {"running", "destroying", "destroyed"} BY <2>1
    <3>2. hook' \in BOOLEAN OBVIOUS
    <3> QED BY <3>1, <3>2 DEF TypeOK
  <2>3. DestroyedEmpty'
    BY <2>1, <1>2 DEF DestroyedEmpty, LastRequests, LastSteps
  <2>4. LastRequests'
    BY <2>1, <1>2 DEF LastRequests, LastSteps
  <2> QED BY <2>1, <2>2, <2>3, <2>4 DEF FreshUnknown, RequestsLead, ServedInFrame
<1>3. state # "destroyed" OBVIOUS
<1> QED BY <1>1, <1>2, <1>3 DEF TypeOK

\* The destructor begins.
LEMMA DestroyStep == IInv /\ Destroy => IInv'
<1> SUFFICES ASSUME IInv, Destroy PROVE IInv' OBVIOUS
<1> USE DEF IInv, Destroy
<1>1. "remove" \in Kinds /\ "hibernate" \in Kinds /\ "deactivate" \in Kinds BY DEF Kinds
<1>2. \A c \in Components, j \in Kinds :
        c \in requests'[j] <=>
          (c \in requests[j] \/ (j = "remove" /\ c[1] < currentEntityId))
  BY DEF TypeOK
<1>3. TypeOK'
  <2>1. goal' \in [Components -> Stages] BY DEF Stages
  <2>2. requests' \in [Kinds -> SUBSET Components] BY DEF TypeOK
  <2> QED BY <2>1, <2>2 DEF TypeOK
<1>4. FreshUnknown'
  <2> SUFFICES ASSUME NEW c \in Components, c[1] >= currentEntityId
               PROVE  stage[c] = "absent" /\ \A j \in Kinds : c \notin requests'[j]
    BY DEF FreshUnknown
  <2>1. c[1] \in Int /\ currentEntityId \in Int BY DEF Components, Ids, TypeOK
  <2> QED BY <1>2, <2>1 DEF FreshUnknown
<1>5. LastRequests'
  <2> SUFFICES ASSUME NEW c \in Components
               PROVE  /\ c \in requests'["remove"] \/ stage[c] = "absent"
                      /\ c \in requests["deactivate"] => Legal(stage[c], "deactivate")
                      /\ c \in requests["hibernate"] =>
                           Legal(IF c \in requests["deactivate"] THEN Result(stage[c], "deactivate")
                                 ELSE stage[c], "hibernate")
    BY <1>1, <1>2 DEF LastRequests
  <2>1. c \in requests'["remove"] \/ stage[c] = "absent"
    <3>1. c[1] \in Int /\ currentEntityId \in Int BY DEF Components, Ids, TypeOK
    <3> QED BY <1>1, <1>2, <3>1 DEF FreshUnknown
  <2>2. PICK p \in [0 .. 7 -> Stages] : Path(p, c) BY DEF RequestsLead
  <2>3. /\ \A k \in Kinds : Turn(k) = 0 => FALSE
        /\ \A k \in Kinds : Turn(k) = 1 => k = "deactivate"
        /\ Turn("deactivate") = 1 /\ Turn("hibernate") = 2
    BY <1>1, Turns, TurnsDiffer DEF Position
  <2>4. p[1] = stage[c] BY <2>2, <2>3 DEF Path
  <2>5. c \notin requests["deactivate"] => p[2] = stage[c]
    <3>1. c \notin requests["deactivate"] => \A k \in Kinds : Turn(k) = 1 => c \notin requests[k]
      BY <2>3
    <3> QED BY <2>2, <2>4, <3>1 DEF Path
  <2>6. c \in requests["deactivate"] =>
          Legal(stage[c], "deactivate") /\ p[2] = Result(stage[c], "deactivate")
    BY <1>1, <2>2, <2>3, <2>4 DEF Path
  <2>7. c \in requests["hibernate"] => Legal(p[2], "hibernate")
    BY <1>1, <2>2, <2>3 DEF Path
  <2> QED BY <2>1, <2>5, <2>6, <2>7
<1> QED BY <1>3, <1>4, <1>5 DEF RequestsLead, ServedInFrame, DestroyedEmpty

\* The invariant is inductive.
LEMMA InvariantStep == IInv /\ [Next]_vars => IInv'
<1> SUFFICES ASSUME IInv, [Next]_vars PROVE IInv' OBVIOUS
<1>1. CASE UNCHANGED vars
  BY <1>1 DEF vars, IInv, TypeOK, RequestsLead, Path, Turn, FreshUnknown, LastRequests,
     ServedInFrame, DestroyedEmpty
<1> QED
  BY <1>1, StartFrameStep, ServeStep, EndStepStep, CreateEntityStep, CallStep, DestroyStep
  DEF Next, Manager

-----------------------------------------------------------------------------
(* The theorems. *)

\* Whatever is asked for and when, what is requested leads in turn to where the
\* client wants it, in every frame.
THEOREM ManagerSound == Spec => []IInv
BY InvariantInit, InvariantStep, PTL DEF Spec

\* All variables keep their types.
THEOREM TypesCorrect == Spec => []TypeOK
<1>1. IInv => TypeOK BY DEF IInv
<1> QED BY <1>1, ManagerSound, PTL

\* The collections are called for components in the stage a call starts from,
\* which they do not check themselves.
THEOREM CallsFindStage == Spec => []CallsLegal
<1>1. IInv => CallsLegal
  <2> SUFFICES ASSUME IInv, NEW k \in Kinds, Served(k), NEW c \in Components, c \in requests[k],
                      ~(state = "destroying" /\ k = "remove")
               PROVE  Legal(stage[c], k)
    BY DEF CallsLegal, Legal, IInv, TypeOK
  <2>1. state # "destroyed" BY DEF IInv, Served
  <2>2. CASE state = "running"
    <3>1. PICK p \in [0 .. 7 -> Stages] : Path(p, c) BY <2>2 DEF IInv, RequestsLead
    <3>2. Turn(k) = 0 BY <2>2, ServedTurn DEF IInv
    <3> QED BY <3>1, <3>2 DEF Path
  <2>3. CASE state = "destroying"
    <3>1. at \in 1 .. 3 BY <2>3 DEF IInv, LastRequests
    <3>2. (at = 1 /\ k = "deactivate") \/ (at = 2 /\ k = "hibernate")
      BY <2>3, <3>1 DEF Served, Steps, LastSteps
    <3> QED BY <2>3, <3>2 DEF IInv, LastRequests
  <2> QED BY <2>1, <2>2, <2>3 DEF IInv, TypeOK
<1> QED BY <1>1, ManagerSound, PTL

\* A component without requests is where the client wants it.
THEOREM RequestsEnd == Spec => []GoalReached
<1>1. IInv => GoalReached
  <2> SUFFICES ASSUME IInv, state = "running", NEW c \in Components,
                      \A k \in Kinds : c \notin requests[k]
               PROVE  stage[c] = goal[c]
    BY DEF GoalReached
  <2>1. PICK p \in [0 .. 7 -> Stages] : Path(p, c) BY DEF IInv, RequestsLead
  <2>2. p[0] = goal[c] BY <2>1, PathEnds
  <2> QED BY <2>1, <2>2 DEF Path
<1> QED BY <1>1, ManagerSound, PTL

\* What was asked for before a step of the frame is served by it.
THEOREM RequestsServed == Spec => []ServedInFrame
<1>1. IInv => ServedInFrame BY DEF IInv
<1> QED BY <1>1, ManagerSound, PTL

\* The destructor removes every component, whatever was still requested.
THEOREM DestructorSound == Spec => []DestroyedEmpty
<1>1. IInv => DestroyedEmpty BY DEF IInv
<1> QED BY <1>1, ManagerSound, PTL
=============================================================================
