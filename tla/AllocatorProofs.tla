--------------------------- MODULE AllocatorProofs ---------------------------
(***************************************************************************)
(* Proofs about LockFreeAllocator and LinearAllocator: for any number of   *)
(* threads and objects, any heap, any block size and any sizes asked for.  *)
(***************************************************************************)
EXTENDS Allocators, FiniteSetTheorems, TLAPS

-----------------------------------------------------------------------------
(* The walk along a list of blocks.  Induction is by sets: a set of numbers  *)
(* that holds 0, and n + 1 with n, holds them all, since what it left out    *)
(* had a least element.                                                      *)

\* A set of natural numbers that is not empty has a least one.
LEMMA LeastNatural ==
  ASSUME NEW T \in SUBSET Nat, T # {}
  PROVE  \E n \in T : \A m \in T : n <= m
<1> DEFINE Below == {0 .. n - 1 : n \in T}
           R == StrictSubsetOrdering(Nat)
<1>1. Below \subseteq FiniteSubsetsOf(Nat) /\ Below # {}
  <2>1. ASSUME NEW n \in T PROVE 0 .. n - 1 \in FiniteSubsetsOf(Nat)
    BY FS_Interval DEF FiniteSubsetsOf
  <2> QED BY <2>1
<1>2. PICK B \in Below : \A C \in Below : <<C, B>> \notin R
  <2>1. IsWellFoundedOn(R, FiniteSubsetsOf(Nat)) BY FS_StrictSubsetOrderingWellFounded
  <2> HIDE DEF R, Below
  <2> QED BY <1>1, <2>1, WFMin
<1>3. PICK n \in T : B = 0 .. n - 1 BY <1>2
<1>4. ASSUME NEW m \in T PROVE n <= m
  <2> SUFFICES ASSUME m < n PROVE FALSE OBVIOUS
  <2>1. 0 .. m - 1 \subseteq 0 .. n - 1 /\ m \in 0 .. n - 1 /\ m \notin 0 .. m - 1 OBVIOUS
  <2>2. <<0 .. m - 1, 0 .. n - 1>> \in R BY <2>1 DEF StrictSubsetOrdering
  <2>3. 0 .. m - 1 \in Below OBVIOUS
  <2> QED BY <1>2, <1>3, <2>2, <2>3
<1> QED BY <1>4

\* A set that holds 0, and n + 1 with every n, holds every number.
LEMMA NatSetInduction ==
  ASSUME NEW T, 0 \in T, \A n \in Nat : n \in T => n + 1 \in T
  PROVE  Nat \subseteq T
<1> SUFFICES ASSUME Nat \ T # {} PROVE FALSE OBVIOUS
<1>1. PICK n \in Nat \ T : \A m \in Nat \ T : n <= m BY LeastNatural
<1>2. n - 1 \in Nat /\ n - 1 \in T BY <1>1
<1> QED BY <1>1, <1>2

\* The equation of a walk of N steps from `start' along `links' has a solution.
IsWalk(g, N, start, links) ==
  g = [i \in 0 .. N |-> IF i = 0 THEN start ELSE IF g[i - 1] = Null THEN Null ELSE links[g[i - 1]]]

LEMMA WalkExists ==
  ASSUME NEW N \in Nat, NEW start, NEW links
  PROVE  \E g : IsWalk(g, N, start, links)
<1> DEFINE Behind(b) == IF b = Null THEN Null ELSE links[b]
           Solves(g, n) == g = [i \in 0 .. n |-> IF i = 0 THEN start ELSE Behind(g[i - 1])]
           T == {n \in Nat : \E g : Solves(g, n)}
<1>1. 0 \in T
  <2> DEFINE g == [i \in 0 .. 0 |-> start]
  <2>1. Solves(g, 0) OBVIOUS
  <2> QED BY <2>1
<1>2. ASSUME NEW n \in Nat, n \in T PROVE n + 1 \in T
  <2>1. PICK g : Solves(g, n) BY <1>2
  <2> DEFINE h == [i \in 0 .. n + 1 |-> IF i = 0 THEN start ELSE Behind(g[i - 1])]
  <2>2. \A i \in 0 .. n : h[i] = g[i]
    <3> SUFFICES ASSUME NEW i \in 0 .. n PROVE h[i] = g[i] OBVIOUS
    <3>1. i \in 0 .. n + 1 OBVIOUS
    <3>2. h[i] = IF i = 0 THEN start ELSE Behind(g[i - 1]) BY <3>1
    <3>3. g[i] = IF i = 0 THEN start ELSE Behind(g[i - 1]) BY <2>1
    <3> QED BY <3>2, <3>3
  <2>3. ASSUME NEW i \in 0 .. n + 1 PROVE h[i] = IF i = 0 THEN start ELSE Behind(h[i - 1])
    <3>1. CASE i = 0 BY <3>1
    <3>2. CASE i # 0
      <4>1. i - 1 \in 0 .. n BY <3>2
      <4>2. h[i - 1] = g[i - 1] BY <2>2, <4>1
      <4> HIDE DEF Behind
      <4> QED BY <3>2, <4>2
    <3> QED BY <3>1, <3>2
  <2>4. Solves(h, n + 1)
    <3> HIDE DEF Behind
    <3>1. h = [i \in 0 .. n + 1 |-> h[i]] OBVIOUS
    <3> HIDE DEF h
    <3> QED BY <2>3, <3>1
  <2>5. n + 1 \in Nat OBVIOUS
  <2> HIDE DEF h, Solves
  <2> QED BY <2>4, <2>5
<1>3. N \in T
  <2> HIDE DEF T
  <2> QED BY <1>1, <1>2, NatSetInduction
<1> QED BY <1>3 DEF IsWalk

\* A walk along the links of a list of at most N blocks meets its blocks in order, and
\* then null.
LEMMA WalkMeetsList ==
  ASSUME NEW N \in Nat, NEW start, NEW links, NEW g,
         IsWalk(g, N, start, links),
         NEW n \in Nat, NEW list \in [1 .. n -> Blocks],
         \A i, j \in 1 .. n : list[i] = list[j] => i = j,
         start = IF n = 0 THEN Null ELSE list[1],
         n > 0 => links[list[n]] = Null,
         \A i \in 1 .. n - 1 : links[list[i]] = list[i + 1]
  PROVE  /\ n <= Cardinality(Blocks)
         /\ \A i \in 0 .. N : g[i] = IF i < n THEN list[i + 1] ELSE Null
<1>1. n <= Cardinality(Blocks)
  <2>1. list \in Injection(1 .. n, Blocks) BY DEF Injection, IsInjective
  <2>2. Cardinality(1 .. n) <= Cardinality(Blocks) BY <2>1, FS_Injection, BlocksAssumption
  <2>3. Cardinality(1 .. n) = n
    <3>1. Cardinality(1 .. n) = IF 1 > n THEN 0 ELSE n - 1 + 1 BY FS_Interval
    <3> QED BY <3>1
  <2> QED BY <2>2, <2>3
<1>2. ASSUME NEW i \in 0 .. N
      PROVE  g[i] = IF i = 0 THEN start ELSE IF g[i - 1] = Null THEN Null ELSE links[g[i - 1]]
  BY DEF IsWalk
<1>4. \A i \in 1 .. n : list[i] \in Blocks /\ list[i] # Null BY BlocksAssumption
<1> DEFINE T == {i \in Nat : i <= N => g[i] = IF i < n THEN list[i + 1] ELSE Null}
<1>5. 0 \in T BY <1>2
<1>6. ASSUME NEW i \in Nat, i \in T PROVE i + 1 \in T
  <2> SUFFICES ASSUME i + 1 <= N PROVE g[i + 1] = IF i + 1 < n THEN list[i + 2] ELSE Null
    OBVIOUS
  <2>1. g[i] = IF i < n THEN list[i + 1] ELSE Null BY <1>6
  <2>2. g[i + 1] = IF g[i] = Null THEN Null ELSE links[g[i]]
    <3>1. i + 1 \in 0 .. N /\ i + 1 # 0 /\ i + 1 - 1 = i OBVIOUS
    <3> QED BY <1>2, <3>1
  <2>3. CASE i < n
    <3>1. i + 1 \in 1 .. n BY <2>3
    <3>2. g[i + 1] = links[list[i + 1]] BY <1>4, <2>1, <2>2, <2>3, <3>1
    <3>3. CASE i + 1 < n
      <4>1. i + 1 \in 1 .. n - 1 /\ i + 1 + 1 = i + 2 BY <3>3
      <4> QED BY <3>2, <3>3, <4>1
    <3>4. CASE ~(i + 1 < n)
      <4>1. i + 1 = n /\ n > 0 BY <2>3, <3>4
      <4> QED BY <3>2, <3>4, <4>1
    <3> QED BY <3>3, <3>4
  <2>4. CASE ~(i < n)
    <3>1. ~(i + 1 < n) BY <2>4
    <3> QED BY <2>1, <2>2, <2>4, <3>1
  <2> QED BY <2>3, <2>4
<1>7. Nat \subseteq T
  <2> HIDE DEF T
  <2> QED BY <1>5, <1>6, NatSetInduction
<1>8. \A i \in 0 .. N : g[i] = IF i < n THEN list[i + 1] ELSE Null BY <1>7
<1> QED BY <1>1, <1>8

-----------------------------------------------------------------------------
(* LockFreeAllocator. *)

\* The constructor leaves a list of empty blocks that nobody uses.
LEMMA InvInit == Init => IInv
<1> SUFFICES ASSUME Init PROVE IInv OBVIOUS
<1> DEFINE n == Len(InitialBlocks)
<1>1. /\ n \in Nat \ {0}
      /\ \A i \in 1 .. n : InitialBlocks[i] \in Blocks
  BY InitialAssumption
<1>2. /\ first = InitialBlocks[1] /\ firstFree = InitialBlocks[1]
      /\ live = {InitialBlocks[i] : i \in 1 .. n}
      /\ used = [b \in Blocks |-> 0] /\ given = {}
      /\ pc = [t \in Threads |-> "idle"]
  BY DEF Init
<1>3. first \in live /\ firstFree \in live /\ live \subseteq Blocks
  BY <1>1, <1>2
<1>4. next \in [Blocks -> live \cup {Null}]
  <2>1. ASSUME NEW b \in Blocks, \E i \in 1 .. n - 1 : InitialBlocks[i] = b
        PROVE  InitialBlocks[1 + CHOOSE i \in 1 .. n - 1 : InitialBlocks[i] = b] \in live
    <3> DEFINE k == CHOOSE i \in 1 .. n - 1 : InitialBlocks[i] = b
    <3>1. k \in 1 .. n - 1 BY <2>1
    <3>2. 1 + k \in 1 .. n BY <3>1, <1>1
    <3>3. InitialBlocks[1 + k] \in live
      <4> HIDE DEF k
      <4> QED BY <3>2, <1>2
    <3> QED BY <3>3
  <2> QED BY <2>1 DEF Init
<1>5. TypeOK
  <2>1. first \in Pointers /\ firstFree \in Blocks /\ next \in [Blocks -> Pointers]
    BY <1>3, <1>4 DEF Pointers
  <2> QED BY <2>1, <1>2, <1>3, SizeAssumption DEF TypeOK, Init, Pointers
<1>6. first # Null BY <1>3, BlocksAssumption
<1> QED BY <1>2, <1>3, <1>4, <1>5, <1>6
        DEF IInv, NoOverlap, NoUseAfterFree, Using, OwnBlocksPrivate, Owns, AllIdle

-----------------------------------------------------------------------------
(* One lemma per step. *)

\* A call chooses the size and starts without a block of its own.
LEMMA CallStep ==
  ASSUME IInv, NEW t \in Threads, NEW s \in Sizes, AllocateCall(t, s)
  PROVE  IInv'
<1> USE DEF IInv, TypeOK, Goto, Pointers
<1>1. /\ pc[t] = "idle" /\ pc' = [pc EXCEPT ![t] = "load"] /\ first # Null
      /\ size' = [size EXCEPT ![t] = s]
      /\ desired' = [desired EXCEPT ![t] = Null]
      /\ allocated' = [allocated EXCEPT ![t] = FALSE]
      /\ UNCHANGED <<first, firstFree, next, used, live, expected, current, given>>
  BY DEF AllocateCall
<1>2. s \in 1 .. MAX_SIZE BY SizeAssumption
<1>3. TypeOK' BY <1>1, <1>2
<1>4. NoOverlap' BY <1>1 DEF NoOverlap, Bytes
<1>5. \A u \in Threads : Using(u)' = Using(u) BY <1>1 DEF Using
<1>6. NoUseAfterFree' BY <1>1, <1>5 DEF NoUseAfterFree
<1>7. \A u \in Threads : Owns(u)' => u # t /\ Owns(u) BY <1>1 DEF Owns
<1>8. OwnBlocksPrivate' BY <1>1, <1>5, <1>7 DEF OwnBlocksPrivate
<1> QED BY <1>1, <1>3, <1>4, <1>6, <1>8

\* Loading firstFree gives a block that nobody owns.
LEMMA LoadFirstFreeStep ==
  ASSUME IInv, NEW t \in Threads, LoadFirstFree(t)
  PROVE  IInv'
<1> USE DEF IInv, TypeOK, Goto, Pointers
<1>1. /\ pc[t] = "load" /\ pc' = [pc EXCEPT ![t] = "used"]
      /\ expected' = [expected EXCEPT ![t] = firstFree]
      /\ UNCHANGED <<first, firstFree, next, used, live, size, desired, allocated, current, given>>
  BY DEF LoadFirstFree
<1>2. first # Null BY <1>1 DEF AllIdle
<1>3. TypeOK' BY <1>1
<1>4. NoOverlap' BY <1>1 DEF NoOverlap, Bytes
<1>5. Using(t)' = {firstFree} /\ \A u \in Threads \ {t} : Using(u)' = Using(u)
  BY <1>1 DEF Using
<1>6. NoUseAfterFree' BY <1>1, <1>2, <1>5 DEF NoUseAfterFree
<1>7. \A u \in Threads : Owns(u)' = Owns(u) BY <1>1 DEF Owns
<1>8. OwnBlocksPrivate' BY <1>1, <1>5, <1>7 DEF OwnBlocksPrivate
<1> QED BY <1>1, <1>2, <1>3, <1>4, <1>6, <1>8

\* A step that only moves t on inside tryAllocate, or around the loop.
LEMMA QuietStep ==
  ASSUME IInv, NEW t \in Threads, NEW to \in {"bump", "bumpNew", "grow", "load"},
         \/ pc[t] = "used" /\ to = "bump"
         \/ pc[t] = "usedNew" /\ to = "bumpNew"
         \/ pc[t] = "bump" /\ to \in {"bump", "grow"}
         \/ pc[t] = "bumpNew" /\ to \in {"bumpNew", "load"}
         \/ pc[t] = "swing" /\ to = "load",
         pc' = [pc EXCEPT ![t] = to],
         current' \in [Threads -> 0 .. MAX_SIZE],
         UNCHANGED <<first, firstFree, next, used, live, size, expected, desired, allocated, given>>
  PROVE  IInv'
<1> USE DEF IInv, TypeOK, Pointers
<1>2. first # Null BY DEF AllIdle
<1>3. TypeOK' OBVIOUS
<1>4. NoOverlap' BY DEF NoOverlap, Bytes
<1>5. \A u \in Threads : Using(u)' \subseteq Using(u) BY DEF Using
<1>6. NoUseAfterFree' BY <1>2, <1>5 DEF NoUseAfterFree
<1>7. \A u \in Threads : Owns(u)' => Owns(u) BY DEF Owns
<1>8. \A u \in Threads : pc[u] = "load" => pc'[u] = "load" OBVIOUS
<1>9. OwnBlocksPrivate' BY <1>5, <1>7, <1>8 DEF OwnBlocksPrivate
<1> QED BY <1>2, <1>3, <1>4, <1>6, <1>9

\* Allocating in a block: the region starts where the used part ends.
LEMMA BumpStep ==
  ASSUME IInv, NEW t \in Threads, Bump(t)
  PROVE  IInv'
<1> USE DEF IInv, TypeOK, Pointers
<1> DEFINE r == Region(t)
<1>1. PICK b \in Pointers, n \in 1 .. MAX_SIZE, c \in 0 .. MAX_SIZE :
        b = Target(t) /\ n = size[t] /\ c = current[t]
  BY DEF Target
<1>2. /\ pc[t] \in {"bump", "bumpNew"} /\ pc' = [pc EXCEPT ![t] = "idle"]
      /\ c + n <= MAX_SIZE /\ used[b] = c
      /\ used' = [used EXCEPT ![b] = c + n]
      /\ live' = IF pc[t] = "bump" /\ allocated[t] THEN live \ {desired[t]} ELSE live
      /\ given' = given \cup {[block |-> b, from |-> c, size |-> n]}
      /\ UNCHANGED <<first, firstFree, next, size, expected, desired, allocated, current>>
  BY <1>1 DEF Bump, Bumping, Fits, Return, Region
<1>3. first # Null BY <1>2 DEF AllIdle
<1>4. b \in Using(t) BY <1>1, <1>2 DEF Target, Using
<1>5. b \in live /\ b \in Blocks BY <1>3, <1>4 DEF NoUseAfterFree
<1>6. \A u \in Threads \ {t} : Owns(u) => desired[u] # b
  BY <1>4 DEF OwnBlocksPrivate
<1>7. Using(t)' = {} /\ ~Owns(t)' BY <1>2 DEF Using, Owns
<1>8. \A u \in Threads \ {t} : Using(u)' = Using(u) /\ (Owns(u)' <=> Owns(u))
  BY <1>2 DEF Using, Owns
<1>9. pc[t] = "bump" /\ allocated[t] =>
        /\ desired[t] \notin {first, firstFree, b}
        /\ \A a \in live : next[a] # desired[t]
        /\ \A q \in given : q.block # desired[t]
        /\ \A u \in Threads \ {t} : desired[t] \notin Using(u) /\ (Owns(u) => desired[u] # desired[t])
  BY <1>1 DEF OwnBlocksPrivate, Owns, Target
<1>10. TypeOK'
  <2>1. c + n \in 0 .. MAX_SIZE BY <1>2, SizeAssumption
  <2> QED BY <1>2, <1>5, <2>1
<1>11. /\ \A q \in given' : q.from + q.size <= used'[q.block]
       /\ NoOverlap'
  <2>1. \A q \in given : q.block = b => q.from + q.size <= c BY <1>2
  <2>2. \A q \in given : q.block \in Blocks /\ q.from \in Nat /\ q.size \in Nat OBVIOUS
  <2>3. used'[b] = c + n /\ \A a \in Blocks \ {b} : used'[a] = used[a]
    BY <1>2, <1>5
  <2>4. \A q \in given' : q.from + q.size <= used'[q.block]
    <3> SUFFICES ASSUME NEW q \in given' PROVE q.from + q.size <= used'[q.block]
      OBVIOUS
    <3>1. CASE q = [block |-> b, from |-> c, size |-> n] BY <3>1, <2>3
    <3>2. CASE q \in given /\ q.block = b
      <4>1. q.from + q.size <= c BY <3>2, <2>1
      <4>2. q.from + q.size \in Nat BY <3>2, <2>2
      <4> QED BY <3>2, <2>3, <4>1, <4>2
    <3>3. CASE q \in given /\ q.block # b BY <3>3, <2>2, <2>3
    <3> QED BY <3>1, <3>2, <3>3, <1>2
  <2>5. \A q \in given' : q.from + q.size <= MAX_SIZE BY <1>2 DEF NoOverlap
  <2>6. \A q, p \in given' : q.block = p.block /\ q # p => Bytes(q) \cap Bytes(p) = {}
    <3>1. \A q \in given : q.block = b => Bytes(q) \cap (c .. c + n - 1) = {}
      <4> SUFFICES ASSUME NEW q \in given, q.block = b PROVE Bytes(q) \cap (c .. c + n - 1) = {}
        OBVIOUS
      <4>1. q.from + q.size <= c /\ q.from \in Nat /\ q.size \in Nat BY <2>1, <2>2
      <4> QED BY <4>1 DEF Bytes
    <3> QED BY <1>2, <3>1 DEF NoOverlap, Bytes
  <2> QED BY <2>4, <2>5, <2>6 DEF NoOverlap
<1>12. NoUseAfterFree'
  BY <1>2, <1>3, <1>5, <1>7, <1>8, <1>9 DEF NoUseAfterFree
<1>13. OwnBlocksPrivate'
  BY <1>2, <1>6, <1>7, <1>8, <1>9 DEF OwnBlocksPrivate
<1>14. first' \in live' /\ \A a \in live' : next'[a] \in live' \cup {Null}
  BY <1>2, <1>3, <1>9
<1> QED BY <1>2, <1>3, <1>10, <1>11, <1>12, <1>13, <1>14

\* The block to go on with is private, or the next one of the list.
LEMMA GrowStep ==
  ASSUME IInv, NEW t \in Threads, Grow(t)
  PROVE  IInv'
<1> USE DEF IInv, TypeOK, Pointers, Goto
<1>1. /\ pc[t] = "grow" /\ pc' = [pc EXCEPT ![t] = "swing"]
      /\ UNCHANGED <<first, firstFree, size, expected, current, given>>
  BY DEF Grow
<1>2. first # Null BY <1>1 DEF AllIdle
<1>3. expected[t] \in Using(t) /\ expected[t] \in live
  BY <1>1, <1>2 DEF Using, NoUseAfterFree
<1>4. CASE allocated[t] /\ UNCHANGED <<next, used, live, desired, allocated>>
  <2>1. Owns(t) BY <1>1, <1>4 DEF Owns
  <2>2. desired[t] \in live /\ \A u \in Threads \ {t} : Owns(u) => desired[u] # desired[t]
    BY <2>1 DEF OwnBlocksPrivate
  <2>3. Using(t)' = Using(t) \cup {desired[t]} BY <1>1, <1>4 DEF Using
  <2>4. \A u \in Threads : (Owns(u)' <=> Owns(u)) /\ (u # t => Using(u)' = Using(u))
    BY <1>1, <1>4 DEF Using, Owns
  <2>5. TypeOK' BY <1>1, <1>4
  <2>6. NoOverlap' BY <1>1 DEF NoOverlap, Bytes
  <2>7. NoUseAfterFree' BY <1>1, <1>4, <2>2, <2>3, <2>4 DEF NoUseAfterFree
  <2>8. OwnBlocksPrivate' BY <1>1, <1>4, <2>2, <2>3, <2>4 DEF OwnBlocksPrivate
  <2> QED BY <1>1, <1>2, <1>4, <2>5, <2>6, <2>7, <2>8
<1>5. CASE /\ ~allocated[t] /\ next[expected[t]] # Null
           /\ desired' = [desired EXCEPT ![t] = next[expected[t]]]
           /\ UNCHANGED <<next, used, live, allocated>>
  <2>1. PICK b \in Pointers : b = next[expected[t]] BY <1>2, <1>3
  <2>2. b \in live /\ desired'[t] = b /\ \A u \in Threads \ {t} : desired'[u] = desired[u]
    BY <1>2, <1>3, <1>5, <2>1
  <2>3. \A u \in Threads : Owns(u) => desired[u] # b
    BY <1>3, <2>1 DEF OwnBlocksPrivate
  <2>4. Using(t)' = Using(t) \cup {b} BY <1>1, <2>2 DEF Using
  <2>5. \A u \in Threads : (Owns(u)' => Owns(u) /\ u # t) /\ (u # t => Using(u)' = Using(u))
    BY <1>1, <1>5 DEF Using, Owns
  <2>6. TypeOK' BY <1>1, <1>2, <1>3, <1>5
  <2>7. NoOverlap' BY <1>1 DEF NoOverlap, Bytes
  <2>8. NoUseAfterFree' BY <1>1, <1>5, <2>2, <2>4, <2>5 DEF NoUseAfterFree
  <2>9. OwnBlocksPrivate' BY <1>1, <1>5, <2>2, <2>3, <2>4, <2>5 DEF OwnBlocksPrivate
  <2> QED BY <1>1, <1>2, <1>5, <2>6, <2>7, <2>8, <2>9
<1>6. ASSUME ~allocated[t], NEW b \in Blocks, NewBlock(t, b) PROVE IInv'
  <2>1. /\ b \notin live /\ live' = live \cup {b}
        /\ next' = [next EXCEPT ![b] = Null]
        /\ used' = [used EXCEPT ![b] = 0]
        /\ desired' = [desired EXCEPT ![t] = b]
        /\ allocated' = [allocated EXCEPT ![t] = TRUE]
    BY <1>6 DEF NewBlock
  <2>2. Using(t)' = Using(t) \cup {b} BY <1>1, <2>1 DEF Using
  <2>3. \A u \in Threads \ {t} : (Owns(u)' <=> Owns(u)) /\ Using(u)' = Using(u) /\ desired'[u] = desired[u]
    BY <1>1, <2>1 DEF Using, Owns
  <2>4. TypeOK' BY <1>1, <2>1, SizeAssumption
  <2>5. NoOverlap' BY <1>1 DEF NoOverlap, Bytes
  <2>6. NoUseAfterFree' BY <1>1, <2>1, <2>2, <2>3 DEF NoUseAfterFree
  <2>7. \A r \in given : r.block \in live
    BY <1>2 DEF NoUseAfterFree
  <2>8. /\ \A u \in Threads : b \notin Using(u)
        /\ b \notin {first, firstFree, expected[t]}
        /\ \A u \in Threads : Owns(u) => desired[u] # b
    BY <1>2, <1>3, <2>1 DEF NoUseAfterFree, OwnBlocksPrivate
  <2>9. /\ next'[b] = Null /\ \A a \in live : next'[a] = next[a] /\ next'[a] # b
        /\ desired'[t] = b /\ b # Null
    BY <1>2, <2>1, BlocksAssumption
  <2>10. OwnBlocksPrivate'
    <3> SUFFICES ASSUME NEW u \in Threads, Owns(u)'
                 PROVE  /\ desired'[u] \in live'
                        /\ desired'[u] \notin {first, firstFree}
                        /\ \A a \in live' : next'[a] # desired'[u]
                        /\ \A r \in given : r.block # desired'[u]
                        /\ pc'[u] # "load" => expected[u] # desired'[u]
                        /\ \A v \in Threads \ {u} :
                             desired'[u] \notin Using(v)' /\ (Owns(v)' => desired'[v] # desired'[u])
      BY <1>1 DEF OwnBlocksPrivate
    <3>1. CASE u = t BY <3>1, <2>1, <2>3, <2>7, <2>8, <2>9
    <3>2. CASE u # t
      <4>1. /\ desired[u] \in live /\ desired[u] \notin {first, firstFree}
            /\ \A a \in live : next[a] # desired[u]
            /\ \A r \in given : r.block # desired[u]
            /\ pc[u] # "load" => expected[u] # desired[u]
            /\ \A v \in Threads \ {u} :
                 desired[u] \notin Using(v) /\ (Owns(v) => desired[v] # desired[u])
        BY <3>2, <2>3 DEF OwnBlocksPrivate
      <4>2. desired'[u] = desired[u] /\ pc'[u] = pc[u] /\ desired[u] # b /\ desired[u] # Null
        BY <3>2, <4>1, <2>1, <2>3, <1>1, BlocksAssumption
      <4>3. \A v \in Threads \ {u} :
              desired[u] \notin Using(v)' /\ (Owns(v)' => desired'[v] # desired[u])
        BY <4>1, <4>2, <2>2, <2>3, <2>9
      <4> QED BY <4>1, <4>2, <4>3, <2>1, <2>9
    <3> QED BY <3>1, <3>2
  <2>11. \A r \in given : r.from + r.size <= used'[r.block]
    BY <2>1, <2>7
  <2> QED BY <1>1, <1>2, <2>1, <2>4, <2>5, <2>6, <2>9, <2>10, <2>11
<1> QED BY <1>4, <1>5, <1>6 DEF Grow

\* The swing gives the thread's block, private or listed, to everybody.
LEMMA SwingStep ==
  ASSUME IInv, NEW t \in Threads, Swing(t)
  PROVE  IInv'
<1> USE DEF IInv, TypeOK, Pointers, Goto
<1>1. PICK b \in Pointers : b = desired[t] OBVIOUS
<1>2. /\ pc[t] = "swing" /\ pc' = [pc EXCEPT ![t] = "link"] /\ firstFree' = b
      /\ UNCHANGED <<first, next, used, live, size, expected, desired, allocated, current, given>>
  BY <1>1 DEF Swing
<1>3. first # Null BY <1>2 DEF AllIdle
<1>4. b \in Using(t) /\ b \in live BY <1>1, <1>2, <1>3 DEF Using, NoUseAfterFree
<1>5. \A u \in Threads : Using(u)' = Using(u) /\ (Owns(u)' => Owns(u) /\ u # t)
  BY <1>2 DEF Using, Owns
<1>6. \A u \in Threads \ {t} : Owns(u) => desired[u] # b
  BY <1>4 DEF OwnBlocksPrivate
<1>7. TypeOK' BY <1>2, <1>4
<1>8. NoOverlap' BY <1>2 DEF NoOverlap, Bytes
<1>9. NoUseAfterFree' BY <1>2, <1>4, <1>5 DEF NoUseAfterFree
<1>10. OwnBlocksPrivate' BY <1>2, <1>5, <1>6 DEF OwnBlocksPrivate
<1> QED BY <1>2, <1>3, <1>7, <1>8, <1>9, <1>10

\* Linking writes the pointer of a listed block to a block that is not private.
LEMMA LinkStep ==
  ASSUME IInv, NEW t \in Threads, Link(t)
  PROVE  IInv'
<1> USE DEF IInv, TypeOK, Pointers, Goto
<1>1. PICK b \in Pointers, e \in Pointers : b = desired[t] /\ e = expected[t] OBVIOUS
<1>2. /\ pc[t] = "link" /\ pc' = [pc EXCEPT ![t] = "usedNew"]
      /\ next' = [next EXCEPT ![e] = b]
      /\ allocated' = [allocated EXCEPT ![t] = FALSE]
      /\ UNCHANGED <<first, firstFree, used, live, size, expected, desired, current, given>>
  BY <1>1 DEF Link
<1>3. first # Null BY <1>2 DEF AllIdle
<1>4. b \in Using(t) /\ b \in live /\ e \in live
  BY <1>1, <1>2, <1>3 DEF Using, NoUseAfterFree
<1>5. \A u \in Threads : Using(u)' \subseteq Using(u) /\ (Owns(u)' => Owns(u) /\ u # t)
  BY <1>2 DEF Using, Owns
<1>6. \A u \in Threads \ {t} : Owns(u) => desired[u] # b
  BY <1>4 DEF OwnBlocksPrivate
<1>7. TypeOK' BY <1>2, <1>4
<1>8. NoOverlap' BY <1>2 DEF NoOverlap, Bytes
<1>9. NoUseAfterFree' BY <1>2, <1>4, <1>5 DEF NoUseAfterFree
<1>10. OwnBlocksPrivate'
  <2>1. \A a \in live : next'[a] = b \/ next'[a] = next[a] BY <1>2
  <2>2. \A u \in Threads : pc[u] = "load" => pc'[u] = "load" BY <1>2
  <2> QED BY <1>2, <1>5, <1>6, <2>1, <2>2 DEF OwnBlocksPrivate
<1>11. \A a \in live : next'[a] \in live \cup {Null} BY <1>2, <1>3, <1>4
<1> QED BY <1>2, <1>3, <1>7, <1>8, <1>9, <1>10, <1>11

\* After clear nothing is handed out.
LEMMA ClearStep ==
  ASSUME IInv, Clear
  PROVE  IInv'
<1> USE DEF IInv, TypeOK, Pointers, threadVars
<1>1. /\ first # Null /\ AllIdle
      /\ used' \in [Blocks -> 0 .. MAX_SIZE] /\ firstFree' = first /\ given' = {}
      /\ UNCHANGED <<first, next, live, threadVars>>
  BY SizeAssumption DEF Clear
<1>2. \A t \in Threads : Using(t)' = {} /\ ~Owns(t)' BY <1>1 DEF AllIdle, Using, Owns
<1>3. TypeOK' BY <1>1
<1>4. NoOverlap' BY <1>1 DEF NoOverlap
<1>5. NoUseAfterFree' BY <1>1, <1>2 DEF NoUseAfterFree
<1>6. OwnBlocksPrivate' BY <1>2 DEF OwnBlocksPrivate
<1> QED BY <1>1, <1>3, <1>4, <1>5, <1>6

\* After the destructor nobody uses the allocator.
LEMMA DestroyStep ==
  ASSUME IInv, Destroy
  PROVE  IInv'
<1> USE DEF IInv, TypeOK, Pointers, threadVars
<1>1. /\ AllIdle /\ first' = Null /\ given' = {} /\ live' \subseteq live
      /\ UNCHANGED <<firstFree, next, used, threadVars>>
  BY DEF Destroy
<1>2. \A t \in Threads : Using(t)' = {} /\ ~Owns(t)' BY <1>1 DEF AllIdle, Using, Owns
<1>3. TypeOK' BY <1>1
<1>4. NoOverlap' BY <1>1 DEF NoOverlap
<1>5. NoUseAfterFree' BY <1>1 DEF NoUseAfterFree
<1>6. OwnBlocksPrivate' BY <1>2 DEF OwnBlocksPrivate
<1>7. AllIdle' BY <1>1 DEF AllIdle
<1> QED BY <1>1, <1>3, <1>4, <1>5, <1>6, <1>7 DEF AllIdle

-----------------------------------------------------------------------------

\* Every step keeps the invariant.
LEMMA InvStep == IInv /\ [Next]_vars => IInv'
<1> SUFFICES ASSUME IInv, [Next]_vars PROVE IInv'
  OBVIOUS
<1>t. current \in [Threads -> 0 .. MAX_SIZE] /\ pc \in [Threads -> {"idle", "load", "used", "bump", "grow", "swing", "link", "usedNew", "bumpNew"}]
  BY DEF IInv, TypeOK
<1>u. \A t \in Threads : pc[t] # "idle" => Target(t) \in Pointers
  BY DEF IInv, TypeOK, Target
<1>v. \A t \in Threads : pc[t] \in {"used", "bump", "usedNew", "bumpNew"} => used[Target(t)] \in 0 .. MAX_SIZE
  <2> SUFFICES ASSUME NEW t \in Threads, pc[t] \in {"used", "bump", "usedNew", "bumpNew"}
               PROVE  used[Target(t)] \in 0 .. MAX_SIZE
    OBVIOUS
  <2>1. first # Null BY DEF IInv, AllIdle
  <2>2. Target(t) \in Using(t) BY DEF Target, Using
  <2>3. Target(t) \in Blocks BY <2>1, <2>2 DEF IInv, NoUseAfterFree, TypeOK
  <2> QED BY <2>3 DEF IInv, TypeOK
<1>1. ASSUME NEW t \in Threads, AllocateStep(t) PROVE IInv'
  <2>1. CASE LoadFirstFree(t) BY <2>1, LoadFirstFreeStep
  <2>2. CASE LoadUsed(t)
    <3>1. current' \in [Threads -> 0 .. MAX_SIZE] BY <2>2, <1>t, <1>v DEF LoadUsed, Goto
    <3> QED BY <2>2, <3>1, QuietStep DEF LoadUsed, Goto
  <2>3. CASE Bump(t) BY <2>3, BumpStep
  <2>4. CASE BumpRetry(t)
    <3>1. current' \in [Threads -> 0 .. MAX_SIZE]
      BY <2>4, <1>t, <1>v DEF BumpRetry, Bumping
    <3>2. pc' = [pc EXCEPT ![t] = pc[t]] BY <2>4, <1>t DEF BumpRetry
    <3>3. pc[t] \in {"bump", "bumpNew"} BY <2>4 DEF BumpRetry, Bumping
    <3>4. UNCHANGED <<first, firstFree, next, used, live, size, expected, desired, allocated, given>>
      BY <2>4 DEF BumpRetry
    <3>5. CASE pc[t] = "bump"
      <4>1. pc' = [pc EXCEPT ![t] = "bump"] BY <3>2, <3>5
      <4> QED BY <3>1, <3>4, <3>5, <4>1, QuietStep
    <3>6. CASE pc[t] = "bumpNew"
      <4>1. pc' = [pc EXCEPT ![t] = "bumpNew"] BY <3>2, <3>6
      <4> QED BY <3>1, <3>4, <3>6, <4>1, QuietStep
    <3> QED BY <3>3, <3>5, <3>6
  <2>5. CASE BumpFull(t) BY <2>5, <1>t, QuietStep DEF BumpFull, Goto
  <2>6. CASE Grow(t) BY <2>6, GrowStep
  <2>7. CASE Swing(t) BY <2>7, SwingStep
  <2>8. CASE SwingFail(t) BY <2>8, <1>t, QuietStep DEF SwingFail, Goto
  <2>9. CASE Link(t) BY <2>9, LinkStep
  <2> QED BY <1>1, <2>1, <2>2, <2>3, <2>4, <2>5, <2>6, <2>7, <2>8, <2>9 DEF AllocateStep
<1>2. CASE UNCHANGED vars \/ Destroyed
  <2>1. UNCHANGED vars BY <1>2 DEF Destroyed
  <2> QED BY <2>1
    DEF vars, threadVars, IInv, TypeOK, NoOverlap, Bytes, NoUseAfterFree, Using, AllIdle,
        OwnBlocksPrivate, Owns
<1> QED BY <1>1, <1>2, CallStep, ClearStep, DestroyStep DEF Next

\* The invariant of the allocator, whatever the threads and the sizes: regions
\* end before the counter of their block, and a block that may be deleted is
\* known to the thread that constructed it and to nobody else.
THEOREM AllocatorSound == Spec => []IInv
BY InvInit, InvStep, PTL DEF Spec

\* Every variable keeps its type; no counter passes the size of the block.
THEOREM TypeCorrect == Spec => []TypeOK
<1>1. IInv => TypeOK BY DEF IInv
<1> QED BY <1>1, AllocatorSound, PTL

\* Two allocations never share memory.
THEOREM AllocationsDisjoint == Spec => []NoOverlap
<1>1. IInv => NoOverlap BY DEF IInv
<1> QED BY <1>1, AllocatorSound, PTL

\* No thread touches a block that was deleted, and no allocation lies in one.
THEOREM DeletedBlocksUnused == Spec => []NoUseAfterFree
<1>1. IInv => NoUseAfterFree BY DEF IInv
<1> QED BY <1>1, AllocatorSound, PTL

-----------------------------------------------------------------------------
(* The list.  While threads allocate it may be torn: a thread that has moved  *)
(* firstFree on has still to link the block.                                  *)

\* The sequence of blocks that the list is, or will be when all links are done.
Sequence(list, n) ==
  /\ n \in Nat \ {0} /\ list \in [1 .. n -> Blocks]
  /\ \A i, j \in 1 .. n : list[i] = list[j] => i = j

\* A thread in tryAllocate(*expected) and behind it has expected from the used part
\* of the list; it moves on because the block was full, and to the next one.
AtPrevious == {"used", "bump", "grow", "swing", "link"}
Previous(t, list, n, pos) ==
  pc[t] \in AtPrevious =>
    \E i \in 1 .. pos :
      /\ expected[t] = list[i]
      /\ pc[t] = "bump" => current[t] <= used[list[i]]
      /\ pc[t] \in {"grow", "swing"} => used[list[i]] > 0
      /\ pc[t] = "swing" /\ ~allocated[t] => i < n /\ desired[t] = list[i + 1]
      /\ pc[t] = "link" => i < pos /\ desired[t] = list[i + 1]

\* A thread in tryAllocate(*desired) works on the used part of the list.
Reached(t, list, pos) ==
  pc[t] \in {"usedNew", "bumpNew"} => \E i \in 1 .. pos : desired[t] = list[i]

\* A link may be missing, and a thread may own a block, only when the list is used
\* up to its end.
Linked(list, n, pos) ==
  /\ next[list[n]] = Null
  /\ \A i \in 1 .. n - 1 :
       \/ next[list[i]] = list[i + 1]
       \/ next[list[i]] = Null /\ pos = n /\ \E t \in Threads : pc[t] = "link" /\ expected[t] = list[i]

OwnedBehind(t, list, n, pos) ==
  Owns(t) => /\ pos = n
             /\ next[desired[t]] = Null
             /\ \A i \in 1 .. n : desired[t] # list[i]

\* The blocks in front of firstFree are in use, those behind it are not.
UsedTo(list, n, pos) ==
  \A i \in 1 .. n : (i < pos => used[list[i]] > 0) /\ (i > pos => used[list[i]] = 0)

AllLive(list, n) ==
  \A b : b \in live <=> (\E i \in 1 .. n : b = list[i]) \/ \E t \in Threads : Owns(t) /\ b = desired[t]

Shape(list, n, pos) ==
  /\ Sequence(list, n) /\ pos \in 1 .. n
  /\ first = list[1] /\ firstFree = list[pos]
  /\ AllLive(list, n)
  /\ Linked(list, n, pos)
  /\ UsedTo(list, n, pos)
  /\ \A t \in Threads :
       Previous(t, list, n, pos) /\ Reached(t, list, pos) /\ OwnedBehind(t, list, n, pos)

ListInv ==
  IF first = Null THEN live = {} ELSE \E list, n, pos : Shape(list, n, pos)

\* The constructor links the blocks in order.
LEMMA ListInit == Init => ListInv
<1> SUFFICES ASSUME Init PROVE Shape(InitialBlocks, Len(InitialBlocks), 1) /\ first # Null
  BY DEF ListInv
<1> DEFINE n == Len(InitialBlocks)
<1>1. Sequence(InitialBlocks, n) BY InitialAssumption DEF Sequence
<1>2. /\ first = InitialBlocks[1] /\ firstFree = InitialBlocks[1]
      /\ live = {InitialBlocks[i] : i \in 1 .. n}
      /\ used = [b \in Blocks |-> 0]
      /\ pc = [t \in Threads |-> "idle"]
      /\ next = [b \in Blocks |->
           IF \E i \in 1 .. n - 1 : InitialBlocks[i] = b
           THEN InitialBlocks[1 + CHOOSE i \in 1 .. n - 1 : InitialBlocks[i] = b]
           ELSE Null]
  BY DEF Init
<1> HIDE DEF n
<1>3. next[InitialBlocks[n]] = Null
  <2>1. ~\E i \in 1 .. n - 1 : InitialBlocks[i] = InitialBlocks[n] BY <1>1 DEF Sequence
  <2> QED BY <1>1, <1>2, <2>1 DEF Sequence
<1>4. ASSUME NEW i \in 1 .. n - 1 PROVE next[InitialBlocks[i]] = InitialBlocks[i + 1]
  <2> DEFINE k == CHOOSE j \in 1 .. n - 1 : InitialBlocks[j] = InitialBlocks[i]
  <2>1. k \in 1 .. n - 1 /\ InitialBlocks[k] = InitialBlocks[i] OBVIOUS
  <2>2. InitialBlocks[i] \in Blocks BY <1>1 DEF Sequence
  <2>3. next[InitialBlocks[i]] = InitialBlocks[1 + k] BY <1>2, <2>2
  <2> HIDE DEF k
  <2>4. k = i BY <1>1, <2>1 DEF Sequence
  <2> QED BY <2>3, <2>4
<1>5. Linked(InitialBlocks, n, 1) BY <1>3, <1>4 DEF Linked
<1>6. UsedTo(InitialBlocks, n, 1) BY <1>1, <1>2 DEF UsedTo, Sequence
<1>7. \A t \in Threads : pc[t] = "idle" /\ ~Owns(t) BY <1>2 DEF Owns
<1>8. AllLive(InitialBlocks, n) BY <1>2, <1>7 DEF AllLive
<1>9. \A t \in Threads : /\ Previous(t, InitialBlocks, n, 1) /\ Reached(t, InitialBlocks, 1)
                         /\ OwnedBehind(t, InitialBlocks, n, 1)
  BY <1>7 DEF Previous, Reached, OwnedBehind, AtPrevious
<1>10. first # Null BY <1>1, <1>2, BlocksAssumption DEF Sequence
<1>11. 1 \in 1 .. n BY <1>1 DEF Sequence
<1> QED BY <1>1, <1>2, <1>5, <1>6, <1>8, <1>9, <1>10, <1>11 DEF Shape, n

\* A step of t that changes neither the list nor the blocks, and neither begins
\* nor ends a link.
LEMMA ThreadStepKeepsShape ==
  ASSUME IInv, NEW list, NEW n, NEW pos, Shape(list, n, pos), NEW t \in Threads,
         UNCHANGED <<first, firstFree, next, used, live>>,
         pc[t] # "link",
         \A u \in Threads \ {t} :
           /\ pc'[u] = pc[u] /\ expected'[u] = expected[u] /\ desired'[u] = desired[u]
           /\ allocated'[u] = allocated[u] /\ current'[u] = current[u],
         Owns(t)' <=> Owns(t), Owns(t) => desired'[t] = desired[t],
         Previous(t, list, n, pos)', Reached(t, list, pos)'
  PROVE  Shape(list, n, pos)'
<1>1. \A u \in Threads : (Owns(u)' <=> Owns(u)) /\ (Owns(u) => desired'[u] = desired[u])
  BY DEF Owns
<1>2. AllLive(list, n)' BY <1>1 DEF Shape, AllLive
<1>3. Linked(list, n, pos)' BY DEF Shape, Linked
<1>4. UsedTo(list, n, pos)' BY DEF Shape, UsedTo
<1>5. \A u \in Threads : OwnedBehind(u, list, n, pos)' BY <1>1 DEF Shape, OwnedBehind
<1>6. ASSUME NEW u \in Threads PROVE Previous(u, list, n, pos)' /\ Reached(u, list, pos)'
  <2>1. CASE u = t BY <2>1
  <2>2. CASE u # t BY <2>2 DEF Shape, Previous, Reached
  <2> QED BY <2>1, <2>2
<1> QED BY <1>2, <1>3, <1>4, <1>5, <1>6 DEF Shape, Sequence

\* The calls and the reads of allocate.
LEMMA ReadStepKeepsShape ==
  ASSUME IInv, NEW list, NEW n, NEW pos, Shape(list, n, pos), NEW t \in Threads,
         \/ \E s \in Sizes : AllocateCall(t, s)
         \/ LoadFirstFree(t) \/ LoadUsed(t) \/ BumpRetry(t) \/ BumpFull(t) \/ SwingFail(t)
  PROVE  Shape(list, n, pos)'
<1> USE DEF Goto
<1>t. /\ pc \in [Threads -> {"idle", "load", "used", "bump", "grow", "swing", "link", "usedNew", "bumpNew"}]
      /\ expected \in [Threads -> Pointers] /\ desired \in [Threads -> Pointers]
      /\ allocated \in [Threads -> BOOLEAN] /\ current \in [Threads -> 0 .. MAX_SIZE]
      /\ size \in [Threads -> 1 .. MAX_SIZE] /\ used \in [Blocks -> 0 .. MAX_SIZE]
      /\ n \in Nat \ {0} /\ pos \in 1 .. n /\ list \in [1 .. n -> Blocks] /\ firstFree = list[pos]
      /\ \A u \in Threads : pc[u] \in {"usedNew", "bumpNew"} => ~allocated[u]
      /\ Previous(t, list, n, pos) /\ Reached(t, list, pos)
  BY DEF IInv, TypeOK, Shape, Sequence
<1>1. ASSUME NEW s \in Sizes, AllocateCall(t, s) PROVE Shape(list, n, pos)'
  <2>1. pc[t] = "idle" /\ pc'[t] = "load" /\ allocated'[t] = FALSE BY <1>1, <1>t DEF AllocateCall
  <2>2. Previous(t, list, n, pos)' /\ Reached(t, list, pos)' BY <2>1 DEF Previous, Reached, AtPrevious
  <2>3. ~Owns(t) /\ ~Owns(t)' BY <2>1 DEF Owns
  <2> QED BY <1>1, <1>t, <2>1, <2>2, <2>3, ThreadStepKeepsShape DEF AllocateCall
<1>2. CASE LoadFirstFree(t)
  <2>1. /\ pc[t] = "load" /\ pc'[t] = "used" /\ expected'[t] = firstFree
        /\ UNCHANGED <<first, firstFree, next, used, live, desired, allocated, current>>
        /\ pc' = [pc EXCEPT ![t] = "used"] /\ expected' = [expected EXCEPT ![t] = firstFree]
    BY <1>2, <1>t DEF LoadFirstFree
  <2>2. Previous(t, list, n, pos)' /\ Reached(t, list, pos)'
    BY <1>t, <2>1 DEF Previous, Reached, AtPrevious
  <2>3. (Owns(t)' <=> Owns(t)) /\ desired'[t] = desired[t] BY <2>1 DEF Owns
  <2> QED BY <2>1, <2>2, <2>3, ThreadStepKeepsShape
<1>3. CASE LoadUsed(t)
  <2>1. /\ current' = [current EXCEPT ![t] = used[Target(t)]]
        /\ UNCHANGED <<first, firstFree, next, used, live, desired, expected, allocated>>
        /\ \/ pc[t] = "used" /\ pc' = [pc EXCEPT ![t] = "bump"] /\ Target(t) = expected[t]
           \/ pc[t] = "usedNew" /\ pc' = [pc EXCEPT ![t] = "bumpNew"]
    BY <1>3, <1>t DEF LoadUsed, Target
  <2>2. Previous(t, list, n, pos)' /\ Reached(t, list, pos)'
    <3>1. CASE pc[t] = "used"
      <4>1. pc'[t] = "bump" /\ current'[t] = used[expected[t]] /\ expected'[t] = expected[t]
        BY <1>t, <2>1, <3>1
      <4>2. PICK i \in 1 .. pos : expected[t] = list[i] BY <1>t, <3>1 DEF Previous, AtPrevious
      <4>3. used[list[i]] \in Nat BY <1>t
      <4> QED BY <2>1, <4>1, <4>2, <4>3 DEF Previous, Reached, AtPrevious
    <3>2. CASE pc[t] = "usedNew" BY <1>t, <2>1, <3>2 DEF Previous, Reached, AtPrevious
    <3> QED BY <2>1, <3>1, <3>2
  <2>3. (Owns(t)' <=> Owns(t)) /\ desired'[t] = desired[t] BY <1>t, <2>1 DEF Owns
  <2> QED BY <1>t, <2>1, <2>2, <2>3, ThreadStepKeepsShape
<1>4. CASE BumpRetry(t)
  <2>1. /\ current' = [current EXCEPT ![t] = used[Target(t)]]
        /\ UNCHANGED <<first, firstFree, next, used, live, desired, expected, allocated, pc>>
        /\ \/ pc[t] = "bump" /\ Target(t) = expected[t]
           \/ pc[t] = "bumpNew"
    BY <1>4, <1>t DEF BumpRetry, Bumping, Target
  <2>2. Previous(t, list, n, pos)' /\ Reached(t, list, pos)'
    <3>1. CASE pc[t] = "bump"
      <4>1. current'[t] = used[expected[t]] BY <1>t, <2>1, <3>1
      <4>2. PICK i \in 1 .. pos : expected[t] = list[i] BY <1>t, <3>1 DEF Previous, AtPrevious
      <4>3. used[list[i]] \in Nat BY <1>t
      <4> QED BY <2>1, <3>1, <4>1, <4>2, <4>3 DEF Previous, Reached, AtPrevious
    <3>2. CASE pc[t] = "bumpNew" BY <1>t, <2>1, <3>2 DEF Previous, Reached, AtPrevious
    <3> QED BY <2>1, <3>1, <3>2
  <2>3. (Owns(t)' <=> Owns(t)) /\ desired'[t] = desired[t] BY <2>1 DEF Owns
  <2> QED BY <1>t, <2>1, <2>2, <2>3, ThreadStepKeepsShape
<1>5. CASE BumpFull(t)
  <2>1. /\ current[t] + size[t] > MAX_SIZE
        /\ UNCHANGED <<first, firstFree, next, used, live, desired, expected, allocated, current>>
        /\ \/ pc[t] = "bump" /\ pc' = [pc EXCEPT ![t] = "grow"]
           \/ pc[t] = "bumpNew" /\ pc' = [pc EXCEPT ![t] = "load"]
    BY <1>5, <1>t, SizeAssumption DEF BumpFull, Fits
  <2>2. Previous(t, list, n, pos)' /\ Reached(t, list, pos)'
    <3>1. CASE pc[t] = "bump"
      <4>1. PICK i \in 1 .. pos : expected[t] = list[i] /\ current[t] <= used[list[i]]
        BY <1>t, <3>1 DEF Previous, AtPrevious
      <4>2. used[list[i]] \in Nat BY <1>t
      <4>3. used[list[i]] > 0 BY <1>t, <2>1, <4>1, <4>2, SizeAssumption
      <4>4. pc'[t] = "grow" BY <1>t, <2>1, <3>1
      <4> QED BY <2>1, <4>1, <4>3, <4>4 DEF Previous, Reached, AtPrevious
    <3>2. CASE pc[t] = "bumpNew" BY <1>t, <2>1, <3>2 DEF Previous, Reached, AtPrevious
    <3> QED BY <2>1, <3>1, <3>2
  <2>3. (Owns(t)' <=> Owns(t)) /\ desired'[t] = desired[t] BY <1>t, <2>1 DEF Owns
  <2> QED BY <1>t, <2>1, <2>2, <2>3, ThreadStepKeepsShape
<1>6. CASE SwingFail(t)
  <2>1. /\ pc[t] = "swing" /\ pc' = [pc EXCEPT ![t] = "load"]
        /\ UNCHANGED <<first, firstFree, next, used, live, desired, expected, allocated, current>>
    BY <1>6, <1>t DEF SwingFail
  <2>2. Previous(t, list, n, pos)' /\ Reached(t, list, pos)'
    BY <1>t, <2>1 DEF Previous, Reached, AtPrevious
  <2>3. (Owns(t)' <=> Owns(t)) /\ desired'[t] = desired[t] BY <1>t, <2>1 DEF Owns
  <2> QED BY <1>t, <2>1, <2>2, <2>3, ThreadStepKeepsShape
<1> QED BY <1>1, <1>2, <1>3, <1>4, <1>5, <1>6

\* An allocation adds to the counter of a used block, and gives up a block that the
\* thread owned.
LEMMA BumpKeepsShape ==
  ASSUME IInv, NEW list, NEW n, NEW pos, Shape(list, n, pos), NEW t \in Threads, Bump(t)
  PROVE  Shape(list, n, pos)'
<1>t. /\ pc \in [Threads -> {"idle", "load", "used", "bump", "grow", "swing", "link", "usedNew", "bumpNew"}]
      /\ size \in [Threads -> 1 .. MAX_SIZE] /\ used \in [Blocks -> 0 .. MAX_SIZE]
      /\ current \in [Threads -> 0 .. MAX_SIZE]
      /\ n \in Nat \ {0} /\ pos \in 1 .. n /\ list \in [1 .. n -> Blocks]
      /\ \A i, j \in 1 .. n : list[i] = list[j] => i = j
      /\ Previous(t, list, n, pos) /\ Reached(t, list, pos)
  BY DEF IInv, TypeOK, Shape, Sequence
<1>o. Owns(t) => /\ \A u \in Threads \ {t} : Owns(u) => desired[u] # desired[t]
                 /\ \A i \in 1 .. n : desired[t] # list[i]
  BY DEF IInv, OwnBlocksPrivate, Shape, OwnedBehind
<1>1. /\ pc[t] \in {"bump", "bumpNew"} /\ pc' = [pc EXCEPT ![t] = "idle"]
      /\ used' = [used EXCEPT ![Target(t)] = @ + size[t]]
      /\ live' = IF pc[t] = "bump" /\ allocated[t] THEN live \ {desired[t]} ELSE live
      /\ UNCHANGED <<first, firstFree, next, expected, desired, allocated, current>>
  BY DEF Bump, Bumping, Return
<1>2. PICK k \in 1 .. pos : Target(t) = list[k]
  BY <1>1, <1>t DEF Previous, Reached, AtPrevious, Target
<1>3. list[k] \in Blocks /\ used[list[k]] \in Nat /\ size[t] \in Nat \ {0}
  BY <1>t, SizeAssumption
<1>4. \A i \in 1 .. n : used'[list[i]] = IF i = k THEN used[list[k]] + size[t] ELSE used[list[i]]
  BY <1>1, <1>2, <1>t
<1>5. \A i \in 1 .. n : used[list[i]] \in Nat BY <1>t
<1>6. UsedTo(list, n, pos)'
  <2>1. UsedTo(list, n, pos) BY DEF Shape
  <2> QED BY <1>3, <1>4, <1>5, <2>1, <1>t DEF UsedTo
<1>7. ~Owns(t)' /\ \A u \in Threads \ {t} : (Owns(u)' <=> Owns(u)) BY <1>1, <1>t DEF Owns
<1>8. AllLive(list, n)'
  <2>1. AllLive(list, n) BY DEF Shape
  <2>2. CASE pc[t] = "bump" /\ allocated[t]
    <3>1. Owns(t) BY <2>2 DEF Owns
    <3> QED BY <1>1, <1>7, <1>o, <2>1, <2>2, <3>1 DEF AllLive
  <2>3. CASE ~(pc[t] = "bump" /\ allocated[t])
    <3>1. ~Owns(t) BY <1>1, <2>3 DEF Owns, IInv
    <3> QED BY <1>1, <1>7, <2>1, <2>3, <3>1 DEF AllLive
  <2> QED BY <2>2, <2>3
<1>9. Linked(list, n, pos)' BY <1>1, <1>t DEF Shape, Linked
<1>10. ASSUME NEW u \in Threads
       PROVE  Previous(u, list, n, pos)' /\ Reached(u, list, pos)' /\ OwnedBehind(u, list, n, pos)'
  <2>1. CASE u = t BY <1>1, <1>t, <1>7, <2>1 DEF Previous, Reached, OwnedBehind, AtPrevious
  <2>2. CASE u # t
    <3>1. pc'[u] = pc[u] BY <1>1, <1>t, <2>2
    <3>2. Reached(u, list, pos)' /\ OwnedBehind(u, list, n, pos)'
      BY <1>1, <1>7, <2>2, <3>1 DEF Shape, Reached, OwnedBehind
    <3>3. Previous(u, list, n, pos)'
      <4> SUFFICES ASSUME pc[u] \in AtPrevious PROVE Previous(u, list, n, pos)'
        BY <3>1 DEF Previous
      <4>1. PICK i \in 1 .. pos :
              /\ expected[u] = list[i]
              /\ pc[u] = "bump" => current[u] <= used[list[i]]
              /\ pc[u] \in {"grow", "swing"} => used[list[i]] > 0
              /\ pc[u] = "swing" /\ ~allocated[u] => i < n /\ desired[u] = list[i + 1]
              /\ pc[u] = "link" => i < pos /\ desired[u] = list[i + 1]
        BY DEF Shape, Previous
      <4>2. i \in 1 .. n /\ current[u] \in Nat BY <1>t
      <4>3. used'[list[i]] \in Nat /\ used'[list[i]] >= used[list[i]]
        BY <1>3, <1>4, <1>5, <4>2
      <4>4. /\ pc[u] = "bump" => current[u] <= used'[list[i]]
            /\ pc[u] \in {"grow", "swing"} => used'[list[i]] > 0
        BY <4>1, <4>2, <4>3, <1>5
      <4> QED BY <1>1, <3>1, <4>1, <4>4 DEF Previous
    <3> QED BY <3>2, <3>3
  <2> QED BY <2>1, <2>2
<1> QED BY <1>1, <1>6, <1>8, <1>9, <1>10 DEF Shape, Sequence

\* A thread constructs a block only when it has seen the end of the list, and then
\* the list is used up to its end.
LEMMA GrowKeepsShape ==
  ASSUME IInv, NEW list, NEW n, NEW pos, Shape(list, n, pos), NEW t \in Threads, Grow(t)
  PROVE  Shape(list, n, pos)'
<1>t. /\ pc \in [Threads -> {"idle", "load", "used", "bump", "grow", "swing", "link", "usedNew", "bumpNew"}]
      /\ desired \in [Threads -> Pointers] /\ allocated \in [Threads -> BOOLEAN]
      /\ used \in [Blocks -> 0 .. MAX_SIZE] /\ next \in [Blocks -> Pointers]
      /\ n \in Nat \ {0} /\ pos \in 1 .. n /\ list \in [1 .. n -> Blocks]
      /\ \A i, j \in 1 .. n : list[i] = list[j] => i = j
      /\ Previous(t, list, n, pos) /\ Reached(t, list, pos) /\ Linked(list, n, pos)
  BY DEF IInv, TypeOK, Shape, Sequence
<1>1. /\ pc[t] = "grow" /\ pc' = [pc EXCEPT ![t] = "swing"]
      /\ UNCHANGED <<first, firstFree, expected, current>>
  BY DEF Grow, Goto
<1>2. PICK i \in 1 .. pos : expected[t] = list[i] /\ used[list[i]] > 0
  BY <1>1, <1>t DEF Previous, AtPrevious
<1>3. CASE allocated[t] /\ UNCHANGED <<next, used, live, desired, allocated>>
  <2>1. Owns(t) /\ Owns(t)' BY <1>1, <1>3, <1>t DEF Owns
  <2>2. Previous(t, list, n, pos)' /\ Reached(t, list, pos)'
    BY <1>1, <1>2, <1>3, <1>t DEF Previous, Reached, AtPrevious
  <2> QED BY <1>1, <1>3, <1>t, <2>1, <2>2, ThreadStepKeepsShape
<1>4. CASE /\ ~allocated[t] /\ next[expected[t]] # Null
           /\ desired' = [desired EXCEPT ![t] = next[expected[t]]]
           /\ UNCHANGED <<next, used, live, allocated>>
  <2>1. i < n /\ next[list[i]] = list[i + 1] BY <1>2, <1>4, <1>t DEF Linked
  <2>2. Previous(t, list, n, pos)' /\ Reached(t, list, pos)'
    BY <1>1, <1>2, <1>4, <1>t, <2>1 DEF Previous, Reached, AtPrevious
  <2>3. ~Owns(t) /\ ~Owns(t)' BY <1>4 DEF Owns
  <2> QED BY <1>1, <1>4, <1>t, <2>2, <2>3, ThreadStepKeepsShape
<1>5. ASSUME ~allocated[t], next[expected[t]] = Null, NEW b \in Blocks, NewBlock(t, b)
      PROVE  Shape(list, n, pos)'
  <2>1. /\ b \notin live /\ live' = live \cup {b}
        /\ next' = [next EXCEPT ![b] = Null]
        /\ used' = [used EXCEPT ![b] = 0]
        /\ desired' = [desired EXCEPT ![t] = b]
        /\ allocated' = [allocated EXCEPT ![t] = TRUE]
    BY <1>5 DEF NewBlock
  <2>2. pos = n BY <1>2, <1>5, <1>t, BlocksAssumption DEF Linked
  <2>3. ~Owns(t) /\ Owns(t)' /\ desired'[t] = b
    BY <1>1, <1>5, <1>t, <2>1 DEF Owns
  <2>4. \A u \in Threads \ {t} :
          /\ pc'[u] = pc[u] /\ desired'[u] = desired[u] /\ allocated'[u] = allocated[u]
          /\ (Owns(u)' <=> Owns(u))
    BY <1>1, <1>t, <2>1 DEF Owns
  <2>5. AllLive(list, n) BY DEF Shape
  <2>6. \A j \in 1 .. n : list[j] # b /\ next'[list[j]] = next[list[j]] /\ used'[list[j]] = used[list[j]]
    BY <1>t, <2>1, <2>5 DEF AllLive
  <2>7. \A u \in Threads : Owns(u) => desired[u] # b BY <2>1, <2>5 DEF AllLive
  <2>8. AllLive(list, n)' BY <2>1, <2>3, <2>4, <2>5 DEF AllLive
  <2>9. Linked(list, n, pos)'
    <3>1. \A u \in Threads : pc[u] = "link" => pc'[u] = "link" BY <1>1, <2>4
    <3>2. n \in 1 .. n /\ \A j \in 1 .. n - 1 : j \in 1 .. n BY <1>t
    <3> QED BY <1>1, <1>t, <2>6, <3>1, <3>2 DEF Linked
  <2>10. UsedTo(list, n, pos)' BY <2>6 DEF Shape, UsedTo
  <2>11. \A u \in Threads : OwnedBehind(u, list, n, pos)'
    <3> SUFFICES ASSUME NEW u \in Threads, Owns(u)'
                 PROVE  next'[desired'[u]] = Null /\ \A j \in 1 .. n : desired'[u] # list[j]
      BY <2>2 DEF OwnedBehind
    <3>1. CASE u = t BY <1>t, <2>1, <2>3, <2>6, <3>1
    <3>2. CASE u # t
      <4>1. OwnedBehind(u, list, n, pos) BY DEF Shape
      <4>2. desired[u] \in live /\ live \subseteq Blocks
        BY <2>4, <3>2 DEF IInv, TypeOK, OwnBlocksPrivate
      <4> QED BY <1>t, <2>1, <2>4, <2>7, <3>2, <4>1, <4>2 DEF OwnedBehind
    <3> QED BY <3>1, <3>2
  <2>12. ASSUME NEW u \in Threads PROVE Previous(u, list, n, pos)' /\ Reached(u, list, pos)'
    <3>1. CASE u = t
      <4>1. pc'[t] = "swing" /\ allocated'[t] = TRUE /\ i \in 1 .. n BY <1>1, <1>t, <2>1
      <4> QED BY <1>1, <1>2, <1>t, <2>6, <3>1, <4>1 DEF Previous, Reached, AtPrevious
    <3>2. CASE u # t
      <4>1. Previous(u, list, n, pos) /\ Reached(u, list, pos) BY DEF Shape
      <4>2. \A j \in 1 .. pos : used'[list[j]] = used[list[j]] BY <1>t, <2>6
      <4> QED BY <1>1, <2>4, <3>2, <4>1, <4>2 DEF Previous, Reached
    <3> QED BY <3>1, <3>2
  <2> QED BY <1>1, <2>8, <2>9, <2>10, <2>11, <2>12 DEF Shape, Sequence
<1> QED BY <1>3, <1>4, <1>5 DEF Grow

\* The swing makes the next block the one that is used, or appends the thread's own.
LEMMA SwingKeepsShape ==
  ASSUME IInv, NEW list, NEW n, NEW pos, Shape(list, n, pos), NEW t \in Threads, Swing(t)
  PROVE  \E l, m, p : Shape(l, m, p)'
<1>t. /\ pc \in [Threads -> {"idle", "load", "used", "bump", "grow", "swing", "link", "usedNew", "bumpNew"}]
      /\ allocated \in [Threads -> BOOLEAN] /\ used \in [Blocks -> 0 .. MAX_SIZE]
      /\ n \in Nat \ {0} /\ pos \in 1 .. n /\ list \in [1 .. n -> Blocks]
      /\ \A i, j \in 1 .. n : list[i] = list[j] => i = j
      /\ Previous(t, list, n, pos) /\ Linked(list, n, pos) /\ OwnedBehind(t, list, n, pos)
      /\ AllLive(list, n) /\ UsedTo(list, n, pos) /\ first = list[1] /\ firstFree = list[pos]
  BY DEF IInv, TypeOK, Shape, Sequence
<1>1. /\ pc[t] = "swing" /\ pc' = [pc EXCEPT ![t] = "link"]
      /\ firstFree = expected[t] /\ firstFree' = desired[t]
      /\ UNCHANGED <<first, next, used, live, expected, desired, allocated, current>>
  BY DEF Swing, Goto
<1>2. PICK i \in 1 .. pos :
        /\ expected[t] = list[i] /\ used[list[i]] > 0
        /\ ~allocated[t] => i < n /\ desired[t] = list[i + 1]
  BY <1>1, <1>t DEF Previous, AtPrevious
<1>3. i = pos BY <1>1, <1>2, <1>t
<1>4. ~Owns(t)' /\ \A u \in Threads \ {t} : (Owns(u)' <=> Owns(u)) /\ pc'[u] = pc[u]
  BY <1>1, <1>t DEF Owns
<1>5. pc'[t] = "link" BY <1>1, <1>t
<1>6. CASE ~allocated[t]
  <2>1. /\ pos < n /\ pos + 1 \in 1 .. n /\ desired[t] = list[pos + 1]
        /\ \A j \in 1 .. pos : j \in 1 .. pos + 1
    BY <1>2, <1>3, <1>6, <1>t
  <2>2. ~Owns(t) /\ AllLive(list, n)'
    <3>1. ~Owns(t) BY <1>6 DEF Owns
    <3> QED BY <1>1, <1>4, <1>t, <3>1 DEF AllLive
  <2>3. Linked(list, n, pos + 1)' BY <1>1, <1>t, <2>1 DEF Linked
  <2>4. UsedTo(list, n, pos + 1)' BY <1>1, <1>2, <1>3, <1>t, <2>1 DEF UsedTo
  <2>5. ASSUME NEW u \in Threads
        PROVE  Previous(u, list, n, pos + 1)' /\ Reached(u, list, pos + 1)' /\ OwnedBehind(u, list, n, pos + 1)'
    <3>1. CASE u = t
      <4>1. Previous(u, list, n, pos + 1)'
        <5>1. pos \in 1 .. pos + 1 /\ pos < pos + 1 BY <1>t
        <5> QED BY <1>1, <1>2, <1>3, <1>5, <2>1, <3>1, <5>1 DEF Previous
      <4> QED BY <1>4, <1>5, <3>1, <4>1 DEF Reached, OwnedBehind
    <3>2. CASE u # t
      <4>1. Previous(u, list, n, pos) /\ Reached(u, list, pos) /\ OwnedBehind(u, list, n, pos)
        BY DEF Shape
      <4>2. ~Owns(u)' BY <1>4, <2>1, <3>2, <4>1, <1>t DEF OwnedBehind
      <4>3. Reached(u, list, pos + 1)' BY <1>1, <1>4, <2>1, <3>2, <4>1 DEF Reached
      <4>4. Previous(u, list, n, pos + 1)'
        <5>1. \A j \in 1 .. pos : j < pos => j < pos + 1 BY <1>t
        <5> QED BY <1>1, <1>4, <2>1, <3>2, <4>1, <5>1 DEF Previous
      <4> QED BY <4>2, <4>3, <4>4 DEF OwnedBehind
    <3> QED BY <3>1, <3>2
  <2>6. Shape(list, n, pos + 1)'
    BY <1>1, <1>t, <2>1, <2>2, <2>3, <2>4, <2>5 DEF Shape, Sequence
  <2> QED BY <2>6
<1>7. CASE allocated[t]
  <2>0. PICK m, l : m = n + 1 /\ l = [j \in 1 .. m |-> IF j = m THEN desired[t] ELSE list[j]]
    OBVIOUS
  <2>1. Owns(t) BY <1>1, <1>7 DEF Owns
  <2>2. /\ pos = n /\ next[desired[t]] = Null /\ desired[t] \in Blocks
        /\ \A j \in 1 .. n : desired[t] # list[j]
        /\ \A u \in Threads \ {t} : Owns(u) => desired[u] # desired[t]
    <3>1. desired[t] \in live /\ \A u \in Threads \ {t} : Owns(u) => desired[u] # desired[t]
      BY <2>1 DEF IInv, OwnBlocksPrivate
    <3>2. live \subseteq Blocks BY DEF IInv, TypeOK
    <3> QED BY <1>t, <2>1, <3>1, <3>2 DEF OwnedBehind
  <2>3. /\ m \in Nat \ {0} /\ m \in 1 .. m /\ l[m] = desired[t] /\ m # n /\ n = m - 1
        /\ \A j \in 1 .. n : j \in 1 .. m /\ l[j] = list[j] /\ j # m
        /\ \A j \in 1 .. m : j = m \/ j \in 1 .. n
        /\ 1 \in 1 .. n /\ n \in 1 .. n
    BY <1>t, <2>0
  <2>4. l \in [1 .. m -> Blocks] BY <1>t, <2>0, <2>2
  <2>5. \A j, k \in 1 .. m : l[j] = l[k] => j = k
    <3> SUFFICES ASSUME NEW j \in 1 .. m, NEW k \in 1 .. m, l[j] = l[k] PROVE j = k
      OBVIOUS
    <3>1. CASE j = m /\ k \in 1 .. n BY <2>2, <2>3, <3>1
    <3>2. CASE k = m /\ j \in 1 .. n BY <2>2, <2>3, <3>2
    <3>3. CASE j \in 1 .. n /\ k \in 1 .. n BY <1>t, <2>3, <3>3
    <3> QED BY <2>3, <3>1, <3>2, <3>3
  <2>6. AllLive(l, m)'
    <3>1. \A b : (\E j \in 1 .. m : b = l[j]) <=> b = desired[t] \/ \E j \in 1 .. n : b = list[j]
      <4> QED BY <2>3
    <3>2. \A b : b \in live' <=> (\E j \in 1 .. n : b = list[j]) \/ \E u \in Threads : Owns(u) /\ b = desired[u]
      BY <1>1, <1>t DEF AllLive
    <3>3. \A b : (\E u \in Threads : Owns(u) /\ b = desired[u])
                   <=> b = desired[t] \/ \E u \in Threads : Owns(u)' /\ b = desired'[u]
      BY <1>1, <1>4, <2>1
    <3>4. \A b : b \in live' <=> \/ \E j \in 1 .. m : b = l[j]
                              \/ \E u \in Threads : Owns(u)' /\ b = desired'[u]
      <4> SUFFICES ASSUME NEW b
                   PROVE  b \in live' <=> \/ \E j \in 1 .. m : b = l[j]
                                         \/ \E u \in Threads : Owns(u)' /\ b = desired'[u]
        OBVIOUS
      <4>1. (\E j \in 1 .. m : b = l[j]) <=> b = desired[t] \/ \E j \in 1 .. n : b = list[j] BY <3>1
      <4>2. b \in live' <=> (\E j \in 1 .. n : b = list[j]) \/ \E u \in Threads : Owns(u) /\ b = desired[u]
        BY <3>2
      <4>3. (\E u \in Threads : Owns(u) /\ b = desired[u])
              <=> b = desired[t] \/ \E u \in Threads : Owns(u)' /\ b = desired'[u]
        BY <3>3
      <4> QED BY <4>1, <4>2, <4>3
    <3> QED BY <3>4 DEF AllLive
  <2>7. Linked(l, m, m)'
    <3>1. next'[l[m]] = Null BY <1>1, <2>2, <2>3
    <3>2. ASSUME NEW j \in 1 .. n
          PROVE  \/ next'[l[j]] = l[j + 1]
                 \/ next'[l[j]] = Null /\ \E u \in Threads : pc'[u] = "link" /\ expected'[u] = l[j]
      <4>1. CASE j = n
        <5>1. next[list[n]] = Null BY <1>t DEF Linked
        <5> QED BY <1>1, <1>2, <1>3, <1>5, <2>2, <2>3, <4>1, <5>1
      <4>2. CASE j # n
        <5>1. j \in 1 .. n - 1 /\ j + 1 \in 1 .. n BY <1>t, <4>2
        <5>2. \/ next[list[j]] = list[j + 1]
              \/ next[list[j]] = Null /\ \E u \in Threads : pc[u] = "link" /\ expected[u] = list[j]
          BY <1>t, <5>1 DEF Linked
        <5>3. \A u \in Threads : pc[u] = "link" => pc'[u] = "link" BY <1>4, <1>5
        <5> QED BY <1>1, <2>3, <5>1, <5>2, <5>3
      <4> QED BY <4>1, <4>2
    <3> QED BY <2>3, <3>1, <3>2 DEF Linked
  <2>8. UsedTo(l, m, m)'
    <3> SUFFICES ASSUME NEW j \in 1 .. m
                 PROVE  (j < m => used'[l[j]] > 0) /\ (j > m => used'[l[j]] = 0)
      BY DEF UsedTo
    <3>1. j <= m BY <1>t, <2>0
    <3>2. ASSUME j < m PROVE used'[l[j]] > 0
      <4>1. j \in 1 .. n BY <1>t, <2>0, <3>2
      <4>2. used[list[j]] > 0
        <5>1. CASE j = n BY <1>2, <1>3, <2>2, <5>1
        <5>2. CASE j # n
          <6>1. j < pos BY <1>t, <2>2, <4>1, <5>2
          <6> QED BY <1>t, <4>1, <6>1 DEF UsedTo
        <5> QED BY <5>1, <5>2
      <4> QED BY <1>1, <2>3, <4>1, <4>2
    <3>3. ~(j > m) BY <1>t, <2>0, <3>1
    <3> QED BY <3>2, <3>3
  <2>9. ASSUME NEW u \in Threads
        PROVE  Previous(u, l, m, m)' /\ Reached(u, l, m)' /\ OwnedBehind(u, l, m, m)'
    <3>1. CASE u = t
      <4>1. n \in 1 .. m /\ n < m /\ n + 1 = m BY <1>t, <2>0
      <4>2. expected'[t] = l[n] /\ desired'[t] = l[m] BY <1>1, <1>2, <1>3, <2>2, <2>3
      <4>3. Previous(t, l, m, m)' BY <1>5, <4>1, <4>2 DEF Previous
      <4> QED BY <1>4, <1>5, <3>1, <4>3 DEF Reached, OwnedBehind
    <3>2. CASE u # t
      <4>1. Previous(u, list, n, pos) /\ Reached(u, list, pos) /\ OwnedBehind(u, list, n, pos)
        BY DEF Shape
      <4>2. OwnedBehind(u, l, m, m)'
        <5> SUFFICES ASSUME Owns(u) PROVE next[desired[u]] = Null /\ \A j \in 1 .. m : desired[u] # l[j]
          BY <1>1, <1>4, <3>2 DEF OwnedBehind
        <5>1. next[desired[u]] = Null /\ \A j \in 1 .. n : desired[u] # list[j] BY <4>1 DEF OwnedBehind
        <5> QED BY <2>2, <2>3, <3>2, <5>1
      <4>3. Reached(u, l, m)'
        <5> QED BY <1>1, <1>4, <2>2, <2>3, <3>2, <4>1 DEF Reached
      <4>4. Previous(u, l, m, m)'
        <5> SUFFICES ASSUME pc[u] \in AtPrevious PROVE Previous(u, l, m, m)'
          BY <1>4, <3>2 DEF Previous
        <5>1. PICK k \in 1 .. n :
                /\ expected[u] = list[k]
                /\ pc[u] = "bump" => current[u] <= used[list[k]]
                /\ pc[u] \in {"grow", "swing"} => used[list[k]] > 0
                /\ pc[u] = "swing" /\ ~allocated[u] => k < n /\ desired[u] = list[k + 1]
                /\ pc[u] = "link" => k < n /\ desired[u] = list[k + 1]
          BY <2>2, <4>1 DEF Previous
        <5>2. k \in 1 .. m /\ l[k] = list[k] /\ k < m /\ (k < n => l[k + 1] = list[k + 1])
          <6>1. k < n => k + 1 \in 1 .. n BY <1>t
          <6>2. k < m BY <1>t, <2>0
          <6> QED BY <2>3, <6>1, <6>2
        <5> QED BY <1>1, <1>4, <3>2, <5>1, <5>2 DEF Previous
      <4> QED BY <4>2, <4>3, <4>4
    <3> QED BY <3>1, <3>2
  <2>10. Shape(l, m, m)'
    <3>1. Sequence(l, m) BY <2>3, <2>4, <2>5 DEF Sequence
    <3>2. first' = l[1] /\ firstFree' = l[m] BY <1>1, <1>t, <2>3
    <3> QED BY <2>3, <2>6, <2>7, <2>8, <2>9, <3>1, <3>2 DEF Shape, Sequence
  <2> QED BY <2>10
<1> QED BY <1>6, <1>7

\* The link that was missing is there.
LEMMA LinkKeepsShape ==
  ASSUME IInv, NEW list, NEW n, NEW pos, Shape(list, n, pos), NEW t \in Threads, Link(t)
  PROVE  Shape(list, n, pos)'
<1>t. /\ pc \in [Threads -> {"idle", "load", "used", "bump", "grow", "swing", "link", "usedNew", "bumpNew"}]
      /\ allocated \in [Threads -> BOOLEAN] /\ next \in [Blocks -> Pointers]
      /\ n \in Nat \ {0} /\ pos \in 1 .. n /\ list \in [1 .. n -> Blocks]
      /\ \A i, j \in 1 .. n : list[i] = list[j] => i = j
      /\ Previous(t, list, n, pos) /\ Linked(list, n, pos) /\ AllLive(list, n)
  BY DEF IInv, TypeOK, Shape, Sequence
<1>1. /\ pc[t] = "link" /\ pc' = [pc EXCEPT ![t] = "usedNew"]
      /\ next' = [next EXCEPT ![expected[t]] = desired[t]]
      /\ allocated' = [allocated EXCEPT ![t] = FALSE]
      /\ UNCHANGED <<first, firstFree, used, live, expected, desired, current>>
  BY DEF Link, Goto
<1>2. PICK i \in 1 .. pos : expected[t] = list[i] /\ i < pos /\ desired[t] = list[i + 1]
  BY <1>1, <1>t DEF Previous, AtPrevious
<1>3. i \in 1 .. n /\ i < n /\ i + 1 \in 1 .. pos /\ list[i] \in Blocks /\ n \in 1 .. n BY <1>2, <1>t
<1>4. next'[list[i]] = list[i + 1] /\ \A b \in Blocks : b # list[i] => next'[b] = next[b]
  BY <1>1, <1>2, <1>3, <1>t
<1>5. /\ pc'[t] = "usedNew" /\ ~Owns(t) /\ ~Owns(t)'
      /\ \A u \in Threads \ {t} : (Owns(u)' <=> Owns(u)) /\ pc'[u] = pc[u] /\ allocated'[u] = allocated[u]
  BY <1>1, <1>t DEF Owns
<1>6. AllLive(list, n)' BY <1>1, <1>5, <1>t DEF AllLive
<1>7. Linked(list, n, pos)'
  <2>1. next'[list[n]] = Null
    <3>1. list[n] # list[i] /\ list[n] \in Blocks BY <1>3, <1>t
    <3> QED BY <1>4, <1>t, <3>1 DEF Linked
  <2>2. ASSUME NEW j \in 1 .. n - 1
        PROVE  \/ next'[list[j]] = list[j + 1]
               \/ next'[list[j]] = Null /\ pos = n /\ \E u \in Threads : pc'[u] = "link" /\ expected'[u] = list[j]
    <3>1. CASE j = i BY <1>4, <3>1
    <3>2. CASE j # i
      <4>1. j \in 1 .. n /\ list[j] # list[i] /\ list[j] \in Blocks BY <1>3, <1>t, <3>2
      <4>2. \/ next[list[j]] = list[j + 1]
            \/ next[list[j]] = Null /\ pos = n /\ \E u \in Threads \ {t} : pc[u] = "link" /\ expected[u] = list[j]
        BY <1>2, <1>t, <4>1 DEF Linked
      <4> QED BY <1>1, <1>4, <1>5, <4>1, <4>2
    <3> QED BY <3>1, <3>2
  <2> QED BY <2>1, <2>2 DEF Linked
<1>8. UsedTo(list, n, pos)' BY <1>1 DEF Shape, UsedTo
<1>9. ASSUME NEW u \in Threads
      PROVE  Previous(u, list, n, pos)' /\ Reached(u, list, pos)' /\ OwnedBehind(u, list, n, pos)'
  <2>1. CASE u = t BY <1>1, <1>2, <1>3, <1>5, <2>1 DEF Previous, Reached, OwnedBehind, AtPrevious
  <2>2. CASE u # t
    <3>1. Previous(u, list, n, pos) /\ Reached(u, list, pos) /\ OwnedBehind(u, list, n, pos)
      BY DEF Shape
    <3>2. Previous(u, list, n, pos)' /\ Reached(u, list, pos)'
      BY <1>1, <1>5, <2>2, <3>1 DEF Previous, Reached
    <3>3. OwnedBehind(u, list, n, pos)'
      <4> SUFFICES ASSUME Owns(u) PROVE OwnedBehind(u, list, n, pos)' BY <1>5, <2>2 DEF OwnedBehind
      <4>1. desired[u] \in live /\ live \subseteq Blocks BY DEF IInv, TypeOK, OwnBlocksPrivate
      <4>2. desired[u] # list[i] BY <1>3, <3>1 DEF OwnedBehind
      <4> QED BY <1>1, <1>4, <3>1, <4>1, <4>2 DEF OwnedBehind
    <3> QED BY <3>2, <3>3
  <2> QED BY <2>1, <2>2
<1> QED BY <1>1, <1>6, <1>7, <1>8, <1>9 DEF Shape, Sequence

-----------------------------------------------------------------------------
(* The walk along the list of a quiet allocator. *)

LEMMA WalkIsWalk == Cardinality(Blocks) \in Nat /\ IsWalk(Walk, Cardinality(Blocks), first, next)
<1>1. PICK N \in Nat : N = Cardinality(Blocks) BY FS_CardinalityType, BlocksAssumption
<1>2. PICK g : IsWalk(g, N, first, next) BY WalkExists
<1>3. IsWalk(Walk, N, first, next) BY <1>1, <1>2 DEF Walk, IsWalk
<1> QED BY <1>1, <1>3

\* Between calls nothing is owned and no link is missing: the walk meets the blocks
\* of the list, in order, and ends within as many steps as there are blocks.
LEMMA WalkAlongList ==
  ASSUME IInv, NEW list, NEW n, NEW pos, Shape(list, n, pos), AllIdle
  PROVE  /\ n <= Cardinality(Blocks)
         /\ \A i \in 0 .. Cardinality(Blocks) : Walk[i] = IF i < n THEN list[i + 1] ELSE Null
         /\ Listed = {list[i] : i \in 1 .. n}
         /\ live = Listed
<1>t. /\ n \in Nat \ {0} /\ list \in [1 .. n -> Blocks]
      /\ \A i, j \in 1 .. n : list[i] = list[j] => i = j
      /\ first = list[1] /\ Linked(list, n, pos) /\ AllLive(list, n)
  BY DEF Shape, Sequence
<1>1. PICK N \in Nat : N = Cardinality(Blocks) /\ IsWalk(Walk, N, first, next) BY WalkIsWalk
<1>2. DOMAIN Walk = 0 .. N BY <1>1 DEF IsWalk
<1> HIDE DEF Walk
<1>3. next[list[n]] = Null /\ \A i \in 1 .. n - 1 : next[list[i]] = list[i + 1]
  BY <1>t DEF Linked, AllIdle
<1>4. \A i \in 1 .. n : list[i] \in Blocks /\ list[i] # Null BY <1>t, BlocksAssumption
<1>5. first = IF n = 0 THEN Null ELSE list[1] BY <1>t
<1>6. /\ n <= Cardinality(Blocks)
      /\ \A i \in 0 .. N : Walk[i] = IF i < n THEN list[i + 1] ELSE Null
  BY <1>t, <1>1, <1>3, <1>5, WalkMeetsList
<1>7. Listed = {list[i] : i \in 1 .. n}
  <2>1. ASSUME NEW b \in Listed PROVE b \in {list[i] : i \in 1 .. n}
    <3>1. PICK i \in 0 .. N : b = Walk[i] /\ b # Null BY <1>2, <2>1 DEF Listed
    <3>2. i < n /\ b = list[i + 1] BY <1>6, <3>1
    <3>3. i + 1 \in 1 .. n BY <1>t, <3>2
    <3> QED BY <3>2, <3>3
  <2>2. ASSUME NEW i \in 1 .. n PROVE list[i] \in Listed
    <3>1. i - 1 \in 0 .. N /\ i - 1 < n /\ i - 1 + 1 = i BY <1>t, <1>1, <1>6
    <3>2. Walk[i - 1] = list[i] BY <1>6, <3>1
    <3> QED BY <1>2, <1>4, <3>1, <3>2 DEF Listed
  <2> QED BY <2>1, <2>2
<1>8. live = Listed
  <2>1. \A t \in Threads : ~Owns(t) BY DEF AllIdle, Owns
  <2> QED BY <1>7, <1>t, <2>1 DEF AllLive
<1> QED BY <1>1, <1>6, <1>7, <1>8

\* Clearing empties every block of the list and starts again at the first.
LEMMA ClearKeepsShape ==
  ASSUME IInv, NEW list, NEW n, NEW pos, Shape(list, n, pos), Clear
  PROVE  Shape(list, n, 1)'
<1>t. /\ used \in [Blocks -> 0 .. MAX_SIZE]
      /\ n \in Nat \ {0} /\ list \in [1 .. n -> Blocks] /\ 1 \in 1 .. n
      /\ Linked(list, n, pos) /\ AllLive(list, n)
  BY DEF IInv, TypeOK, Shape, Sequence
<1>1. /\ AllIdle
      /\ used' = [b \in Blocks |-> IF b \in Listed THEN 0 ELSE used[b]]
      /\ firstFree' = first
      /\ UNCHANGED <<first, next, live, threadVars>>
  BY DEF Clear
<1>2. Listed = {list[i] : i \in 1 .. n} BY <1>1, WalkAlongList
<1>3. \A i \in 1 .. n : used'[list[i]] = 0 BY <1>1, <1>2, <1>t
<1>4. \A t \in Threads : pc'[t] = "idle" /\ pc[t] = "idle" /\ ~Owns(t) /\ ~Owns(t)'
  BY <1>1 DEF AllIdle, Owns, threadVars
<1>5. UsedTo(list, n, 1)' BY <1>3, <1>t DEF UsedTo
<1>6. Linked(list, n, 1)' BY <1>1, <1>4, <1>t DEF Linked
<1>7. AllLive(list, n)' BY <1>1, <1>4, <1>t DEF AllLive
<1>8. \A t \in Threads :
        Previous(t, list, n, 1)' /\ Reached(t, list, 1)' /\ OwnedBehind(t, list, n, 1)'
  BY <1>4 DEF Previous, Reached, OwnedBehind, AtPrevious
<1> QED BY <1>1, <1>5, <1>6, <1>7, <1>8, <1>t DEF Shape, Sequence

\* Every step keeps the list.
LEMMA ListStep == IInv /\ ListInv /\ [Next]_vars => ListInv'
<1> SUFFICES ASSUME IInv, ListInv, [Next]_vars PROVE ListInv'
  OBVIOUS
<1>1. CASE UNCHANGED vars \/ Destroyed
  <2>1. UNCHANGED vars BY <1>1 DEF Destroyed
  <2>2. CASE first = Null BY <2>1, <2>2 DEF vars, ListInv
  <2>3. CASE first # Null
    <3>1. PICK list, n, pos : Shape(list, n, pos) BY <2>3 DEF ListInv
    <3>2. \A t \in Threads : (Owns(t)' <=> Owns(t)) BY <2>1 DEF vars, threadVars, Owns
    <3>3. /\ AllLive(list, n)' /\ Linked(list, n, pos)' /\ UsedTo(list, n, pos)'
          /\ first' = list[1] /\ firstFree' = list[pos] /\ Sequence(list, n)' /\ pos \in 1 .. n
      BY <2>1, <3>1, <3>2 DEF vars, threadVars, Shape, AllLive, Linked, UsedTo, Sequence
    <3>4. \A t \in Threads :
            Previous(t, list, n, pos)' /\ Reached(t, list, pos)' /\ OwnedBehind(t, list, n, pos)'
      BY <2>1, <3>1, <3>2 DEF vars, threadVars, Shape, Previous, Reached, OwnedBehind
    <3>5. Shape(list, n, pos)' BY <3>3, <3>4 DEF Shape
    <3> QED BY <2>1, <2>3, <3>5 DEF vars, ListInv
  <2> QED BY <2>2, <2>3
<1>2. CASE first # Null /\ Next /\ ~Destroyed
  <2>1. PICK list, n, pos : Shape(list, n, pos) BY <1>2 DEF ListInv
  <2>2. CASE Destroy
    <3>1. live' = live \ Listed /\ first' = Null /\ AllIdle BY <2>2 DEF Destroy
    <3>2. live = Listed BY <2>1, <3>1, WalkAlongList
    <3> QED BY <3>1, <3>2 DEF ListInv
  <2>3. CASE Clear
    <3>1. Shape(list, n, 1)' /\ first' # Null BY <1>2, <2>1, <2>3, ClearKeepsShape DEF Clear
    <3> QED BY <3>1 DEF ListInv
  <2>4. ASSUME NEW t \in Threads, NEW s \in Sizes, AllocateCall(t, s) PROVE ListInv'
    <3>1. Shape(list, n, pos)' /\ first' # Null
      BY <1>2, <2>1, <2>4, ReadStepKeepsShape DEF AllocateCall
    <3> QED BY <3>1 DEF ListInv
  <2>5. ASSUME NEW t \in Threads, AllocateStep(t) PROVE ListInv'
    <3>1. first' # Null
      BY <1>2, <2>5 DEF AllocateStep, LoadFirstFree, LoadUsed, Bump, BumpRetry, BumpFull, Grow, Swing, SwingFail, Link
    <3>2. \E l, m, p : Shape(l, m, p)'
      <4>1. CASE LoadFirstFree(t) \/ LoadUsed(t) \/ BumpRetry(t) \/ BumpFull(t) \/ SwingFail(t)
        BY <2>1, <4>1, ReadStepKeepsShape
      <4>2. CASE Bump(t) BY <2>1, <4>2, BumpKeepsShape
      <4>3. CASE Grow(t) BY <2>1, <4>3, GrowKeepsShape
      <4>4. CASE Swing(t) BY <2>1, <4>4, SwingKeepsShape
      <4>5. CASE Link(t) BY <2>1, <4>5, LinkKeepsShape
      <4> QED BY <2>5, <4>1, <4>2, <4>3, <4>4, <4>5 DEF AllocateStep
    <3> QED BY <3>1, <3>2 DEF ListInv
  <2> QED BY <1>2, <2>2, <2>3, <2>4, <2>5 DEF Next
<1>3. CASE first = Null /\ Next /\ ~Destroyed
  <2>1. AllIdle BY <1>3 DEF IInv
  <2>2. FALSE
    BY <1>3, <2>1
       DEF Next, AllIdle, Clear, Destroy, AllocateCall, AllocateStep, LoadFirstFree, LoadUsed, Bump, Bumping,
           BumpRetry, BumpFull, Grow, Swing, SwingFail, Link, Goto
  <2> QED BY <2>2
<1> QED BY <1>1, <1>2, <1>3

\* Whatever threads allocated before: between calls the walk along the list ends,
\* meets exactly the blocks that exist, and the memory in use lies in front of
\* firstFree and in its block.
THEOREM ListSound == Spec => []QuietListSound
<1>1. Spec => []ListInv BY ListInit, ListStep, AllocatorSound, PTL DEF Spec
<1>2. IInv /\ ListInv => QuietListSound
  <2> SUFFICES ASSUME IInv, ListInv, AllIdle, first # Null
               PROVE  /\ Walk[Cardinality(Blocks)] = Null
                      /\ live = Listed
                      /\ \A i, j \in DOMAIN Walk : firstFree = Walk[i] /\ Walk[j] # Null =>
                           (j < i => used[Walk[j]] > 0) /\ (j > i => used[Walk[j]] = 0)
    BY DEF QuietListSound, ListInv
  <2>1. PICK list, n, pos : Shape(list, n, pos) BY DEF ListInv
  <2>2. /\ n <= Cardinality(Blocks)
        /\ \A i \in 0 .. Cardinality(Blocks) : Walk[i] = IF i < n THEN list[i + 1] ELSE Null
        /\ live = Listed
    BY <2>1, WalkAlongList
  <2>3. /\ n \in Nat \ {0} /\ list \in [1 .. n -> Blocks] /\ pos \in 1 .. n
        /\ \A i, j \in 1 .. n : list[i] = list[j] => i = j
        /\ firstFree = list[pos] /\ UsedTo(list, n, pos)
    BY <2>1 DEF Shape, Sequence
  <2>d. Cardinality(Blocks) \in Nat /\ DOMAIN Walk = 0 .. Cardinality(Blocks) BY WalkIsWalk DEF IsWalk
  <2> HIDE DEF Walk
  <2>4. ASSUME NEW i \in DOMAIN Walk, NEW j \in DOMAIN Walk, firstFree = Walk[i], Walk[j] # Null
        PROVE  (j < i => used[Walk[j]] > 0) /\ (j > i => used[Walk[j]] = 0)
    <3>1. firstFree # Null BY <2>3, BlocksAssumption
    <3>2. i \in Nat /\ j \in Nat /\ i < n /\ j < n /\ Walk[i] = list[i + 1] /\ Walk[j] = list[j + 1]
      BY <2>2, <2>4, <2>d, <3>1
    <3>3. i + 1 \in 1 .. n /\ j + 1 \in 1 .. n BY <2>3, <3>2
    <3>4. i + 1 = pos BY <2>3, <2>4, <3>2, <3>3
    <3>5. (j < i => j + 1 < pos) /\ (j > i => j + 1 > pos) BY <3>2, <3>4
    <3> QED BY <2>3, <3>2, <3>3, <3>5 DEF UsedTo
  <2>5. Walk[Cardinality(Blocks)] = Null
    <3>1. Cardinality(Blocks) \in 0 .. Cardinality(Blocks) /\ ~(Cardinality(Blocks) < n) BY <2>2, <2>3, <2>d
    <3> QED BY <2>2, <3>1
  <2> QED BY <2>2, <2>4, <2>5
<1> QED BY <1>1, <1>2, AllocatorSound, PTL

-----------------------------------------------------------------------------
(* LinearAllocator: each object has a list of blocks of its own. *)

\* The blocks that a walk from `start' along `links' meets.
ChainOf(start, links) ==
  LET at[i \in 0 .. Cardinality(Blocks)] ==
        IF i = 0 THEN start ELSE IF at[i - 1] = Null THEN Null ELSE links[at[i - 1]]
  IN {at[i] : i \in DOMAIN at} \ {Null}

IsList(start, links, list, n) ==
  /\ n \in Nat /\ list \in [1 .. n -> Blocks]
  /\ \A i, j \in 1 .. n : list[i] = list[j] => i = j
  /\ start = IF n = 0 THEN Null ELSE list[1]
  /\ n > 0 => links[list[n]] = Null
  /\ \A i \in 1 .. n - 1 : links[list[i]] = list[i + 1]

\* Behind the block from which memory is taken, nothing is in use.
Filled(free, fill, list, n, pos) ==
  n > 0 => pos \in 1 .. n /\ free = list[pos] /\ \A i \in pos + 1 .. n : fill[list[i]] = 0

Lists(start, free, links, fill) ==
  \E list, n, pos : IsList(start, links, list, n) /\ Filled(free, fill, list, n, pos)

LEMMA ListChain ==
  ASSUME NEW start, NEW links, NEW list, NEW n, IsList(start, links, list, n)
  PROVE  ChainOf(start, links) = {list[i] : i \in 1 .. n}
<1>1. PICK N \in Nat : N = Cardinality(Blocks) BY FS_CardinalityType, BlocksAssumption
<1>2. PICK g : IsWalk(g, N, start, links) BY WalkExists
<1>3. PICK at : /\ at = CHOOSE h : h = [i \in 0 .. Cardinality(Blocks) |->
                          IF i = 0 THEN start ELSE IF h[i - 1] = Null THEN Null ELSE links[h[i - 1]]]
                /\ ChainOf(start, links) = {at[i] : i \in DOMAIN at} \ {Null}
  BY DEF ChainOf
<1>4. IsWalk(at, N, start, links) BY <1>1, <1>2, <1>3 DEF IsWalk
<1>5. n <= N /\ \A i \in 0 .. N : at[i] = IF i < n THEN list[i + 1] ELSE Null
  BY <1>1, <1>4, WalkMeetsList DEF IsList
<1>6. DOMAIN at = 0 .. N BY <1>4 DEF IsWalk
<1>7. n \in Nat /\ \A i \in 1 .. n : list[i] \in Blocks /\ list[i] # Null
  BY BlocksAssumption DEF IsList
<1>8. ASSUME NEW b \in ChainOf(start, links) PROVE b \in {list[i] : i \in 1 .. n}
  <2>1. PICK i \in 0 .. N : b = at[i] /\ b # Null BY <1>3, <1>6
  <2>2. i < n /\ b = list[i + 1] BY <1>5, <2>1
  <2>3. i + 1 \in 1 .. n BY <1>7, <2>2
  <2> QED BY <2>2, <2>3
<1>9. ASSUME NEW i \in 1 .. n PROVE list[i] \in ChainOf(start, links)
  <2>1. i - 1 \in 0 .. N /\ i - 1 < n /\ i - 1 + 1 = i BY <1>5, <1>7
  <2>2. at[i - 1] = list[i] BY <1>5, <2>1
  <2> QED BY <1>3, <1>6, <1>7, <2>1, <2>2
<1> QED BY <1>8, <1>9

LEMMA ChainIs == \A o : Linear!Chain(o) = ChainOf(oFirst[o], oNext)
<1>1. Linear!Cardinality(Blocks) = Cardinality(Blocks) BY DEF Linear!Cardinality, Cardinality
<1> QED BY <1>1 DEF Linear!Chain, ChainOf

\* A list stays as it is while its links stay, and blocks of it are emptied at most.
LEMMA ListsKept ==
  ASSUME NEW start, NEW free, NEW links, NEW fill, Lists(start, free, links, fill),
         NEW links2, NEW fill2,
         \A b \in ChainOf(start, links) : links2[b] = links[b] /\ fill2[b] \in {0, fill[b]}
  PROVE  Lists(start, free, links2, fill2) /\ ChainOf(start, links2) = ChainOf(start, links)
<1>1. PICK list, n, pos : IsList(start, links, list, n) /\ Filled(free, fill, list, n, pos)
  BY DEF Lists
<1>2. ChainOf(start, links) = {list[i] : i \in 1 .. n} BY <1>1, ListChain
<1>3. \A i \in 1 .. n : links2[list[i]] = links[list[i]] /\ fill2[list[i]] \in {0, fill[list[i]]}
  BY <1>2
<1>4. IsList(start, links2, list, n) BY <1>1, <1>3 DEF IsList
<1>5. Filled(free, fill2, list, n, pos)
  <2>1. \A i \in pos + 1 .. n : n > 0 /\ pos \in 1 .. n => i \in 1 .. n BY <1>1 DEF IsList
  <2> QED BY <1>1, <1>3, <2>1 DEF Filled
<1>6. ChainOf(start, links2) = {list[i] : i \in 1 .. n} BY <1>4, ListChain
<1> QED BY <1>2, <1>4, <1>5, <1>6 DEF Lists

\* Null is the list without blocks, and the only one.
LEMMA EmptyList ==
  ASSUME NEW free, NEW links, NEW fill
  PROVE  Lists(Null, free, links, fill) /\ ChainOf(Null, links) = {}
<1>1. PICK list : list = [i \in 1 .. 0 |-> Null] OBVIOUS
<1>2. IsList(Null, links, list, 0) BY <1>1 DEF IsList
<1>3. Filled(free, fill, list, 0, 0) BY DEF Filled
<1>4. ChainOf(Null, links) = {list[i] : i \in 1 .. 0} BY <1>2, ListChain
<1> QED BY <1>2, <1>3, <1>4 DEF Lists

\* What a list says of its first block, of the one from which memory is taken, and of the
\* one behind that.
LEMMA ListFacts ==
  ASSUME NEW start, NEW free, NEW links, NEW fill, Lists(start, free, links, fill), start # Null
  PROVE  /\ start \in ChainOf(start, links) /\ free \in ChainOf(start, links)
         /\ ChainOf(start, links) \subseteq Blocks
         /\ links[free] # Null => /\ links[free] \in ChainOf(start, links) /\ links[free] # free
                                  /\ fill[links[free]] = 0
<1>1. PICK list, n, pos : IsList(start, links, list, n) /\ Filled(free, fill, list, n, pos)
  BY DEF Lists
<1>2. ChainOf(start, links) = {list[i] : i \in 1 .. n} BY <1>1, ListChain
<1>3. n \in Nat /\ n > 0 /\ start = list[1] /\ list \in [1 .. n -> Blocks] BY <1>1 DEF IsList
<1>4. pos \in 1 .. n /\ free = list[pos] BY <1>1, <1>3 DEF Filled
<1>5. CASE pos = n BY <1>1, <1>2, <1>3, <1>4, <1>5 DEF IsList
<1>6. CASE pos # n
  <2>1. pos \in 1 .. n - 1 /\ pos + 1 \in 1 .. n /\ pos + 1 \in pos + 1 .. n BY <1>3, <1>4, <1>6
  <2>2. links[free] = list[pos + 1] BY <1>1, <1>4, <2>1 DEF IsList
  <2>3. list[pos + 1] # list[pos] BY <1>1, <1>4, <2>1 DEF IsList
  <2>4. fill[list[pos + 1]] = 0 BY <1>1, <1>3, <2>1 DEF Filled
  <2> QED BY <1>2, <1>3, <1>4, <2>1, <2>2, <2>3, <2>4
<1> QED BY <1>5, <1>6

\* Memory is taken from the block of before, or from the next one.
LEMMA ListTaken ==
  ASSUME NEW start, NEW free, NEW links, NEW fill, Lists(start, free, links, fill), start # Null,
         NEW fill2, NEW target \in Blocks, \A b \in Blocks : b # target => fill2[b] = fill[b],
         target = free \/ target = links[free]
  PROVE  Lists(start, target, links, fill2)
<1>1. PICK list, n, pos : IsList(start, links, list, n) /\ Filled(free, fill, list, n, pos)
  BY DEF Lists
<1>2. ChainOf(start, links) = {list[i] : i \in 1 .. n} BY <1>1, ListChain
<1>3. n \in Nat /\ n > 0 /\ start = list[1] /\ list \in [1 .. n -> Blocks] BY <1>1 DEF IsList
<1>4. pos \in 1 .. n /\ free = list[pos] /\ \A i \in pos + 1 .. n : fill[list[i]] = 0
  BY <1>1, <1>3 DEF Filled
<1>5. \A i, j \in 1 .. n : list[i] = list[j] => i = j BY <1>1 DEF IsList
<1>6. ASSUME NEW k \in pos .. n, target = list[k] PROVE Lists(start, target, links, fill2)
  <2>1. ASSUME NEW i \in k + 1 .. n PROVE fill2[list[i]] = 0
    <3>1. i \in pos + 1 .. n /\ i \in 1 .. n /\ k \in 1 .. n /\ i # k BY <1>3, <1>4
    <3>2. list[i] # target /\ list[i] \in Blocks BY <1>3, <1>5, <1>6, <3>1
    <3> QED BY <1>4, <3>1, <3>2
  <2>2. k \in 1 .. n BY <1>3, <1>4
  <2>3. Filled(target, fill2, list, n, k) BY <1>6, <2>1, <2>2 DEF Filled
  <2> QED BY <1>1, <2>3 DEF Lists
<1>7. CASE target = free
  <2>1. pos \in pos .. n BY <1>3, <1>4
  <2> QED BY <1>4, <1>6, <1>7, <2>1
<1>8. CASE target = links[free]
  <2>1. pos # n BY <1>1, <1>3, <1>4, <1>8, BlocksAssumption DEF IsList
  <2>2. pos \in 1 .. n - 1 /\ pos + 1 \in pos .. n BY <1>3, <1>4, <2>1
  <2>3. links[free] = list[pos + 1] BY <1>1, <1>4, <2>2 DEF IsList
  <2> QED BY <1>6, <1>8, <2>2, <2>3
<1> QED BY <1>7, <1>8

\* A new block is hung on the last one, and memory is taken from it.
LEMMA ListExtended ==
  ASSUME NEW start, NEW free, NEW links, NEW fill, Lists(start, free, links, fill), start # Null,
         NEW fill2, NEW target \in Blocks, \A b \in Blocks : b # target => fill2[b] = fill[b],
         links[free] = Null, target \notin ChainOf(start, links), links[target] = Null,
         NEW links2, links2[free] = target, \A b \in Blocks : b # free => links2[b] = links[b]
  PROVE  /\ Lists(start, target, links2, fill2)
         /\ ChainOf(start, links2) = ChainOf(start, links) \cup {target}
<1>1. PICK list, n, pos : IsList(start, links, list, n) /\ Filled(free, fill, list, n, pos)
  BY DEF Lists
<1>2. ChainOf(start, links) = {list[i] : i \in 1 .. n} BY <1>1, ListChain
<1>3. n \in Nat /\ n > 0 /\ start = list[1] /\ list \in [1 .. n -> Blocks] BY <1>1 DEF IsList
<1>4. pos \in 1 .. n /\ free = list[pos] /\ \A i \in pos + 1 .. n : fill[list[i]] = 0
  BY <1>1, <1>3 DEF Filled
<1>5. \A i, j \in 1 .. n : list[i] = list[j] => i = j BY <1>1 DEF IsList
<1>6. pos = n
  <2> SUFFICES ASSUME pos # n PROVE FALSE OBVIOUS
  <2>1. pos \in 1 .. n - 1 /\ pos + 1 \in 1 .. n BY <1>3, <1>4
  <2>2. links[free] = list[pos + 1] BY <1>1, <1>4, <2>1 DEF IsList
  <2> QED BY <1>3, <2>1, <2>2, BlocksAssumption
<1>7. PICK m \in Nat : m = n + 1 BY <1>3
<1>8. PICK l : l = [i \in 1 .. m |-> IF i = m THEN target ELSE list[i]] OBVIOUS
<1>9. l[m] = target /\ m \in 1 .. m /\ \A i \in 1 .. n : i \in 1 .. m /\ l[i] = list[i] BY <1>3, <1>7, <1>8
<1>10. \A i \in 1 .. m : i = m \/ i \in 1 .. n BY <1>3, <1>7
<1>11. \A i \in 1 .. n : list[i] # target /\ list[i] \in Blocks BY <1>2, <1>3
<1>12. l \in [1 .. m -> Blocks] BY <1>8, <1>10, <1>11
<1>13. \A i, j \in 1 .. m : l[i] = l[j] => i = j BY <1>5, <1>9, <1>10, <1>11
<1>14. start = l[1] BY <1>3, <1>9
<1>15. links2[l[m]] = Null
  <2>1. target # free BY <1>4, <1>11
  <2> QED BY <1>9, <2>1
<1>16. ASSUME NEW i \in 1 .. m - 1 PROVE links2[l[i]] = l[i + 1]
  <2>1. i \in 1 .. n /\ l[i] = list[i] BY <1>3, <1>7, <1>9
  <2>2. CASE i = n BY <1>4, <1>6, <1>7, <1>9, <2>1, <2>2
  <2>3. CASE i # n
    <3>1. i \in 1 .. n - 1 /\ i + 1 \in 1 .. n BY <1>3, <2>1, <2>3
    <3>2. links[list[i]] = list[i + 1] BY <1>1, <3>1 DEF IsList
    <3>3. list[i] # free BY <1>3, <1>4, <1>5, <1>6, <2>1, <2>3
    <3> QED BY <1>9, <1>11, <2>1, <3>1, <3>2, <3>3
  <2> QED BY <2>2, <2>3
<1>17. IsList(start, links2, l, m)
  <2>1. m # 0 BY <1>3, <1>7
  <2> QED BY <1>12, <1>13, <1>14, <1>15, <1>16, <2>1 DEF IsList
<1>18. Filled(target, fill2, l, m, m) BY <1>9 DEF Filled
<1>19. ChainOf(start, links2) = {l[i] : i \in 1 .. m} BY <1>17, ListChain
<1>20. {l[i] : i \in 1 .. m} = {list[i] : i \in 1 .. n} \cup {target} BY <1>9, <1>10
<1> QED BY <1>2, <1>17, <1>18, <1>19, <1>20 DEF Lists

OwnChain(o) == ChainOf(oFirst[o], oNext)

Regions == [owner : Objects, block : Blocks, from : Nat, size : Nat \ {0}]

LinearTyped ==
  /\ oConstructed \subseteq Objects
  /\ oFirst \in [Objects -> Blocks \cup {Null}] /\ oFirstFree \in [Objects -> Blocks \cup {Null}]
  /\ oNext \in [Blocks -> Blocks \cup {Null}] /\ oUsed \in [Blocks -> 0 .. LinearMaxSize]
  /\ oLive \subseteq Blocks
  /\ oGiven \subseteq Regions

\* A block that is not live is as a constructor will find it.
DeadBlocksBlank == \A b \in Blocks \ oLive : oNext[b] = Null /\ oUsed[b] = 0

\* Each object has a list, which nobody else has, and one that was not constructed has none.
ListsOwned ==
  /\ \A o \in Objects : /\ Lists(oFirst[o], oFirstFree[o], oNext, oUsed)
                        /\ OwnChain(o) \subseteq oLive
                        /\ oFirst[o] # Null => o \in oConstructed
  /\ \A o, q \in Objects : o # q => OwnChain(o) \cap OwnChain(q) = {}
  /\ \A b \in oLive : \E o \in Objects : b \in OwnChain(o)

\* Regions lie behind each other in the used part of a block of their owner.
RegionsBelow ==
  /\ \A r \in oGiven : r.block \in OwnChain(r.owner) /\ r.from + r.size <= oUsed[r.block]
  /\ \A r, q \in oGiven : r # q /\ r.block = q.block =>
       r.from + r.size <= q.from \/ q.from + q.size <= r.from

LinearInv == LinearTyped /\ DeadBlocksBlank /\ ListsOwned /\ RegionsBelow

LEMMA LinearImplies == LinearInv => LinearStorageSound
<1> SUFFICES ASSUME LinearInv PROVE Linear!RegionsSound /\ Linear!BlocksOwned
  BY DEF LinearStorageSound, Linear!LinearStorageSound
<1>1. \A o : Linear!Chain(o) = OwnChain(o) BY ChainIs DEF OwnChain
<1>2. ASSUME NEW r \in oGiven
      PROVE  /\ r \in Regions /\ r.from \in Nat /\ r.size \in Nat
             /\ r.block \in OwnChain(r.owner) /\ r.from + r.size <= LinearMaxSize
  <2>1. r \in Regions BY DEF LinearInv, LinearTyped
  <2>2. r.block \in Blocks /\ r.from \in Nat /\ r.size \in Nat BY <2>1 DEF Regions
  <2>3. oUsed[r.block] \in 0 .. LinearMaxSize BY <2>2 DEF LinearInv, LinearTyped
  <2>4. r.block \in OwnChain(r.owner) /\ r.from + r.size <= oUsed[r.block]
    BY DEF LinearInv, RegionsBelow
  <2> QED BY <2>1, <2>2, <2>3, <2>4, LinearAssumption
<1>3. Linear!RegionsSound
  <2>1. ASSUME NEW r \in oGiven, NEW q \in oGiven, r # q, r.block = q.block
        PROVE  (r.from .. r.from + r.size - 1) \cap (q.from .. q.from + q.size - 1) = {}
    <3>1. r.from + r.size <= q.from \/ q.from + q.size <= r.from
      BY <2>1 DEF LinearInv, RegionsBelow
    <3> QED BY <1>2, <3>1
  <2> QED BY <1>1, <1>2, <2>1 DEF Linear!RegionsSound
<1>4. Linear!BlocksOwned
  <2>1. ASSUME NEW o \in Objects, o \notin oConstructed PROVE OwnChain(o) = {}
    <3>1. oFirst[o] = Null BY <2>1 DEF LinearInv, ListsOwned
    <3> QED BY <3>1, EmptyList DEF OwnChain
  <2>2. oConstructed \subseteq Objects BY DEF LinearInv, LinearTyped
  <2>3. oLive = UNION {OwnChain(o) : o \in oConstructed}
    <3>1. ASSUME NEW b \in oLive PROVE b \in UNION {OwnChain(o) : o \in oConstructed}
      <4>1. PICK o \in Objects : b \in OwnChain(o) BY DEF LinearInv, ListsOwned
      <4> QED BY <2>1, <4>1
    <3>2. ASSUME NEW o \in oConstructed PROVE OwnChain(o) \subseteq oLive
      BY <2>2 DEF LinearInv, ListsOwned
    <3> QED BY <3>1, <3>2
  <2>4. \A o, q \in oConstructed : o # q => OwnChain(o) \cap OwnChain(q) = {}
    BY <2>2 DEF LinearInv, ListsOwned
  <2> QED BY <1>1, <2>3, <2>4 DEF Linear!BlocksOwned
<1> QED BY <1>3, <1>4

LEMMA LinearInit == Linear!Init => LinearInv
<1> SUFFICES ASSUME Linear!Init PROVE LinearInv OBVIOUS
<1>1. /\ oConstructed = {} /\ oLive = {} /\ oGiven = {}
      /\ oFirst = [o \in Objects |-> Null] /\ oFirstFree = [o \in Objects |-> Null]
      /\ oNext = [b \in Blocks |-> Null] /\ oUsed = [b \in Blocks |-> 0]
  BY DEF Linear!Init
<1>2. LinearTyped BY <1>1, LinearAssumption DEF LinearTyped
<1>3. ASSUME NEW o \in Objects
      PROVE  Lists(oFirst[o], oFirstFree[o], oNext, oUsed) /\ OwnChain(o) = {} /\ oFirst[o] = Null
  <2>1. oFirst[o] = Null BY <1>1
  <2> QED BY <2>1, EmptyList DEF OwnChain
<1>4. DeadBlocksBlank BY <1>1 DEF DeadBlocksBlank
<1>5. ListsOwned BY <1>1, <1>3 DEF ListsOwned
<1>6. RegionsBelow BY <1>1 DEF RegionsBelow
<1> QED BY <1>2, <1>4, <1>5, <1>6 DEF LinearInv

\* There are n different elements in a finite set of that many.
LEMMA Injections ==
  ASSUME NEW S, IsFiniteSet(S), NEW n \in Nat, n <= Cardinality(S)
  PROVE  \E s \in [1 .. n -> S] : \A i, j \in 1 .. n : s[i] = s[j] => i = j
<1>1. PICK m \in Nat : m = Cardinality(S) BY FS_CardinalityType
<1>2. ExistsBijection(1 .. m, S) BY <1>1, FS_NatBijection, FS_CardinalityType
<1>3. PICK f \in Bijection(1 .. m, S) : TRUE BY <1>2 DEF ExistsBijection
<1>4. f \in [1 .. m -> S] /\ \A i, j \in 1 .. m : f[i] = f[j] => i = j
  BY <1>3 DEF Bijection, Injection, IsInjective
<1>5. PICK s : s = [i \in 1 .. n |-> f[i]] OBVIOUS
<1>6. \A i \in 1 .. n : i \in 1 .. m BY <1>1
<1> QED BY <1>4, <1>5, <1>6

\* The blocks of a new object are new.
LEMMA LinearConstructKeeps ==
  ASSUME LinearInv, NEW o \in Objects, NEW n \in InitialCounts, Linear!Construct(o, n)
  PROVE  LinearInv'
<1>1. PICK S : S = Blocks \ oLive /\ IsFiniteSet(S) BY BlocksAssumption, FS_Difference
<1>2. n \in Nat /\ n # 0 /\ n <= Cardinality(S)
  <2>1. Linear!Cardinality(S) = Cardinality(S) BY DEF Linear!Cardinality, Cardinality
  <2>2. Cardinality(S) >= n BY <1>1, <2>1 DEF Linear!Construct
  <2> QED BY <1>1, <2>2, LinearAssumption, FS_CardinalityType
<1>3. PICK new : new = CHOOSE s \in [1 .. n -> S] : \A i, j \in 1 .. n : s[i] = s[j] => i = j OBVIOUS
<1>4. new \in [1 .. n -> S] /\ \A i, j \in 1 .. n : new[i] = new[j] => i = j
  <2>1. \E s \in [1 .. n -> S] : \A i, j \in 1 .. n : s[i] = s[j] => i = j BY <1>1, <1>2, Injections
  <2> QED BY <1>3, <2>1
<1>5. PICK range : range = {new[i] : i \in 1 .. n} OBVIOUS
<1>6. /\ o \notin oConstructed /\ oConstructed' = oConstructed \cup {o}
      /\ oFirst' = [oFirst EXCEPT ![o] = new[1]] /\ oFirstFree' = [oFirstFree EXCEPT ![o] = new[1]]
      /\ oNext' = [b \in Blocks |->
            IF b \in range /\ (CHOOSE i \in 1 .. n : new[i] = b) < n
            THEN new[(CHOOSE i \in 1 .. n : new[i] = b) + 1] ELSE oNext[b]]
      /\ oLive' = oLive \cup range
      /\ oUsed' = oUsed /\ oGiven' = oGiven
  BY <1>1, <1>3, <1>5 DEF Linear!Construct
<1>7. \A i \in 1 .. n : (CHOOSE j \in 1 .. n : new[j] = new[i]) = i BY <1>4
<1>8. \A i \in 1 .. n : /\ new[i] \in Blocks /\ new[i] \notin oLive /\ new[i] \in range
                        /\ oNext[new[i]] = Null /\ oUsed[new[i]] = 0
  BY <1>1, <1>4, <1>5 DEF LinearInv, DeadBlocksBlank
<1>9. \A i \in 1 .. n : oNext'[new[i]] = IF i < n THEN new[i + 1] ELSE Null BY <1>6, <1>7, <1>8
<1>10. \A b \in Blocks \ range : oNext'[b] = oNext[b] BY <1>6
<1>11. IsList(new[1], oNext', new, n) BY <1>1, <1>2, <1>4, <1>8, <1>9 DEF IsList
<1>12. Filled(new[1], oUsed', new, n, 1)
  <2>1. \A i \in 1 + 1 .. n : i \in 1 .. n BY <1>2
  <2> QED BY <1>2, <1>6, <1>8, <2>1 DEF Filled
<1>13. oFirst'[o] = new[1] /\ oFirstFree'[o] = new[1] /\ oFirst[o] = Null
  BY <1>6 DEF LinearInv, LinearTyped, ListsOwned
<1>14. Lists(oFirst'[o], oFirstFree'[o], oNext', oUsed') /\ OwnChain(o)' = range
  BY <1>5, <1>11, <1>12, <1>13, ListChain DEF Lists, OwnChain
<1>15. ASSUME NEW q \in Objects, q # o
       PROVE  /\ oFirst'[q] = oFirst[q] /\ Lists(oFirst'[q], oFirstFree'[q], oNext', oUsed')
              /\ OwnChain(q)' = OwnChain(q) /\ OwnChain(q) \subseteq oLive
  <2>1. oFirst'[q] = oFirst[q] /\ oFirstFree'[q] = oFirstFree[q]
    BY <1>6, <1>15 DEF LinearInv, LinearTyped
  <2>2. Lists(oFirst[q], oFirstFree[q], oNext, oUsed) /\ OwnChain(q) \subseteq oLive
    BY DEF LinearInv, ListsOwned
  <2>3. ASSUME NEW b \in ChainOf(oFirst[q], oNext)
        PROVE  oNext'[b] = oNext[b] /\ oUsed'[b] \in {0, oUsed[b]}
    <3>1. b \in oLive /\ b \in Blocks /\ b \notin range
      BY <1>5, <1>8, <2>2 DEF OwnChain, LinearInv, LinearTyped
    <3> QED BY <1>6, <1>10, <3>1
  <2>4. Lists(oFirst[q], oFirstFree[q], oNext', oUsed') /\ ChainOf(oFirst[q], oNext') = ChainOf(oFirst[q], oNext)
    BY <2>2, <2>3, ListsKept
  <2> QED BY <2>1, <2>2, <2>4 DEF OwnChain
<1>16. OwnChain(o) = {} BY <1>13, EmptyList DEF OwnChain
<1>17. LinearTyped'
  <2>1. oNext' \in [Blocks -> Blocks \cup {Null}]
    <3>1. ASSUME NEW b \in Blocks PROVE oNext'[b] \in Blocks \cup {Null}
      <4>1. CASE b \in range
        <5>1. PICK i \in 1 .. n : b = new[i] BY <1>5, <4>1
        <5>2. i < n => i + 1 \in 1 .. n BY <1>2
        <5> QED BY <1>8, <1>9, <5>1, <5>2
      <4>2. CASE b \notin range BY <1>10, <4>2 DEF LinearInv, LinearTyped
      <4> QED BY <4>1, <4>2
    <3> QED BY <1>6, <3>1
  <2>2. new[1] \in Blocks /\ range \subseteq Blocks BY <1>2, <1>5, <1>8
  <2> QED BY <1>6, <2>1, <2>2 DEF LinearInv, LinearTyped
<1>18. DeadBlocksBlank' BY <1>5, <1>6, <1>10 DEF LinearInv, DeadBlocksBlank
<1>19. ListsOwned'
  <2>1. ASSUME NEW q \in Objects
        PROVE  /\ Lists(oFirst'[q], oFirstFree'[q], oNext', oUsed')
               /\ OwnChain(q)' \subseteq oLive' /\ (oFirst'[q] # Null => q \in oConstructed')
    <3>1. CASE q = o BY <1>6, <1>14, <3>1
    <3>2. CASE q # o BY <1>6, <1>15, <3>2 DEF LinearInv, ListsOwned
    <3> QED BY <3>1, <3>2
  <2>2. ASSUME NEW p \in Objects, NEW q \in Objects, p # q PROVE OwnChain(p)' \cap OwnChain(q)' = {}
    <3>1. range \cap oLive = {} BY <1>5, <1>8
    <3>2. CASE p = o BY <1>14, <1>15, <2>2, <3>1, <3>2
    <3>3. CASE q = o BY <1>14, <1>15, <2>2, <3>1, <3>3
    <3>4. CASE p # o /\ q # o BY <1>15, <2>2, <3>4 DEF LinearInv, ListsOwned
    <3> QED BY <3>2, <3>3, <3>4
  <2>3. ASSUME NEW b \in oLive' PROVE \E q \in Objects : b \in OwnChain(q)'
    <3>1. CASE b \in range BY <1>14, <3>1
    <3>2. CASE b \in oLive
      <4>1. PICK q \in Objects : b \in OwnChain(q) BY <3>2 DEF LinearInv, ListsOwned
      <4> QED BY <1>15, <1>16, <4>1
    <3> QED BY <1>6, <2>3, <3>1, <3>2
  <2> QED BY <2>1, <2>2, <2>3 DEF ListsOwned
<1>20. RegionsBelow'
  <2>1. ASSUME NEW r \in oGiven PROVE r.block \in OwnChain(r.owner)'
    <3>1. r.owner \in Objects BY DEF LinearInv, LinearTyped, Regions
    <3>2. r.block \in OwnChain(r.owner) BY DEF LinearInv, RegionsBelow
    <3> QED BY <1>15, <1>16, <3>1, <3>2
  <2> QED BY <1>6, <2>1 DEF LinearInv, RegionsBelow
<1> QED BY <1>17, <1>18, <1>19, <1>20 DEF LinearInv

LEMMA LinearAllocateKeeps ==
  ASSUME LinearInv, NEW o \in Objects, NEW bytes \in LinearSizes, Linear!Allocate(o, bytes)
  PROVE  LinearInv'
<1>1. PICK b : b = oFirstFree[o] OBVIOUS
<1>2. PICK target : target = IF Linear!Full(b, bytes) THEN Linear!Following(b) ELSE b OBVIOUS
<1>3. /\ oFirst[o] # Null /\ (oNext[b] = Null => oLive # Blocks)
      /\ oNext' = (IF target = b THEN oNext ELSE [oNext EXCEPT ![b] = target])
      /\ oLive' = oLive \cup {target}
      /\ oFirstFree' = [oFirstFree EXCEPT ![o] = target]
      /\ oUsed' = [oUsed EXCEPT ![target] = @ + bytes]
      /\ oGiven' = oGiven \cup {[owner |-> o, block |-> target, from |-> oUsed[target], size |-> bytes]}
      /\ oConstructed' = oConstructed /\ oFirst' = oFirst
  BY <1>1, <1>2 DEF Linear!Allocate
<1>4. bytes \in Nat \ {0} /\ bytes <= LinearMaxSize
  <2>1. bytes \in 1 .. LinearMaxSize BY LinearAssumption
  <2> QED BY <2>1, LinearAssumption
<1>t. LinearTyped BY DEF LinearInv
<1>5. /\ Lists(oFirst[o], oFirstFree[o], oNext, oUsed) /\ OwnChain(o) \subseteq oLive
      /\ b \in OwnChain(o) /\ b \in Blocks
      /\ oNext[b] # Null => /\ oNext[b] \in OwnChain(o) /\ oNext[b] # b /\ oUsed[oNext[b]] = 0
  <2>1. Lists(oFirst[o], oFirstFree[o], oNext, oUsed) /\ OwnChain(o) \subseteq oLive
    BY DEF LinearInv, ListsOwned
  <2> QED BY <1>1, <1>3, <2>1, ListFacts DEF OwnChain
\* The block of before has room, the next one is there, or a new one is hung on.
<1>6. \/ /\ target = b /\ oUsed[b] + bytes <= LinearMaxSize
      \/ target # b /\ target = oNext[b] /\ target \in OwnChain(o) /\ oUsed[target] = 0
      \/ target # b /\ oNext[b] = Null /\ target \in Blocks \ oLive
  <2>1. CASE ~Linear!Full(b, bytes)
    <3>1. ~(oUsed[b] + bytes >= LinearMaxSize) BY <2>1 DEF Linear!Full
    <3>2. oUsed[b] \in Nat BY <1>5, <1>t, LinearAssumption DEF LinearTyped
    <3> QED BY <1>2, <1>4, <2>1, <3>1, <3>2, LinearAssumption
  <2>2. CASE Linear!Full(b, bytes)
    <3>1. target = IF oNext[b] # Null THEN oNext[b] ELSE CHOOSE c \in Blocks : c \notin oLive
      BY <1>2, <2>2 DEF Linear!Following
    <3>2. CASE oNext[b] # Null BY <1>5, <3>1, <3>2
    <3>3. CASE oNext[b] = Null
      <4>1. \E c \in Blocks : c \notin oLive BY <1>3, <1>t, <3>3 DEF LinearTyped
      <4>2. target \in Blocks \ oLive BY <3>1, <3>3, <4>1
      <4> QED BY <1>5, <3>3, <4>2
    <3> QED BY <3>2, <3>3
  <2> QED BY <2>1, <2>2
<1>7. target \in Blocks BY <1>5, <1>6, <1>t DEF LinearTyped
<1>8. oUsed[target] \in Nat /\ oUsed'[target] = oUsed[target] + bytes /\ oUsed'[target] \in 0 .. LinearMaxSize
  <2>1. oUsed[target] \in Nat BY <1>7, <1>t, LinearAssumption DEF LinearTyped
  <2>2. oUsed'[target] = oUsed[target] + bytes BY <1>3, <1>7, <1>t DEF LinearTyped
  <2>3. target \notin oLive => oUsed[target] = 0 BY <1>7 DEF LinearInv, DeadBlocksBlank
  <2>4. oUsed[target] + bytes <= LinearMaxSize BY <1>4, <1>6, <2>1, <2>3
  <2> QED BY <1>4, <2>1, <2>2, <2>4, LinearAssumption
<1>9. \A c \in Blocks : c # target => oUsed'[c] = oUsed[c] BY <1>3, <1>t DEF LinearTyped
<1>10. /\ oFirstFree'[o] = target /\ oFirst'[o] = oFirst[o]
       /\ \A q \in Objects \ {o} : oFirstFree'[q] = oFirstFree[q] /\ oFirst'[q] = oFirst[q]
  BY <1>3, <1>t DEF LinearTyped
\* The list of o, and who has the target.
<1>11. /\ Lists(oFirst'[o], oFirstFree'[o], oNext', oUsed')
       /\ OwnChain(o)' = OwnChain(o) \cup {target}
       /\ target \in OwnChain(o) \/ target \notin oLive
       /\ \A c \in Blocks \ OwnChain(o) : c # target => oNext'[c] = oNext[c]
       /\ target \notin OwnChain(o) => oNext'[target] = Null
  <2>1. CASE target = b \/ target = oNext[b]
    <3>1. oNext' = oNext
      <4>1. CASE target = b BY <1>3, <4>1
      <4>2. CASE target = oNext[b] /\ target # b
        <5>1. oNext' = [oNext EXCEPT ![b] = oNext[b]] BY <1>3, <4>2
        <5> QED BY <1>5, <1>t, <5>1 DEF LinearTyped
      <4> QED BY <2>1, <4>1, <4>2
    <3>2. target \in OwnChain(o) BY <1>5, <1>6, <1>7, <2>1, BlocksAssumption
    <3>3. Lists(oFirst[o], target, oNext, oUsed')
      <4>1. Lists(oFirst[o], b, oNext, oUsed) BY <1>1, <1>5
      <4>2. PICK fill2 : fill2 = oUsed' OBVIOUS
      <4>3. \A c \in Blocks : c # target => fill2[c] = oUsed[c] BY <1>9, <4>2
      <4>4. target = b \/ target = oNext[b] BY <2>1
      <4>5. Lists(oFirst[o], target, oNext, fill2) BY <1>3, <1>7, <4>1, <4>3, <4>4, ListTaken
      <4> QED BY <4>2, <4>5
    <3> QED BY <1>10, <3>1, <3>2, <3>3 DEF OwnChain
  <2>2. CASE ~(target = b \/ target = oNext[b])
    <3>1. oNext[b] = Null /\ target \in Blocks \ oLive /\ target # b BY <1>6, <2>2
    <3>2. oNext[target] = Null /\ target \notin OwnChain(o)
      BY <1>5, <3>1 DEF LinearInv, DeadBlocksBlank
    <3>3. oNext'[b] = target /\ \A c \in Blocks : c # b => oNext'[c] = oNext[c]
      BY <1>3, <1>5, <1>t, <3>1 DEF LinearTyped
    <3>4. /\ Lists(oFirst[o], target, oNext', oUsed')
          /\ ChainOf(oFirst[o], oNext') = ChainOf(oFirst[o], oNext) \cup {target}
      <4>1. Lists(oFirst[o], b, oNext, oUsed) BY <1>1, <1>5
      <4>2. PICK fill2, links2 : fill2 = oUsed' /\ links2 = oNext' OBVIOUS
      <4>3. \A c \in Blocks : c # target => fill2[c] = oUsed[c] BY <1>9, <4>2
      <4>4. links2[b] = target /\ \A c \in Blocks : c # b => links2[c] = oNext[c] BY <3>3, <4>2
      <4>5. target \notin ChainOf(oFirst[o], oNext) BY <3>2 DEF OwnChain
      <4>6. /\ Lists(oFirst[o], target, links2, fill2)
            /\ ChainOf(oFirst[o], links2) = ChainOf(oFirst[o], oNext) \cup {target}
        BY <1>3, <1>7, <3>1, <3>2, <4>1, <4>3, <4>4, <4>5, ListExtended
      <4> QED BY <4>2, <4>6
    <3> QED BY <1>5, <1>10, <3>1, <3>2, <3>3, <3>4 DEF OwnChain
  <2> QED BY <2>1, <2>2
<1>12. ASSUME NEW q \in Objects, q # o
       PROVE  /\ Lists(oFirst'[q], oFirstFree'[q], oNext', oUsed')
              /\ OwnChain(q)' = OwnChain(q) /\ target \notin OwnChain(q)
  <2>1. /\ Lists(oFirst[q], oFirstFree[q], oNext, oUsed) /\ OwnChain(q) \subseteq oLive
        /\ OwnChain(q) \cap OwnChain(o) = {}
    BY <1>12 DEF LinearInv, ListsOwned
  <2>2. target \notin OwnChain(q) BY <1>11, <2>1
  <2>3. ASSUME NEW c \in ChainOf(oFirst[q], oNext)
        PROVE  oNext'[c] = oNext[c] /\ oUsed'[c] \in {0, oUsed[c]}
    <3>1. c \in OwnChain(q) /\ c \in Blocks /\ c # target /\ c \notin OwnChain(o)
      BY <1>t, <2>1, <2>2 DEF OwnChain, LinearTyped
    <3> QED BY <1>9, <1>11, <3>1
  <2>4. Lists(oFirst[q], oFirstFree[q], oNext', oUsed') /\ ChainOf(oFirst[q], oNext') = ChainOf(oFirst[q], oNext)
    BY <2>1, <2>3, ListsKept
  <2> QED BY <1>10, <1>12, <2>2, <2>4 DEF OwnChain
<1>13. LinearTyped'
  <2>1. oNext' \in [Blocks -> Blocks \cup {Null}] BY <1>3, <1>7, <1>t DEF LinearTyped
  <2>2. oUsed' \in [Blocks -> 0 .. LinearMaxSize]
    <3>1. \A c \in Blocks : oUsed'[c] \in 0 .. LinearMaxSize BY <1>8, <1>9, <1>t DEF LinearTyped
    <3>2. PICK fill2 : fill2 = [oUsed EXCEPT ![target] = @ + bytes] OBVIOUS
    <3>3. oUsed' = fill2 /\ fill2 = [c \in Blocks |-> fill2[c]] BY <1>3, <1>t, <3>2 DEF LinearTyped
    <3> QED BY <3>1, <3>3
  <2>3. oGiven' \subseteq Regions BY <1>3, <1>4, <1>7, <1>8, <1>t DEF LinearTyped, Regions
  <2> QED BY <1>3, <1>7, <1>t, <2>1, <2>2, <2>3 DEF LinearTyped
<1>14. DeadBlocksBlank'
  <2> SUFFICES ASSUME NEW c \in Blocks \ oLive' PROVE oNext'[c] = Null /\ oUsed'[c] = 0
    BY DEF DeadBlocksBlank
  <2>1. c \notin oLive /\ c # target /\ c \notin OwnChain(o) BY <1>3, <1>5
  <2> QED BY <1>9, <1>11, <2>1 DEF LinearInv, DeadBlocksBlank
<1>15. ListsOwned'
  <2>1. ASSUME NEW q \in Objects
        PROVE  /\ Lists(oFirst'[q], oFirstFree'[q], oNext', oUsed')
               /\ OwnChain(q)' \subseteq oLive' /\ (oFirst'[q] # Null => q \in oConstructed')
    <3>1. OwnChain(q) \subseteq oLive /\ (oFirst[q] # Null => q \in oConstructed)
      BY DEF LinearInv, ListsOwned
    <3>2. CASE q = o BY <1>3, <1>5, <1>11, <3>1, <3>2
    <3>3. CASE q # o BY <1>3, <1>12, <3>1, <3>3
    <3> QED BY <3>2, <3>3
  <2>2. ASSUME NEW p \in Objects, NEW q \in Objects, p # q PROVE OwnChain(p)' \cap OwnChain(q)' = {}
    BY <1>11, <1>12, <2>2 DEF LinearInv, ListsOwned
  <2>3. ASSUME NEW c \in oLive' PROVE \E q \in Objects : c \in OwnChain(q)'
    BY <1>3, <1>11, <1>12 DEF LinearInv, ListsOwned
  <2> QED BY <2>1, <2>2, <2>3 DEF ListsOwned
<1>16. RegionsBelow'
  <2>1. PICK s : s = [owner |-> o, block |-> target, from |-> oUsed[target], size |-> bytes] OBVIOUS
  <2>2. s.owner = o /\ s.block = target /\ s.from = oUsed[target] /\ s.size = bytes BY <2>1
  <2>3. ASSUME NEW r \in oGiven
        PROVE  /\ r.block \in Blocks /\ r.from \in Nat /\ r.size \in Nat /\ r.block \in OwnChain(r.owner)'
               /\ r.from + r.size <= oUsed[r.block] /\ r.from + r.size <= oUsed'[r.block]
    <3>1. r \in Regions BY <1>t DEF LinearTyped
    <3>2. r.block \in Blocks /\ r.from \in Nat /\ r.size \in Nat /\ r.owner \in Objects BY <3>1 DEF Regions
    <3>3. r.block \in OwnChain(r.owner) /\ r.from + r.size <= oUsed[r.block] BY DEF LinearInv, RegionsBelow
    <3>4. r.block \in OwnChain(r.owner)' BY <1>11, <1>12, <3>2, <3>3
    <3>5. r.from + r.size <= oUsed'[r.block]
      <4>1. CASE r.block = target BY <1>4, <1>8, <3>2, <3>3, <4>1
      <4>2. CASE r.block # target BY <1>9, <3>2, <3>3, <4>2
      <4> QED BY <4>1, <4>2
    <3> QED BY <3>2, <3>3, <3>4, <3>5
  <2>4. s.block \in OwnChain(s.owner)' /\ s.from + s.size <= oUsed'[s.block] BY <1>4, <1>8, <1>11, <2>2
  <2>5. \A r \in oGiven : r.block = s.block => r.from + r.size <= s.from BY <2>2, <2>3
  <2>6. oGiven' = oGiven \cup {s} BY <1>3, <2>1
  <2>7. \A r, q \in oGiven : r # q /\ r.block = q.block =>
          r.from + r.size <= q.from \/ q.from + q.size <= r.from
    BY DEF LinearInv, RegionsBelow
  <2> QED BY <2>3, <2>4, <2>5, <2>6, <2>7 DEF RegionsBelow
<1> QED BY <1>13, <1>14, <1>15, <1>16 DEF LinearInv

\* After a clear, memory is taken from the first block again.
LEMMA ListCleared ==
  ASSUME NEW start, NEW free, NEW links, NEW fill, Lists(start, free, links, fill), start # Null,
         NEW fill2, \A b \in ChainOf(start, links) : fill2[b] = 0
  PROVE  Lists(start, start, links, fill2)
<1>1. PICK list, n, pos : IsList(start, links, list, n) /\ Filled(free, fill, list, n, pos)
  BY DEF Lists
<1>2. ChainOf(start, links) = {list[i] : i \in 1 .. n} BY <1>1, ListChain
<1>3. n \in Nat /\ n > 0 /\ start = list[1] BY <1>1 DEF IsList
<1>4. \A i \in 1 + 1 .. n : fill2[list[i]] = 0
  <2>1. \A i \in 1 + 1 .. n : i \in 1 .. n BY <1>3
  <2> QED BY <1>2, <2>1
<1>5. Filled(start, fill2, list, n, 1) BY <1>3, <1>4 DEF Filled
<1> QED BY <1>1, <1>5 DEF Lists

LEMMA LinearClearKeeps ==
  ASSUME LinearInv, NEW o \in Objects, Linear!Clear(o)
  PROVE  LinearInv'
<1>t. LinearTyped BY DEF LinearInv
<1>1. Linear!Chain(o) = OwnChain(o) BY ChainIs DEF OwnChain
<1>2. /\ oFirst[o] # Null
      /\ oUsed' = [b \in Blocks |-> IF b \in OwnChain(o) THEN 0 ELSE oUsed[b]]
      /\ oFirstFree' = [oFirstFree EXCEPT ![o] = oFirst[o]]
      /\ oGiven' = oGiven \ {r \in oGiven : r.owner = o}
      /\ oConstructed' = oConstructed /\ oFirst' = oFirst /\ oNext' = oNext /\ oLive' = oLive
  BY <1>1 DEF Linear!Clear, Linear!GivenBy
<1>3. /\ \A q \in Objects : /\ Lists(oFirst[q], oFirstFree[q], oNext, oUsed)
                            /\ OwnChain(q) \subseteq oLive /\ OwnChain(q) \subseteq Blocks
                            /\ OwnChain(q)' = OwnChain(q)
      /\ \A q \in Objects \ {o} : OwnChain(q) \cap OwnChain(o) = {}
  <2>1. \A q \in Objects : OwnChain(q)' = OwnChain(q) BY <1>2 DEF OwnChain
  <2> QED BY <1>t, <2>1 DEF LinearInv, ListsOwned, LinearTyped
<1>4. PICK fill2 : fill2 = oUsed' OBVIOUS
<1>5. \A b \in Blocks : fill2[b] = IF b \in OwnChain(o) THEN 0 ELSE oUsed[b] BY <1>2, <1>4
<1>6. ASSUME NEW q \in Objects PROVE Lists(oFirst'[q], oFirstFree'[q], oNext', oUsed')
  <2>1. CASE q = o
    <3>1. oFirstFree'[o] = oFirst[o] BY <1>2, <1>t DEF LinearTyped
    <3>2. \A b \in ChainOf(oFirst[o], oNext) : fill2[b] = 0 BY <1>3, <1>5 DEF OwnChain
    <3>3. Lists(oFirst[o], oFirst[o], oNext, fill2) BY <1>2, <1>3, <3>2, ListCleared
    <3> QED BY <1>2, <1>4, <2>1, <3>1, <3>3
  <2>2. CASE q # o
    <3>1. oFirstFree'[q] = oFirstFree[q] BY <1>2, <1>t, <2>2 DEF LinearTyped
    <3>2. \A b \in ChainOf(oFirst[q], oNext) : oNext[b] = oNext[b] /\ fill2[b] \in {0, oUsed[b]}
      BY <1>3, <1>5 DEF OwnChain
    <3>3. Lists(oFirst[q], oFirstFree[q], oNext, fill2) BY <1>3, <3>2, ListsKept
    <3> QED BY <1>2, <1>4, <3>1, <3>3
  <2> QED BY <2>1, <2>2
<1>7. LinearTyped'
  <2>1. \A b \in Blocks : (IF b \in OwnChain(o) THEN 0 ELSE oUsed[b]) \in 0 .. LinearMaxSize
    BY <1>t, LinearAssumption DEF LinearTyped
  <2>2. oUsed' \in [Blocks -> 0 .. LinearMaxSize] BY <1>2, <2>1
  <2> QED BY <1>2, <1>t, <2>2 DEF LinearTyped
<1>8. DeadBlocksBlank' BY <1>2 DEF LinearInv, DeadBlocksBlank
<1>9. ListsOwned' BY <1>2, <1>3, <1>6 DEF LinearInv, ListsOwned
<1>10. RegionsBelow'
  <2>1. ASSUME NEW r \in oGiven, r.owner # o
        PROVE  r.block \in OwnChain(r.owner)' /\ r.from + r.size <= oUsed'[r.block]
    <3>1. r.owner \in Objects /\ r.block \in Blocks BY <1>t DEF LinearTyped, Regions
    <3>2. r.block \in OwnChain(r.owner) /\ r.from + r.size <= oUsed[r.block]
      BY DEF LinearInv, RegionsBelow
    <3>3. oUsed'[r.block] = oUsed[r.block] BY <1>3, <1>4, <1>5, <2>1, <3>1, <3>2
    <3> QED BY <1>3, <3>1, <3>2, <3>3
  <2>2. \A r, q \in oGiven : r # q /\ r.block = q.block =>
          r.from + r.size <= q.from \/ q.from + q.size <= r.from
    BY DEF LinearInv, RegionsBelow
  <2>3. \A r \in oGiven' : r \in oGiven /\ r.owner # o BY <1>2
  <2> QED BY <2>1, <2>2, <2>3 DEF RegionsBelow
<1> QED BY <1>7, <1>8, <1>9, <1>10 DEF LinearInv

\* When the list of an object is deleted, the others stay.
LEMMA DeletedList ==
  ASSUME LinearInv, NEW o \in Objects, Linear!Delete(OwnChain(o))
  PROVE  /\ oNext' \in [Blocks -> Blocks \cup {Null}] /\ oUsed' \in [Blocks -> 0 .. LinearMaxSize]
         /\ oLive' = oLive \ OwnChain(o) /\ DeadBlocksBlank'
         /\ \A q \in Objects \ {o} :
              /\ Lists(oFirst[q], oFirstFree[q], oNext', oUsed')
              /\ ChainOf(oFirst[q], oNext') = OwnChain(q)
              /\ OwnChain(q) \subseteq oLive' /\ \A b \in OwnChain(q) : oUsed'[b] = oUsed[b]
<1>t. LinearTyped BY DEF LinearInv
<1>1. PICK C : C = OwnChain(o) OBVIOUS
<1>2. /\ oLive' = oLive \ C
      /\ oNext' = [b \in Blocks |-> IF b \in C THEN Null ELSE oNext[b]]
      /\ oUsed' = [b \in Blocks |-> IF b \in C THEN 0 ELSE oUsed[b]]
  BY <1>1 DEF Linear!Delete
<1>3. oNext' \in [Blocks -> Blocks \cup {Null}] /\ oUsed' \in [Blocks -> 0 .. LinearMaxSize]
  <2>1. \A b \in Blocks : (IF b \in C THEN 0 ELSE oUsed[b]) \in 0 .. LinearMaxSize
    BY <1>t, LinearAssumption DEF LinearTyped
  <2>2. \A b \in Blocks : (IF b \in C THEN Null ELSE oNext[b]) \in Blocks \cup {Null}
    BY <1>t DEF LinearTyped
  <2> QED BY <1>2, <2>1, <2>2
<1>4. DeadBlocksBlank' BY <1>2 DEF LinearInv, DeadBlocksBlank
<1>5. ASSUME NEW q \in Objects, q # o
      PROVE  /\ Lists(oFirst[q], oFirstFree[q], oNext', oUsed')
             /\ ChainOf(oFirst[q], oNext') = OwnChain(q)
             /\ OwnChain(q) \subseteq oLive' /\ \A b \in OwnChain(q) : oUsed'[b] = oUsed[b]
  <2>1. /\ Lists(oFirst[q], oFirstFree[q], oNext, oUsed) /\ OwnChain(q) \subseteq oLive
        /\ OwnChain(q) \cap C = {}
    BY <1>1, <1>5 DEF LinearInv, ListsOwned
  <2>2. PICK links2, fill2 : links2 = oNext' /\ fill2 = oUsed' OBVIOUS
  <2>3. \A b \in OwnChain(q) : links2[b] = oNext[b] /\ fill2[b] = oUsed[b]
    BY <1>2, <1>t, <2>1, <2>2 DEF LinearTyped
  <2>4. \A b \in ChainOf(oFirst[q], oNext) : links2[b] = oNext[b] /\ fill2[b] \in {0, oUsed[b]}
    BY <2>3 DEF OwnChain
  <2>5. Lists(oFirst[q], oFirstFree[q], links2, fill2) /\ ChainOf(oFirst[q], links2) = ChainOf(oFirst[q], oNext)
    BY <2>1, <2>4, ListsKept
  <2> QED BY <1>2, <2>1, <2>2, <2>3, <2>5 DEF OwnChain
<1> QED BY <1>1, <1>2, <1>3, <1>4, <1>5

LEMMA LinearDestroyKeeps ==
  ASSUME LinearInv, NEW o \in Objects, Linear!Destroy(o)
  PROVE  LinearInv'
<1>t. LinearTyped BY DEF LinearInv
<1>1. Linear!Chain(o) = OwnChain(o) BY ChainIs DEF OwnChain
<1>2. /\ oConstructed' = oConstructed \ {o} /\ Linear!Delete(OwnChain(o))
      /\ oFirst' = [oFirst EXCEPT ![o] = Null] /\ oFirstFree' = [oFirstFree EXCEPT ![o] = Null]
      /\ oGiven' = oGiven \ {r \in oGiven : r.owner = o}
  BY <1>1 DEF Linear!Destroy, Linear!GivenBy
<1>3. /\ oNext' \in [Blocks -> Blocks \cup {Null}] /\ oUsed' \in [Blocks -> 0 .. LinearMaxSize]
      /\ oLive' = oLive \ OwnChain(o) /\ DeadBlocksBlank'
      /\ \A q \in Objects \ {o} :
           /\ Lists(oFirst[q], oFirstFree[q], oNext', oUsed')
           /\ ChainOf(oFirst[q], oNext') = OwnChain(q)
           /\ OwnChain(q) \subseteq oLive' /\ \A b \in OwnChain(q) : oUsed'[b] = oUsed[b]
  BY <1>2, DeletedList
<1>4. /\ oFirst'[o] = Null /\ oFirstFree'[o] = Null
      /\ \A q \in Objects \ {o} : oFirst'[q] = oFirst[q] /\ oFirstFree'[q] = oFirstFree[q]
  BY <1>2, <1>t DEF LinearTyped
<1>5. \A q \in Objects \ {o} : /\ OwnChain(q)' = OwnChain(q) /\ OwnChain(q) \subseteq oLive'
                               /\ Lists(oFirst'[q], oFirstFree'[q], oNext', oUsed')
  BY <1>3, <1>4 DEF OwnChain
<1>6. OwnChain(o)' = {} /\ Lists(oFirst'[o], oFirstFree'[o], oNext', oUsed')
  BY <1>4, EmptyList DEF OwnChain
<1>7. LinearTyped' BY <1>2, <1>3, <1>t DEF LinearTyped
<1>8. ListsOwned'
  <2>1. ASSUME NEW q \in Objects
        PROVE  /\ Lists(oFirst'[q], oFirstFree'[q], oNext', oUsed')
               /\ OwnChain(q)' \subseteq oLive' /\ (oFirst'[q] # Null => q \in oConstructed')
    <3>1. CASE q = o BY <1>4, <1>6, <3>1
    <3>2. CASE q # o
      <4>1. oFirst[q] # Null => q \in oConstructed BY DEF LinearInv, ListsOwned
      <4> QED BY <1>2, <1>4, <1>5, <3>2, <4>1
    <3> QED BY <3>1, <3>2
  <2>2. ASSUME NEW p \in Objects, NEW q \in Objects, p # q PROVE OwnChain(p)' \cap OwnChain(q)' = {}
    <3>1. OwnChain(p) \cap OwnChain(q) = {} BY <2>2 DEF LinearInv, ListsOwned
    <3>2. CASE p = o \/ q = o BY <1>6, <3>2
    <3>3. CASE p # o /\ q # o BY <1>5, <3>1, <3>3
    <3> QED BY <3>2, <3>3
  <2>3. ASSUME NEW b \in oLive' PROVE \E q \in Objects : b \in OwnChain(q)'
    <3>1. b \in oLive /\ b \notin OwnChain(o) BY <1>3
    <3>2. PICK q \in Objects : b \in OwnChain(q) BY <3>1 DEF LinearInv, ListsOwned
    <3> QED BY <1>5, <3>1, <3>2
  <2> QED BY <2>1, <2>2, <2>3 DEF ListsOwned
<1>9. RegionsBelow'
  <2>1. ASSUME NEW r \in oGiven, r.owner # o
        PROVE  r.block \in OwnChain(r.owner)' /\ r.from + r.size <= oUsed'[r.block]
    <3>1. r.owner \in Objects BY <1>t DEF LinearTyped, Regions
    <3>2. r.block \in OwnChain(r.owner) /\ r.from + r.size <= oUsed[r.block]
      BY DEF LinearInv, RegionsBelow
    <3> QED BY <1>3, <1>5, <2>1, <3>1, <3>2
  <2>2. \A r, q \in oGiven : r # q /\ r.block = q.block =>
          r.from + r.size <= q.from \/ q.from + q.size <= r.from
    BY DEF LinearInv, RegionsBelow
  <2>3. \A r \in oGiven' : r \in oGiven /\ r.owner # o BY <1>2
  <2> QED BY <2>1, <2>2, <2>3 DEF RegionsBelow
<1> QED BY <1>3, <1>7, <1>8, <1>9 DEF LinearInv

\* The list of the target is deleted, if it has one, and that of the source goes over with
\* all that was given out from it.
LEMMA MovedList ==
  ASSUME LinearInv, NEW o \in Objects, NEW source \in Objects, o # source,
         oFirst[source] # Null, Linear!Delete(OwnChain(o)), Linear!MoveMembers(o, source),
         oConstructed' = oConstructed \cup {o}
  PROVE  LinearInv'
<1>t. LinearTyped BY DEF LinearInv
<1>1. /\ oFirst' = [oFirst EXCEPT ![o] = oFirst[source], ![source] = Null]
      /\ oFirstFree' = [oFirstFree EXCEPT ![o] = oFirstFree[source], ![source] = Null]
      /\ oGiven' = (oGiven \ ({r \in oGiven : r.owner = o} \cup {r \in oGiven : r.owner = source})) \cup
                   {[r EXCEPT !.owner = o] : r \in {s \in oGiven : s.owner = source}}
  BY DEF Linear!MoveMembers, Linear!GivenBy
<1>2. /\ oNext' \in [Blocks -> Blocks \cup {Null}] /\ oUsed' \in [Blocks -> 0 .. LinearMaxSize]
      /\ oLive' = oLive \ OwnChain(o) /\ DeadBlocksBlank'
      /\ \A q \in Objects \ {o} :
           /\ Lists(oFirst[q], oFirstFree[q], oNext', oUsed')
           /\ ChainOf(oFirst[q], oNext') = OwnChain(q)
           /\ OwnChain(q) \subseteq oLive' /\ \A b \in OwnChain(q) : oUsed'[b] = oUsed[b]
  BY DeletedList
<1>3. /\ oFirst'[o] = oFirst[source] /\ oFirstFree'[o] = oFirstFree[source] /\ oFirst'[source] = Null
      /\ \A q \in Objects \ {o, source} : oFirst'[q] = oFirst[q] /\ oFirstFree'[q] = oFirstFree[q]
  BY <1>1, <1>t DEF LinearTyped
<1>4. /\ OwnChain(o)' = OwnChain(source) /\ OwnChain(source) \subseteq oLive'
      /\ Lists(oFirst'[o], oFirstFree'[o], oNext', oUsed')
  BY <1>2, <1>3 DEF OwnChain
<1>5. OwnChain(source)' = {} /\ Lists(oFirst'[source], oFirstFree'[source], oNext', oUsed')
  BY <1>3, EmptyList DEF OwnChain
<1>6. \A q \in Objects \ {o, source} :
        /\ OwnChain(q)' = OwnChain(q) /\ OwnChain(q) \subseteq oLive'
        /\ Lists(oFirst'[q], oFirstFree'[q], oNext', oUsed')
  BY <1>2, <1>3 DEF OwnChain
\* A region that is out stays where it was, under its owner or under the new one.
<1>7. ASSUME NEW r \in oGiven'
      PROVE  \E s \in oGiven : /\ r.block = s.block /\ r.from = s.from /\ r.size = s.size /\ r \in Regions
                               /\ \/ r = s /\ s.owner # o /\ s.owner # source
                                  \/ r = [s EXCEPT !.owner = o] /\ s.owner = source /\ r.owner = o
  <2>1. CASE r \in oGiven /\ r.owner # o /\ r.owner # source BY <1>t, <2>1 DEF LinearTyped
  <2>2. CASE \E s \in oGiven : s.owner = source /\ r = [s EXCEPT !.owner = o]
    <3>1. PICK s \in oGiven : s.owner = source /\ r = [s EXCEPT !.owner = o] BY <2>2
    <3>2. s \in Regions BY <1>t DEF LinearTyped
    <3>3. r.block = s.block /\ r.from = s.from /\ r.size = s.size /\ r.owner = o /\ r \in Regions
      BY <3>1, <3>2 DEF Regions
    <3> QED BY <3>1, <3>3
  <2> QED BY <1>1, <2>1, <2>2
<1>8. LinearTyped'
  <2>1. oGiven' \subseteq Regions BY <1>7
  <2> QED BY <1>1, <1>2, <1>t, <2>1 DEF LinearTyped
<1>9. ListsOwned'
  <2>1. ASSUME NEW q \in Objects
        PROVE  /\ Lists(oFirst'[q], oFirstFree'[q], oNext', oUsed')
               /\ OwnChain(q)' \subseteq oLive' /\ (oFirst'[q] # Null => q \in oConstructed')
    <3>1. CASE q = o BY <1>4, <3>1
    <3>2. CASE q = source BY <1>3, <1>5, <3>2
    <3>3. CASE q # o /\ q # source
      <4>1. oFirst[q] # Null => q \in oConstructed BY DEF LinearInv, ListsOwned
      <4> QED BY <1>3, <1>6, <3>3, <4>1
    <3> QED BY <3>1, <3>2, <3>3
  <2>2. ASSUME NEW p \in Objects, NEW q \in Objects, p # q PROVE OwnChain(p)' \cap OwnChain(q)' = {}
    <3>0. \A x, y \in Objects : x # y => OwnChain(x) \cap OwnChain(y) = {} BY DEF LinearInv, ListsOwned
    <3>1. CASE p = source \/ q = source BY <1>5, <3>1
    <3>2. CASE p = o /\ q # source
      <4>1. OwnChain(q)' = OwnChain(q) /\ OwnChain(p)' = OwnChain(source) BY <1>4, <1>6, <2>2, <3>2
      <4> QED BY <3>0, <3>2, <4>1
    <3>3. CASE q = o /\ p # source
      <4>1. OwnChain(p)' = OwnChain(p) /\ OwnChain(q)' = OwnChain(source) BY <1>4, <1>6, <2>2, <3>3
      <4> QED BY <3>0, <3>3, <4>1
    <3>4. CASE p \notin {o, source} /\ q \notin {o, source} BY <1>6, <2>2, <3>0, <3>4
    <3> QED BY <3>1, <3>2, <3>3, <3>4
  <2>3. ASSUME NEW b \in oLive' PROVE \E q \in Objects : b \in OwnChain(q)'
    <3>1. b \in oLive /\ b \notin OwnChain(o) BY <1>2
    <3>2. PICK q \in Objects : b \in OwnChain(q) BY <3>1 DEF LinearInv, ListsOwned
    <3>3. CASE q = source BY <1>4, <3>2, <3>3
    <3>4. CASE q # source BY <1>6, <3>1, <3>2, <3>4
    <3> QED BY <3>3, <3>4
  <2> QED BY <2>1, <2>2, <2>3 DEF ListsOwned
<1>10. RegionsBelow'
  <2>1. ASSUME NEW r \in oGiven'
        PROVE  r.block \in OwnChain(r.owner)' /\ r.from + r.size <= oUsed'[r.block]
    <3>1. PICK s \in oGiven : /\ r.block = s.block /\ r.from = s.from /\ r.size = s.size
                              /\ \/ r = s /\ s.owner # o /\ s.owner # source
                                 \/ s.owner = source /\ r.owner = o
      BY <1>7
    <3>2. s.owner \in Objects BY <1>t DEF LinearTyped, Regions
    <3>3. s.block \in OwnChain(s.owner) /\ s.from + s.size <= oUsed[s.block]
      BY DEF LinearInv, RegionsBelow
    <3>4. oUsed'[s.block] = oUsed[s.block] BY <1>2, <3>1, <3>2, <3>3
    <3>5. r.block \in OwnChain(r.owner)' BY <1>4, <1>6, <3>1, <3>2, <3>3
    <3> QED BY <3>1, <3>3, <3>4, <3>5
  <2>2. ASSUME NEW r \in oGiven', NEW q \in oGiven', r # q, r.block = q.block
        PROVE  r.from + r.size <= q.from \/ q.from + q.size <= r.from
    <3>1. PICK s \in oGiven : /\ r.block = s.block /\ r.from = s.from /\ r.size = s.size
                              /\ \/ r = s /\ s.owner # o /\ s.owner # source
                                 \/ r = [s EXCEPT !.owner = o] /\ s.owner = source
      BY <1>7
    <3>2. PICK u \in oGiven : /\ q.block = u.block /\ q.from = u.from /\ q.size = u.size
                              /\ \/ q = u /\ u.owner # o /\ u.owner # source
                                 \/ q = [u EXCEPT !.owner = o] /\ u.owner = source
      BY <1>7
    <3>3. s # u BY <2>2, <3>1, <3>2
    <3>4. s.from + s.size <= u.from \/ u.from + u.size <= s.from
      BY <2>2, <3>1, <3>2, <3>3 DEF LinearInv, RegionsBelow
    <3> QED BY <3>1, <3>2, <3>4
  <2> QED BY <2>1, <2>2 DEF RegionsBelow
<1> QED BY <1>2, <1>8, <1>9, <1>10 DEF LinearInv

LEMMA LinearMoveKeeps ==
  ASSUME LinearInv, NEW o \in Objects, NEW source \in Objects,
         Linear!MoveConstruct(o, source) \/ Linear!MoveAssign(o, source)
  PROVE  LinearInv'
<1>t. LinearTyped BY DEF LinearInv
<1>1. CASE Linear!MoveConstruct(o, source)
  <2>1. /\ o \notin oConstructed /\ oFirst[source] # Null /\ oConstructed' = oConstructed \cup {o}
        /\ Linear!MoveMembers(o, source)
        /\ oNext' = oNext /\ oUsed' = oUsed /\ oLive' = oLive
    BY <1>1 DEF Linear!MoveConstruct
  <2>2. oFirst[o] = Null BY <2>1 DEF LinearInv, ListsOwned
  <2>3. OwnChain(o) = {} BY <2>2, EmptyList DEF OwnChain
  <2>4. Linear!Delete(OwnChain(o))
    <3>1. oNext = [b \in Blocks |-> oNext[b]] /\ oUsed = [b \in Blocks |-> oUsed[b]]
      BY <1>t DEF LinearTyped
    <3> QED BY <2>1, <2>3, <3>1 DEF Linear!Delete
  <2> QED BY <2>1, <2>2, <2>4, MovedList
<1>2. CASE Linear!MoveAssign(o, source)
  <2>1. Linear!Chain(o) = OwnChain(o) BY ChainIs DEF OwnChain
  <2>2. /\ o \in oConstructed /\ o # source /\ oFirst[source] # Null
        /\ Linear!Delete(OwnChain(o)) /\ Linear!MoveMembers(o, source) /\ oConstructed' = oConstructed
    BY <1>2, <2>1 DEF Linear!MoveAssign
  <2>3. oConstructed' = oConstructed \cup {o} BY <2>2
  <2> QED BY <2>2, <2>3, MovedList
<1> QED BY <1>1, <1>2

LEMMA LinearStepKeeps == LinearInv /\ [Linear!Next]_(Linear!vars) => LinearInv'
<1> SUFFICES ASSUME LinearInv, [Linear!Next]_(Linear!vars) PROVE LinearInv' OBVIOUS
<1>1. CASE Linear!Next
  <2>1. PICK o \in Objects :
          \/ \E n \in InitialCounts : Linear!Construct(o, n)
          \/ Linear!LockedCall(o)
          \/ \E source \in Objects : Linear!MoveConstruct(o, source) \/ Linear!MoveAssign(o, source)
          \/ Linear!Destroy(o)
    BY <1>1 DEF Linear!Next
  <2> QED
    BY <2>1, LinearConstructKeeps, LinearAllocateKeeps, LinearClearKeeps, LinearMoveKeeps,
       LinearDestroyKeeps
    DEF Linear!LockedCall
<1>2. CASE UNCHANGED Linear!vars
  <2>1. /\ oConstructed' = oConstructed /\ oFirst' = oFirst /\ oFirstFree' = oFirstFree
        /\ oNext' = oNext /\ oUsed' = oUsed /\ oLive' = oLive /\ oGiven' = oGiven
    BY <1>2 DEF Linear!vars
  <2> QED
    BY <2>1 DEF LinearInv, LinearTyped, DeadBlocksBlank, ListsOwned, RegionsBelow, OwnChain
<1> QED BY <1>1, <1>2

\* What objects of the class LinearAllocator give out lies in their blocks and does not
\* overlap, and each block belongs to one of them, through moves, assignments and
\* destructors (LinearAllocator.tpp), for any numbers of objects, blocks and sizes.
THEOREM LinearSound == EitherSpec => []LinearStorageSound
<1>1. EitherInit => LinearInv BY LinearInit DEF EitherInit
<1>2. LinearInv /\ [EitherNext]_<<vars, linearVars, linear>> => LinearInv'
  <2>1. ASSUME EitherNext \/ UNCHANGED <<vars, linearVars, linear>>
        PROVE  [Linear!Next]_(Linear!vars)
    <3>1. UNCHANGED linearVars => UNCHANGED Linear!vars BY DEF linearVars, Linear!vars
    <3> QED BY <2>1, <3>1 DEF EitherNext
  <2> QED BY <2>1, LinearStepKeeps
<1> QED BY <1>1, <1>2, LinearImplies, PTL DEF EitherSpec
=============================================================================
