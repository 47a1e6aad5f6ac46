------------------------- MODULE LockFreeStackProofs -------------------------
(***************************************************************************)
(* Proofs about LockFreeStack for every number of nodes, producers and     *)
(* consumers whose pops exclude each other: the list and the history stay  *)
(* together, no operation touches a dead node, and the stack implements    *)
(* the atomic one.                                                         *)
(***************************************************************************)
EXTENDS LockFreeStack, SequenceTheorems, TLAPS

USE NullAssumption, RoleAssumption DEF Pointers

States == {"idle", "link", "publish", "load", "follow", "swing", "take", "clear"}

\* The empty stack satisfies the invariant.
LEMMA InvInit == Init => IInv
<1> SUFFICES ASSUME Init PROVE IInv
  OBVIOUS
<1> USE DEF Init
<1>1. stack \in Seq(Nodes) /\ Len(stack) = 0
  BY EmptySeq
<1>2. TypeOK
  BY <1>1, ResultAssumption DEF TypeOK, Threads
<1>3. \A t \in Threads : pc[t] = "idle"
  OBVIOUS
<1>4. ListIsStack
  BY <1>1 DEF ListIsStack
<1>5. OneOwner /\ NoDanglingAccess
  BY <1>3 DEF OneOwner, NoDanglingAccess, Threads
<1>6. Popping = {} /\ ~Clearing
  BY <1>3 DEF Popping, Clearing, Threads
<1> QED BY <1>2, <1>3, <1>4, <1>5, <1>6 DEF IInv, Following, Threads

\* The youngest value is where the head points.
LEMMA HeadIsTop ==
  ASSUME IInv
  PROVE  /\ Len(stack) \in Nat
         /\ \A i \in 1 .. Len(stack) : stack[i] \in Nodes
         /\ head = Null <=> Len(stack) = 0
         /\ head # Null => head = stack[Len(stack)] /\ InStack(head)
<1>1. stack \in Seq(Nodes)
  BY DEF IInv, TypeOK
<1>2. /\ Len(stack) \in Nat
      /\ \A i \in 1 .. Len(stack) : stack[i] \in Nodes
  BY <1>1, LenProperties, ElementOfSeq
<1>3. stack = <<>> <=> Len(stack) = 0
  BY <1>1, EmptySeq
<1>4. head = IF stack = <<>> THEN Null ELSE stack[Len(stack)]
  BY DEF IInv, ListIsStack
<1> QED BY <1>2, <1>3, <1>4 DEF InStack

\* A node fresh from the allocator is in nobody's hands.
LEMMA PushAllocateStep ==
  ASSUME IInv, NEW p \in Producers, NEW n \in Nodes, PushAllocate(p, n), ~Clearing
  PROVE  IInv'
<1>1. /\ pc[p] = "idle" /\ pc' = [pc EXCEPT ![p] = "link"]
      /\ mem[n] = "raw" /\ mem' = [mem EXCEPT ![n] = "constructed"]
      /\ next' = [next EXCEPT ![n] = Null]
      /\ ref' = [ref EXCEPT ![p] = n]
      /\ UNCHANGED <<head, desired, result, stack>>
  BY DEF PushAllocate, Goto
<1>2. TypeOK'
  BY <1>1 DEF IInv, TypeOK, Threads
<1>3. ~InStack(n)
  BY <1>1 DEF IInv, ListIsStack, InStack
<1>4. ListIsStack'
  BY <1>1, <1>3, HeadIsTop DEF IInv, TypeOK, ListIsStack, InStack
<1>5. \A t \in Threads : pc[t] \in {"link", "publish", "follow", "swing", "take"} =>
        ref[t] # n /\ mem[ref[t]] = "constructed"
  BY <1>1 DEF IInv, TypeOK, NoDanglingAccess, Threads
<1>6. NoDanglingAccess'
  BY <1>1, <1>5 DEF IInv, TypeOK, NoDanglingAccess, Threads
<1>7. OneOwner'
  BY <1>1, <1>3, <1>5 DEF IInv, TypeOK, OneOwner, Threads, InStack
<1>8. \A c \in Consumers : pc'[c] = pc[c] /\ ref'[c] = ref[c]
  BY <1>1 DEF IInv, TypeOK, Threads
<1>9. Popping' = Popping /\ ~Clearing'
  BY <1>8 DEF Popping, Clearing
<1>10. \A c \in Consumers : /\ Following(c)' => InStack(ref[c])'
                            /\ pc'[c] = "swing" => desired'[c] = next'[ref'[c]]
  BY <1>1, <1>5, <1>8 DEF IInv, TypeOK, Following, InStack, Threads
<1> QED BY <1>2, <1>4, <1>6, <1>7, <1>9, <1>10 DEF IInv

\* PushLink and PushRetry: the producer's own node learns the head.
LEMMA PushLinkStep ==
  ASSUME IInv, NEW p \in Producers, PushLink(p) \/ PushRetry(p)
  PROVE  IInv'
<1>1. /\ pc[p] \in {"link", "publish"} /\ pc' = [pc EXCEPT ![p] = "publish"]
      /\ next' = [next EXCEPT ![ref[p]] = head]
      /\ UNCHANGED <<head, mem, ref, desired, result, stack>>
  BY DEF PushLink, PushRetry, Goto, IInv, TypeOK, Threads
<1>2. p \in Threads /\ ref[p] \in Nodes /\ ~InStack(ref[p])
  BY <1>1 DEF IInv, TypeOK, OneOwner, NoDanglingAccess, Threads
<1>3. TypeOK'
  BY <1>1, <1>2 DEF IInv, TypeOK, Threads
<1>4. ListIsStack'
  BY <1>1, <1>2, HeadIsTop DEF IInv, TypeOK, ListIsStack, InStack
<1>5. NoDanglingAccess'
  BY <1>1, <1>2 DEF IInv, TypeOK, NoDanglingAccess, Threads
<1>6. OneOwner'
  BY <1>1, <1>2 DEF IInv, TypeOK, OneOwner, Threads, InStack
<1>7. \A c \in Consumers : pc'[c] = pc[c]
  BY <1>1 DEF IInv, TypeOK, Threads
<1>8. Popping' = Popping /\ Clearing' = Clearing
  BY <1>7 DEF Popping, Clearing
<1>9. \A c \in Consumers : /\ Following(c)' => InStack(ref[c])'
                           /\ pc'[c] = "swing" => desired'[c] = next'[ref'[c]]
  BY <1>1, <1>2, <1>7 DEF IInv, TypeOK, Following, InStack, Threads
<1>10. ~Clearing
  BY <1>1, <1>2 DEF IInv
<1> QED BY <1>3, <1>4, <1>5, <1>6, <1>8, <1>9, <1>10 DEF IInv

\* The successful compare_exchange of push puts the node on top of the stack.
LEMMA PushPublishStep ==
  ASSUME IInv, NEW p \in Producers, PushPublish(p)
  PROVE  IInv'
<1>1. /\ pc[p] = "publish" /\ pc' = [pc EXCEPT ![p] = "idle"]
      /\ head = next[ref[p]] /\ head' = ref[p]
      /\ stack' = Append(stack, ref[p])
      /\ ref' = [ref EXCEPT ![p] = Null]
      /\ UNCHANGED <<next, mem, desired, result>>
  BY DEF PushPublish, Goto
<1>2. /\ p \in Threads /\ ref[p] \in Nodes /\ ~InStack(ref[p])
      /\ mem[ref[p]] = "constructed"
  BY <1>1 DEF IInv, TypeOK, OneOwner, NoDanglingAccess, Threads
<1>3. /\ stack' \in Seq(Nodes) /\ stack' # <<>>
      /\ Len(stack') = Len(stack) + 1
      /\ \A i \in 1 .. Len(stack) : stack'[i] = stack[i]
      /\ stack'[Len(stack) + 1] = ref[p]
  BY <1>1, <1>2, AppendProperties DEF IInv, TypeOK
<1>4. TypeOK'
  BY <1>1, <1>2, <1>3 DEF IInv, TypeOK, Threads
<1>5. \A m : InStack(m)' <=> InStack(m) \/ m = ref[p]
  BY <1>3, HeadIsTop DEF InStack
<1>6. ListIsStack'
  <2>1. head' = stack'[Len(stack')]
    BY <1>1, <1>3, HeadIsTop
  <2>2. ASSUME NEW i \in 1 .. Len(stack')
        PROVE  /\ next'[stack'[i]] = IF i = 1 THEN Null ELSE stack'[i - 1]
               /\ mem'[stack'[i]] = "constructed"
               /\ \A j \in 1 .. Len(stack') : stack'[i] = stack'[j] => i = j
    <3>1. CASE i = Len(stack) + 1
      BY <1>1, <1>2, <1>3, <3>1, HeadIsTop DEF InStack
    <3>2. CASE i \in 1 .. Len(stack)
      <4>1. stack'[i] = stack[i] /\ (i # 1 => stack'[i - 1] = stack[i - 1])
        BY <1>3, <3>2, HeadIsTop
      <4>2. \A j \in 1 .. Len(stack') : stack'[i] = stack'[j] => i = j
        BY <1>2, <1>3, <3>2, <4>1, HeadIsTop DEF InStack, IInv, ListIsStack
      <4>3. /\ next[stack[i]] = IF i = 1 THEN Null ELSE stack[i - 1]
            /\ mem[stack[i]] = "constructed"
        BY <3>2 DEF IInv, ListIsStack
      <4> QED BY <1>1, <4>1, <4>2, <4>3
    <3> QED BY <1>3, <3>1, <3>2, HeadIsTop
  <2> QED BY <1>3, <2>1, <2>2 DEF ListIsStack
<1>7. NoDanglingAccess'
  BY <1>1, <1>2 DEF IInv, TypeOK, NoDanglingAccess, Threads
<1>8. OneOwner'
  BY <1>1, <1>2, <1>5 DEF IInv, TypeOK, OneOwner, Threads
<1>9. \A c \in Consumers : pc'[c] = pc[c] /\ ref'[c] = ref[c]
  BY <1>1 DEF IInv, TypeOK, Threads
<1>10. Popping' = Popping /\ Clearing' = Clearing
  BY <1>9 DEF Popping, Clearing
<1>11. \A c \in Consumers : /\ Following(c)' => InStack(ref[c])'
                            /\ pc'[c] = "swing" => desired'[c] = next'[ref'[c]]
  BY <1>1, <1>5, <1>9 DEF IInv, Following, InStack
<1>12. ~Clearing
  BY <1>1, <1>2 DEF IInv
<1> QED BY <1>4, <1>6, <1>7, <1>8, <1>10, <1>11, <1>12 DEF IInv


\* The steps of pop before the head is swung change nothing that threads share.
LEMMA PopLocalStep ==
  ASSUME IInv, NEW c \in Consumers,
         PopEmpty(c) \/ PopLoad(c) \/ PopFollow(c) \/ PopRetry(c)
  PROVE  IInv'
<1>1. /\ c \in Popping
      /\ pc' = [pc EXCEPT ![c] = pc'[c]]
      /\ pc'[c] \in {"idle", "follow", "swing"}
      /\ UNCHANGED <<head, next, mem, stack>>
      /\ ref' = [ref EXCEPT ![c] = ref'[c]]
      /\ desired' = [desired EXCEPT ![c] = desired'[c]]
      /\ ref'[c] \in Nodes \cup {Null}
      /\ desired'[c] \in Nodes \cup {Null}
      /\ result' \in [Threads -> Nodes \cup {Nothing, Empty}]
  BY DEF PopEmpty, PopLoad, PopFollow, PopRetry, Goto, Popping, IInv, TypeOK, Threads
<1>2. pc'[c] \in {"follow", "swing"} => InStack(ref'[c])
  <2>1. CASE PopEmpty(c)
    BY <2>1 DEF PopEmpty, Goto, IInv, TypeOK, Threads
  <2>2. CASE PopLoad(c)
    BY <2>2, HeadIsTop DEF PopLoad, Goto, IInv, TypeOK, Threads
  <2>3. CASE PopFollow(c)
    BY <2>3 DEF PopFollow, Goto, IInv, TypeOK, Following
  <2>4. CASE PopRetry(c)
    \* The node that this pop expected is still in the stack: head is not null.
    <3>1. InStack(ref[c])
      BY <2>4 DEF PopRetry, Goto, IInv, Following
    <3>2. head # Null
      BY <3>1, HeadIsTop DEF InStack
    <3> QED BY <2>4, <3>2, HeadIsTop DEF PopRetry, IInv, TypeOK, Threads
  <2> QED BY <2>1, <2>2, <2>3, <2>4
<1>3. pc'[c] = "swing" => desired'[c] = next[ref'[c]]
  BY <1>1 DEF PopEmpty, PopLoad, PopFollow, PopRetry, Goto, IInv, TypeOK, Threads
<1>4. \A t \in Threads : t # c => pc'[t] = pc[t] /\ ref'[t] = ref[t] /\ desired'[t] = desired[t]
  BY <1>1 DEF IInv, TypeOK
<1>5. c \in Threads /\ c \notin Producers
  BY DEF Threads
<1>6. InStack(ref'[c]) => ref'[c] # Null /\ mem[ref'[c]] = "constructed"
  BY HeadIsTop DEF InStack, IInv, ListIsStack
<1>7. TypeOK'
  BY <1>1, <1>4, <1>5 DEF IInv, TypeOK, Threads
<1>8. ListIsStack'
  BY <1>1 DEF IInv, ListIsStack
<1>9. NoDanglingAccess'
  BY <1>1, <1>2, <1>4, <1>5, <1>6 DEF IInv, NoDanglingAccess, Threads
<1>10. OneOwner'
  BY <1>1, <1>4, <1>5 DEF IInv, OneOwner, InStack
<1>11. Popping' \subseteq Popping
  BY <1>1, <1>4 DEF Popping, Threads
<1>12. Clearing' = Clearing /\ ~Clearing
  BY <1>1, <1>4, <1>5 DEF IInv, Clearing, Popping, Threads
<1>13. \A d \in Consumers : /\ Following(d)' => InStack(ref[d])'
                            /\ pc'[d] = "swing" => desired'[d] = next'[ref'[d]]
  BY <1>1, <1>2, <1>3, <1>4 DEF IInv, Following, InStack, Threads
<1> QED BY <1>7, <1>8, <1>9, <1>10, <1>11, <1>12, <1>13 DEF IInv

\* Dropping the youngest value of a stack.
LEMMA WithoutTop ==
  ASSUME NEW s \in Seq(Nodes), NEW n \in Nat, Len(s) = n + 1
  PROVE  /\ SubSeq(s, 1, n) \in Seq(Nodes)
         /\ Len(SubSeq(s, 1, n)) = n
         /\ \A i \in 1 .. n : SubSeq(s, 1, n)[i] = s[i]
<1>1. \A i \in 1 .. n : s[i] \in Nodes
  BY ElementOfSeq
<1>2. /\ SubSeq(s, 1, n) \in Seq(Nodes)
      /\ Len(SubSeq(s, 1, n)) = IF 1 <= n THEN n - 1 + 1 ELSE 0
      /\ \A i \in 1 .. n - 1 + 1 : SubSeq(s, 1, n)[i] = s[1 + i - 1]
  BY <1>1, SubSeqProperties
<1> QED BY <1>2

\* Only this thread pops, so the head it compares with is on top of the stack.
LEMMA PopSwingStep ==
  ASSUME IInv, NEW c \in Consumers, PopSwing(c)
  PROVE  IInv'
<1>1. /\ pc[c] = "swing" /\ pc' = [pc EXCEPT ![c] = "take"]
      /\ head = ref[c] /\ head' = desired[c]
      /\ stack' = SubSeq(stack, 1, Len(stack) - 1)
      /\ UNCHANGED <<next, mem, ref, desired, result>>
  BY DEF PopSwing, Goto
<1>2. /\ InStack(ref[c]) /\ desired[c] = next[ref[c]] /\ ref[c] # Null
      /\ Len(stack) \in Nat \ {0} /\ ref[c] = stack[Len(stack)]
  BY <1>1, HeadIsTop DEF IInv, Following, InStack, NoDanglingAccess
<1>3. /\ stack' \in Seq(Nodes)
      /\ Len(stack') = Len(stack) - 1
      /\ \A i \in 1 .. Len(stack) - 1 : stack'[i] = stack[i]
  <2>1. stack \in Seq(Nodes) /\ Len(stack) - 1 \in Nat /\ Len(stack) = (Len(stack) - 1) + 1
    BY <1>2 DEF IInv, TypeOK
  <2> QED BY <1>1, <2>1, WithoutTop
<1>4. \A m : InStack(m)' => InStack(m) /\ m # ref[c]
  <2> SUFFICES ASSUME NEW m, InStack(m)' PROVE InStack(m) /\ m # ref[c]
    OBVIOUS
  <2>1. PICK i \in 1 .. Len(stack) - 1 : m = stack[i]
    BY <1>3 DEF InStack
  <2>2. i \in 1 .. Len(stack) /\ Len(stack) \in 1 .. Len(stack) /\ i # Len(stack)
    BY <1>2
  <2>3. stack[i] # stack[Len(stack)]
    BY <2>2 DEF IInv, ListIsStack
  <2> QED BY <1>2, <2>1, <2>2, <2>3 DEF InStack
<1>5. c \in Threads /\ c \notin Producers
  BY DEF Threads
<1>6. TypeOK'
  BY <1>1, <1>3, <1>5 DEF IInv, TypeOK, Threads
<1>7. ListIsStack'
  <2>1. next[ref[c]] = IF Len(stack) = 1 THEN Null ELSE stack[Len(stack) - 1]
    <3>1. Len(stack) \in 1 .. Len(stack)
      BY <1>2
    <3>2. next[stack[Len(stack)]] = IF Len(stack) = 1 THEN Null ELSE stack[Len(stack) - 1]
      BY <3>1 DEF IInv, ListIsStack
    <3> QED BY <1>2, <3>2
  <2>2. stack' = <<>> <=> Len(stack) = 1
    BY <1>2, <1>3, EmptySeq
  <2>3. head' = IF stack' = <<>> THEN Null ELSE stack'[Len(stack')]
    BY <1>1, <1>2, <1>3, <2>1, <2>2
  <2>4. ASSUME NEW i \in 1 .. Len(stack')
        PROVE  /\ next'[stack'[i]] = IF i = 1 THEN Null ELSE stack'[i - 1]
               /\ mem'[stack'[i]] = "constructed"
               /\ \A j \in 1 .. Len(stack') : stack'[i] = stack'[j] => i = j
    <3>1. i \in 1 .. Len(stack) /\ stack'[i] = stack[i] /\ (i # 1 => stack'[i - 1] = stack[i - 1])
      BY <1>2, <1>3
    <3>2. /\ next[stack[i]] = IF i = 1 THEN Null ELSE stack[i - 1]
          /\ mem[stack[i]] = "constructed"
          /\ \A j \in 1 .. Len(stack) : stack[i] = stack[j] => i = j
      BY <3>1 DEF IInv, ListIsStack
    <3> QED BY <1>1, <1>2, <1>3, <3>1, <3>2
  <2> QED BY <2>3, <2>4 DEF ListIsStack
<1>8. NoDanglingAccess'
  BY <1>1, <1>2, <1>5 DEF IInv, TypeOK, NoDanglingAccess, Threads
<1>9. OneOwner'
  BY <1>1, <1>2, <1>4, <1>5 DEF IInv, TypeOK, OneOwner, Threads
<1>10. Popping' = Popping /\ c \in Popping
  BY <1>1, <1>5 DEF IInv, TypeOK, Popping
<1>11. Clearing' = Clearing /\ ~Clearing
  BY <1>1, <1>5 DEF IInv, TypeOK, Clearing, Threads
<1>12. \A d \in Consumers : ~Following(d)'
  BY <1>1, <1>5, <1>10 DEF IInv, TypeOK, Popping, Following
<1> QED BY <1>6, <1>7, <1>8, <1>9, <1>10, <1>11, <1>12 DEF IInv, Following

\* The value is moved out of a node that only this thread has.
LEMMA PopTakeStep ==
  ASSUME IInv, NEW c \in Consumers, PopTake(c)
  PROVE  IInv'
<1>1. /\ pc[c] = "take" /\ pc' = [pc EXCEPT ![c] = "idle"]
      /\ result' = [result EXCEPT ![c] = ref[c]]
      /\ mem' = [mem EXCEPT ![ref[c]] = "destroyed"]
      /\ ref' = [ref EXCEPT ![c] = Null]
      /\ desired' = [desired EXCEPT ![c] = Null]
      /\ UNCHANGED <<head, next, stack>>
  BY DEF PopTake, Goto
<1>2. /\ c \in Threads /\ c \notin Producers /\ c \in Popping
      /\ ref[c] \in Nodes /\ ~InStack(ref[c])
  BY <1>1 DEF IInv, TypeOK, OneOwner, NoDanglingAccess, Threads, Popping
<1>3. TypeOK'
  BY <1>1, <1>2 DEF IInv, TypeOK, Threads
<1>4. \A d \in Consumers : d # c => d \notin Popping
  BY <1>2 DEF IInv
<1>5. \A t \in Threads : t # c => pc'[t] = pc[t] /\ ref'[t] = ref[t]
  BY <1>1 DEF IInv, TypeOK
<1>6. ListIsStack'
  BY <1>1, <1>2, HeadIsTop DEF IInv, TypeOK, ListIsStack, InStack
<1>7. \A p \in Producers : pc[p] # "idle" => ref[p] # ref[c]
  BY <1>1, <1>2 DEF IInv, TypeOK, OneOwner, Threads
<1>8. \A d \in Consumers : pc'[d] \notin {"follow", "swing", "take"}
  BY <1>1, <1>2, <1>4, <1>5 DEF IInv, TypeOK, Popping, Threads
<1>9. NoDanglingAccess'
  BY <1>1, <1>2, <1>5, <1>7, <1>8 DEF IInv, TypeOK, NoDanglingAccess, Threads
<1>10. OneOwner'
  BY <1>1, <1>2, <1>5 DEF IInv, TypeOK, OneOwner, InStack
<1>11. Popping' \subseteq Popping
  BY <1>1, <1>2, <1>5 DEF Popping, Threads
<1>12. Clearing' = Clearing /\ ~Clearing
  BY <1>1, <1>2, <1>5 DEF IInv, TypeOK, Clearing, Threads
<1> QED BY <1>3, <1>6, <1>8, <1>9, <1>10, <1>11, <1>12 DEF IInv, Following

\* A pop starts while no other pop is running.
LEMMA PopCallStep ==
  ASSUME IInv, PopsSerialized, NEW c \in Consumers, PopCall(c), ~Clearing
  PROVE  IInv'
<1>1. /\ pc[c] = "idle" /\ pc' = [pc EXCEPT ![c] = "load"]
      /\ Popping = {}
      /\ result' = [result EXCEPT ![c] = Nothing]
      /\ UNCHANGED <<head, next, mem, ref, desired, stack>>
  BY DEF PopCall, Goto
<1>2. c \in Threads /\ c \notin Producers
  BY DEF Threads
<1>3. \A t \in Threads : t # c => pc'[t] = pc[t]
  BY <1>1 DEF IInv, TypeOK
<1>4. TypeOK' /\ ListIsStack'
  BY <1>1, <1>2 DEF IInv, TypeOK, ListIsStack, Threads
<1>5. NoDanglingAccess' /\ OneOwner'
  BY <1>1, <1>2, <1>3 DEF IInv, TypeOK, NoDanglingAccess, OneOwner, InStack, Threads
<1>6. Popping' \subseteq {c} /\ ~Clearing'
  BY <1>1, <1>2, <1>3 DEF IInv, TypeOK, Popping, Clearing, Threads
<1>7. \A d \in Consumers : ~Following(d)'
  BY <1>1, <1>2, <1>3 DEF IInv, TypeOK, Popping, Following, Threads
<1> QED BY <1>4, <1>5, <1>6, <1>7 DEF IInv, Following

\* clear() works on nodes that nobody else can reach.
LEMMA ClearSteps ==
  ASSUME IInv, NEW c \in Consumers, ClearCall(c) \/ ClearNode(c) \/ ClearReturn(c)
  PROVE  IInv'
<1>1. c \in Threads /\ c \notin Producers
  BY DEF Threads
<1>2. ASSUME ClearCall(c) PROVE IInv'
  <2>1. /\ \A t \in Threads : pc[t] = "idle"
        /\ pc' = [pc EXCEPT ![c] = "clear"]
        /\ ref' = [ref EXCEPT ![c] = head]
        /\ head' = Null /\ stack' = <<>>
        /\ UNCHANGED <<next, mem, desired, result>>
    BY <1>2 DEF ClearCall
  <2>2. stack' \in Seq(Nodes) /\ Len(stack') = 0
    BY <2>1, EmptySeq
  <2>3. \A t \in Threads : pc'[t] = IF t = c THEN "clear" ELSE "idle"
    BY <2>1 DEF IInv, TypeOK
  <2>4. TypeOK'
    BY <1>1, <2>1, <2>2 DEF IInv, TypeOK, Threads
  <2>5. ListIsStack' /\ NoDanglingAccess' /\ OneOwner'
    BY <1>1, <2>1, <2>2, <2>3 DEF ListIsStack, NoDanglingAccess, OneOwner, Threads
  <2>6. Popping' = {} /\ \A d \in Consumers : ~Following(d)'
    BY <2>3 DEF Popping, Following, Threads
  <2> QED BY <2>1, <2>3, <2>4, <2>5, <2>6 DEF IInv, Following
<1>3. ASSUME ClearNode(c) \/ ClearReturn(c) PROVE IInv'
  <2>1. /\ pc[c] = "clear" /\ UNCHANGED <<head, next, ref, desired, result, stack>>
        /\ mem' \in [Nodes -> {"raw", "constructed", "destroyed"}]
        /\ pc' = pc \/ pc' = [pc EXCEPT ![c] = "idle"]
    BY <1>3 DEF ClearNode, ClearReturn, Goto, IInv, TypeOK
  <2>2. stack = <<>> /\ Len(stack) = 0 /\ \A t \in Threads : pc[t] \in {"idle", "clear"}
    BY <1>1, <2>1, EmptySeq DEF IInv, Clearing
  <2>3. \A t \in Threads : pc'[t] \in {"idle", "clear"}
    BY <2>1, <2>2 DEF IInv, TypeOK
  <2>4. \A p \in Producers : pc'[p] = "idle"
    BY <1>1, <2>1, <2>2 DEF IInv, TypeOK, Threads
  <2>5. TypeOK'
    BY <1>1, <2>1, <2>3, <2>4 DEF IInv, TypeOK, Threads
  <2>6. ListIsStack' /\ NoDanglingAccess' /\ OneOwner'
    BY <1>1, <2>1, <2>2, <2>3, <2>4 DEF IInv, ListIsStack, NoDanglingAccess, OneOwner, Threads
  <2>7. Popping' = {} /\ \A d \in Consumers : ~Following(d)'
    BY <2>3 DEF Popping, Following, Threads
  <2> QED BY <2>1, <2>2, <2>3, <2>5, <2>6, <2>7 DEF IInv, Following
<1> QED BY <1>2, <1>3

\* The invariant is inductive when pops are serialised.
LEMMA InvStep == PopsSerialized /\ IInv /\ [Next]_vars => IInv'
<1> SUFFICES ASSUME PopsSerialized, IInv, [Next]_vars PROVE IInv'
  OBVIOUS
<1>1. CASE Call
  BY <1>1, PushAllocateStep, PopCallStep, ClearSteps DEF Call
<1>2. ASSUME NEW p \in Producers, PushStep(p) PROVE IInv'
  BY <1>2, PushLinkStep, PushPublishStep DEF PushStep
<1>3. ASSUME NEW c \in Consumers, PopStep(c) PROVE IInv'
  BY <1>3, PopLocalStep, PopSwingStep, PopTakeStep DEF PopStep
<1>4. ASSUME NEW c \in Consumers, ClearStep(c) PROVE IInv'
  BY <1>4, ClearSteps DEF ClearStep
<1>5. CASE UNCHANGED vars
  BY <1>5 DEF vars, IInv, TypeOK, ListIsStack, OneOwner, NoDanglingAccess, Popping,
              Following, InStack, Clearing
<1> QED BY <1>1, <1>2, <1>3, <1>4, <1>5 DEF Next

\* With pops that exclude each other, whatever the producers do meanwhile.
THEOREM StackSound == PopsSerialized => (Spec => []IInv)
<1> SUFFICES ASSUME PopsSerialized PROVE Spec => []IInv
  OBVIOUS
<1>1. IInv /\ [Next]_vars => IInv'
  BY InvStep
<1> QED BY <1>1, InvInit, PTL DEF Spec

\* No operation follows null or touches a node that is not alive.
THEOREM NeverDangling == PopsSerialized => (Spec => []NoDanglingAccess)
<1>1. IInv => NoDanglingAccess
  BY DEF IInv
<1> QED BY <1>1, StackSound, PTL


\* Every operation takes effect in one step of its own, and pop answers "empty"
\* only when the stack is.
THEOREM AtomicStackImplemented == PopsSerialized => (Spec => ImplementsAtomicStack)
<1> DEFINE got == [t \in Threads |-> IF pc[t] = "take" THEN ref[t] ELSE result[t]]
<1>1. Init => Abstract!Init
  <2> SUFFICES ASSUME Init PROVE Abstract!Init
    OBVIOUS
  <2>1. \A t \in Threads : pc[t] # "take" /\ result[t] = Nothing
    BY DEF Init
  <2> QED BY <2>1 DEF Init, Abstract!Init
<1>2. IInv /\ [Next]_vars => [Abstract!Next]_<<stack, got>>
  <2> SUFFICES ASSUME IInv, [Next]_vars PROVE [Abstract!Next]_<<stack, got>>
    OBVIOUS
  <2>1. pc \in [Threads -> States] /\ ref \in [Threads -> Pointers]
        /\ result \in [Threads -> Nodes \cup {Nothing, Empty}]
    BY DEF IInv, TypeOK, States
  <2>2. ASSUME NEW p \in Producers, NEW n \in Nodes, PushAllocate(p, n)
        PROVE  UNCHANGED <<stack, got>>
    <3>1. p \in Threads /\ pc[p] # "take" /\ pc'[p] # "take"
      BY <2>1, <2>2 DEF PushAllocate, Goto, Threads
    <3> QED BY <2>1, <2>2, <3>1 DEF PushAllocate, Goto
  <2>3. ASSUME NEW p \in Producers, PushLink(p) \/ PushRetry(p)
        PROVE  UNCHANGED <<stack, got>>
    <3>1. p \in Threads /\ pc[p] # "take" /\ pc'[p] # "take" /\ UNCHANGED <<stack, ref, result>>
          /\ pc' = [pc EXCEPT ![p] = pc'[p]]
      BY <2>1, <2>3 DEF PushLink, PushRetry, Goto, Threads
    <3> QED BY <2>1, <3>1
  <2>4. ASSUME NEW p \in Producers, PushPublish(p) PROVE Abstract!Push(ref[p])
    <3>1. p \in Threads /\ pc[p] # "take" /\ pc'[p] # "take"
      BY <2>1, <2>4 DEF PushPublish, Goto, Threads
    <3>2. UNCHANGED got
      BY <2>1, <2>4, <3>1 DEF PushPublish, Goto
    <3> QED BY <2>4, <3>2 DEF PushPublish, Abstract!Push
  <2>5. ASSUME NEW p \in Producers, PushPublish(p) PROVE ref[p] \in Nodes
    BY <2>1, <2>5 DEF PushPublish, Goto, IInv, NoDanglingAccess, Threads
  <2>6. ASSUME NEW c \in Consumers, PopCall(c) PROVE Abstract!Call(c)
    <3>1. c \in Threads /\ got' = [got EXCEPT ![c] = Nothing] /\ UNCHANGED stack
      BY <2>1, <2>6 DEF PopCall, Goto, Threads
    <3> QED BY <3>1 DEF Abstract!Call
  <2>7. ASSUME NEW c \in Consumers, PopEmpty(c) PROVE Abstract!PopEmpty(c)
    <3>1. c \in Threads /\ got' = [got EXCEPT ![c] = Empty] /\ UNCHANGED stack
      BY <2>1, <2>7 DEF PopEmpty, Goto, Threads
    <3>2. stack = <<>>
      BY <2>7, HeadIsTop, EmptySeq DEF PopEmpty, IInv, ListIsStack, TypeOK
    <3> QED BY <3>1, <3>2 DEF Abstract!PopEmpty
  <2>8. ASSUME NEW c \in Consumers, PopLoad(c) \/ PopFollow(c) \/ PopRetry(c)
        PROVE  UNCHANGED <<stack, got>>
    <3>1. c \in Threads /\ pc[c] # "take" /\ pc'[c] # "take" /\ UNCHANGED <<stack, result>>
          /\ pc' = [pc EXCEPT ![c] = pc'[c]] /\ ref' = [ref EXCEPT ![c] = ref'[c]]
      BY <2>1, <2>8 DEF PopLoad, PopFollow, PopRetry, Goto, Threads
    <3> QED BY <2>1, <3>1
  <2>9. ASSUME NEW c \in Consumers, PopSwing(c) PROVE Abstract!Pop(c)
    <3>1. c \in Threads /\ got' = [got EXCEPT ![c] = ref[c]]
      BY <2>1, <2>9 DEF PopSwing, Goto, Threads
    <3>2. head = ref[c] /\ ref[c] # Null /\ stack' = SubSeq(stack, 1, Len(stack) - 1)
      BY <2>9 DEF PopSwing, Goto, IInv, NoDanglingAccess
    <3>3. stack # <<>> /\ ref[c] = stack[Len(stack)]
      BY <3>2, HeadIsTop, EmptySeq
    <3> QED BY <3>1, <3>2, <3>3 DEF Abstract!Pop
  <2>10. ASSUME NEW c \in Consumers, PopTake(c) PROVE UNCHANGED <<stack, got>>
    <3>1. c \in Threads
      BY DEF Threads
    <3> QED BY <2>1, <2>10, <3>1 DEF PopTake, Goto
  <2>11. ASSUME NEW c \in Consumers, ClearCall(c) PROVE Abstract!Clear
    <3>1. c \in Threads /\ pc[c] # "take" /\ pc'[c] # "take" /\ UNCHANGED result
          /\ pc' = [pc EXCEPT ![c] = pc'[c]] /\ ref' = [ref EXCEPT ![c] = ref'[c]]
      BY <2>1, <2>11 DEF ClearCall, Threads
    <3>2. UNCHANGED got
      BY <2>1, <3>1
    <3> QED BY <2>11, <3>2 DEF ClearCall, Abstract!Clear
  <2>12. ASSUME NEW c \in Consumers, ClearNode(c) \/ ClearReturn(c)
         PROVE  UNCHANGED <<stack, got>>
    <3>1. c \in Threads /\ pc[c] # "take" /\ pc'[c] # "take" /\ UNCHANGED <<stack, ref, result>>
          /\ pc' = [pc EXCEPT ![c] = pc'[c]]
      BY <2>1, <2>12 DEF ClearNode, ClearReturn, Goto, Threads
    <3> QED BY <2>1, <3>1
  <2>13. CASE UNCHANGED vars
    BY <2>13 DEF vars
  <2>14. \A c \in Consumers : c \in Threads
    BY DEF Threads
  <2> HIDE DEF got
  <2>15. CASE Call
    BY <2>2, <2>6, <2>11, <2>14, <2>15 DEF Call, Abstract!Next
  <2>16. ASSUME NEW p \in Producers, PushStep(p) PROVE [Abstract!Next]_<<stack, got>>
    BY <2>3, <2>4, <2>5, <2>16 DEF PushStep, Abstract!Next
  <2>17. ASSUME NEW c \in Consumers, PopStep(c) PROVE [Abstract!Next]_<<stack, got>>
    BY <2>7, <2>8, <2>9, <2>10, <2>14, <2>17 DEF PopStep, Abstract!Next
  <2>18. ASSUME NEW c \in Consumers, ClearStep(c) PROVE [Abstract!Next]_<<stack, got>>
    BY <2>12, <2>18 DEF ClearStep
  <2> QED BY <2>13, <2>15, <2>16, <2>17, <2>18 DEF Next
<1> SUFFICES ASSUME PopsSerialized PROVE Spec => ImplementsAtomicStack
  OBVIOUS
<1>3. Spec => []IInv
  BY StackSound
<1> QED BY <1>1, <1>2, <1>3, PTL DEF Spec, ImplementsAtomicStack, Abstract!Spec

=============================================================================
