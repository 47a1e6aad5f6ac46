---------------------------- MODULE LockFreeStack ----------------------------
(***************************************************************************)
(* nox::thread::LockFreeStack<T>: a linked stack whose head is swung by    *)
(* compare_exchange.  One action is one access to shared memory of push,   *)
(* pop or clear, so the threads interleave as they do on the machine.  A   *)
(* spurious failure of compare_exchange_weak repeats a step and is a       *)
(* stuttering step here.                                                   *)
(*                                                                         *)
(* A value is identified with the node that carries it.  The allocator     *)
(* hands out each node once until its clear() makes all of them available  *)
(* again (LockFreeAllocator.tla).                                          *)
(***************************************************************************)
EXTENDS Integers, Sequences, FiniteSets

CONSTANTS
  Nodes,             \* nodes that the allocator can hand out between two clears
  Producers,         \* threads that push
  Consumers,         \* threads that pop
  Null,              \* nullptr
  Nothing, Empty,    \* results of a pop: none yet, "the stack was empty"
  PopsSerialized,    \* do the callers of pop exclude each other?
  MayClear           \* does anybody call clear()?

ASSUME NullAssumption == Null \notin Nodes
ASSUME ResultAssumption == {Nothing, Empty} \cap Nodes = {} /\ Nothing # Empty
ASSUME RoleAssumption == Producers \cap Consumers = {}
ASSUME ModeAssumption == PopsSerialized \in BOOLEAN /\ MayClear \in BOOLEAN

Threads == Producers \cup Consumers

VARIABLES
  head,      \* std::atomic<Node*>
  next,      \* next[n]: the node's next pointer
  mem,       \* mem[n]: raw memory, a constructed Node or a destroyed one
  pc,        \* pc[t]: the access that thread t does next
  ref,       \* ref[t]: newHead in push, expected in pop, itr in clear
  desired,   \* desired[t]: expected->next as pop read it for its compare_exchange
  result,    \* result[t]: what the last pop of t returned
  stack      \* history: the values in the stack, youngest last

vars == <<head, next, mem, pc, ref, desired, result, stack>>

Popping == {c \in Consumers : pc[c] \in {"load", "follow", "swing", "take"}}

Init ==
  /\ head = Null
  /\ next = [n \in Nodes |-> Null]
  /\ mem = [n \in Nodes |-> "raw"]
  /\ pc = [t \in Threads |-> "idle"]
  /\ ref = [t \in Threads |-> Null]
  /\ desired = [t \in Threads |-> Null]
  /\ result = [t \in Threads |-> Nothing]
  /\ stack = <<>>

Goto(t, from, to) ==
  /\ pc[t] = from
  /\ pc' = [pc EXCEPT ![t] = to]

-----------------------------------------------------------------------------
(* push *)

\* Allocate a node and construct the value in it.
PushAllocate(p, n) ==
  /\ Goto(p, "idle", "link")
  /\ mem[n] = "raw"
  /\ mem' = [mem EXCEPT ![n] = "constructed"]
  /\ next' = [next EXCEPT ![n] = Null]
  /\ ref' = [ref EXCEPT ![p] = n]
  /\ UNCHANGED <<head, desired, result, stack>>

\* newHead->next = head.load()
PushLink(p) ==
  /\ Goto(p, "link", "publish")
  /\ next' = [next EXCEPT ![ref[p]] = head]
  /\ UNCHANGED <<head, mem, ref, desired, result, stack>>

\* Fault: head is stored, not compared.
PushStore(p) ==
  /\ Goto(p, "publish", "idle")
  /\ head' = ref[p]
  /\ stack' = Append(stack, ref[p])
  /\ ref' = [ref EXCEPT ![p] = Null]
  /\ UNCHANGED <<next, mem, desired, result>>

\* compare_exchange succeeds: the node is the new head.
PushPublish(p) ==
  /\ Goto(p, "publish", "idle")
  /\ head = next[ref[p]]
  /\ head' = ref[p]
  /\ stack' = Append(stack, ref[p])
  /\ ref' = [ref EXCEPT ![p] = Null]
  /\ UNCHANGED <<next, mem, desired, result>>

\* Fault: the failed attempt does not learn the new head.
PushSpin(p) ==
  /\ pc[p] = "publish"
  /\ head # next[ref[p]]
  /\ UNCHANGED vars

\* compare_exchange fails and stores the head it saw in newHead->next.
PushRetry(p) ==
  /\ pc[p] = "publish"
  /\ head # next[ref[p]]
  /\ next' = [next EXCEPT ![ref[p]] = head]
  /\ UNCHANGED <<head, mem, pc, ref, desired, result, stack>>

-----------------------------------------------------------------------------
(* pop *)

PopCall(c) ==
  /\ Goto(c, "idle", "load")
  /\ PopsSerialized => Popping = {}
  /\ result' = [result EXCEPT ![c] = Nothing]
  /\ UNCHANGED <<head, next, mem, ref, desired, stack>>

\* expected = head.load(); the early return when it is null.
PopEmpty(c) ==
  /\ Goto(c, "load", "idle")
  /\ head = Null
  /\ result' = [result EXCEPT ![c] = Empty]
  /\ UNCHANGED <<head, next, mem, ref, desired, stack>>

\* Fault: the head is not tested for null.
PopLoadUnchecked(c) ==
  /\ Goto(c, "load", "follow")
  /\ ref' = [ref EXCEPT ![c] = head]
  /\ UNCHANGED <<head, next, mem, desired, result, stack>>

PopLoad(c) ==
  /\ Goto(c, "load", "follow")
  /\ head # Null
  /\ ref' = [ref EXCEPT ![c] = head]
  /\ UNCHANGED <<head, next, mem, desired, result, stack>>

\* Evaluate the argument expected->next; undefined when expected is null.
PopFollow(c) ==
  /\ Goto(c, "follow", "swing")
  /\ ref[c] # Null
  /\ desired' = [desired EXCEPT ![c] = next[ref[c]]]
  /\ UNCHANGED <<head, next, mem, ref, result, stack>>

\* Fault: the new head is stored, not compared.
PopStore(c) ==
  /\ Goto(c, "swing", "take")
  /\ head' = desired[c]
  /\ stack' = SubSeq(stack, 1, Len(stack) - 1)
  /\ UNCHANGED <<next, mem, ref, desired, result>>

\* compare_exchange succeeds: the node is this thread's.
PopSwing(c) ==
  /\ Goto(c, "swing", "take")
  /\ head = ref[c]
  /\ head' = desired[c]
  /\ stack' = SubSeq(stack, 1, Len(stack) - 1)
  /\ UNCHANGED <<next, mem, ref, desired, result>>

\* compare_exchange fails and stores the head it saw in expected; the loop
\* goes on to expected->next without looking whether that is null.
PopRetry(c) ==
  /\ Goto(c, "swing", "follow")
  /\ head # ref[c]
  /\ ref' = [ref EXCEPT ![c] = head]
  /\ UNCHANGED <<head, next, mem, desired, result, stack>>

\* Move the value out, destroy the node; deallocate() does nothing.
PopTake(c) ==
  /\ Goto(c, "take", "idle")
  /\ result' = [result EXCEPT ![c] = ref[c]]
  /\ mem' = [mem EXCEPT ![ref[c]] = "destroyed"]
  /\ ref' = [ref EXCEPT ![c] = Null]
  /\ desired' = [desired EXCEPT ![c] = Null]
  /\ UNCHANGED <<head, next, stack>>

-----------------------------------------------------------------------------
(* clear, called while no other thread uses the stack *)

ClearCall(c) ==
  /\ MayClear
  /\ \A t \in Threads : pc[t] = "idle"
  /\ pc' = [pc EXCEPT ![c] = "clear"]
  /\ ref' = [ref EXCEPT ![c] = head]
  /\ head' = Null
  /\ stack' = <<>>
  /\ UNCHANGED <<next, mem, desired, result>>

\* The loop body destroys the node and does not advance itr.
ClearNode(c) ==
  /\ pc[c] = "clear"
  /\ ref[c] # Null
  /\ mem' = [mem EXCEPT ![ref[c]] = "destroyed"]
  /\ UNCHANGED <<head, next, pc, ref, desired, result, stack>>

\* allocator.clear(): every node can be handed out again.
ClearReturn(c) ==
  /\ Goto(c, "clear", "idle")
  /\ ref[c] = Null
  /\ mem' = [n \in Nodes |-> "raw"]
  /\ UNCHANGED <<head, next, ref, desired, result, stack>>

-----------------------------------------------------------------------------

Clearing == \E c \in Consumers : pc[c] = "clear"

PushStep(p) == PushLink(p) \/ PushPublish(p) \/ PushRetry(p)

PopStep(c) ==
  \/ PopEmpty(c)
  \/ PopLoad(c)
  \/ PopFollow(c)
  \/ PopSwing(c)
  \/ PopRetry(c)
  \/ PopTake(c)

ClearStep(c) == ClearNode(c) \/ ClearReturn(c)

Call ==
  /\ ~Clearing
  /\ \/ \E p \in Producers, n \in Nodes : PushAllocate(p, n)
     \/ \E c \in Consumers : PopCall(c) \/ ClearCall(c)

Next ==
  \/ Call
  \/ \E p \in Producers : PushStep(p)
  \/ \E c \in Consumers : PopStep(c) \/ ClearStep(c)

Spec == Init /\ [][Next]_vars

\* A thread that has entered an operation keeps running; calls need not come.
Fairness ==
  /\ \A p \in Producers : WF_vars(PushStep(p))
  /\ \A c \in Consumers : WF_vars(PopStep(c)) /\ WF_vars(ClearStep(c))

FairSpec == Spec /\ Fairness

-----------------------------------------------------------------------------
(* Properties. *)

Pointers == Nodes \cup {Null}

TypeOK ==
  /\ head \in Pointers
  /\ next \in [Nodes -> Pointers]
  /\ mem \in [Nodes -> {"raw", "constructed", "destroyed"}]
  /\ pc \in [Threads -> {"idle", "link", "publish", "load", "follow", "swing", "take", "clear"}]
  /\ \A p \in Producers : pc[p] \in {"idle", "link", "publish"}
  /\ \A c \in Consumers : pc[c] \notin {"link", "publish"}
  /\ ref \in [Threads -> Pointers]
  /\ desired \in [Threads -> Pointers]
  /\ result \in [Threads -> Nodes \cup {Nothing, Empty}]
  /\ stack \in Seq(Nodes)

\* The linked list is the stack: it starts at head, each node leads to the one
\* pushed before it, the oldest to null, and no node is in it twice.
ListIsStack ==
  /\ head = IF stack = <<>> THEN Null ELSE stack[Len(stack)]
  /\ \A i \in 1 .. Len(stack) :
       /\ next[stack[i]] = IF i = 1 THEN Null ELSE stack[i - 1]
       /\ mem[stack[i]] = "constructed"
       /\ \A j \in 1 .. Len(stack) : stack[i] = stack[j] => i = j

InStack(n) == \E i \in 1 .. Len(stack) : stack[i] = n

\* No operation reads or destroys a node that is null, raw or destroyed.
NoDanglingAccess ==
  /\ \A p \in Producers : pc[p] # "idle" => ref[p] # Null /\ mem[ref[p]] = "constructed"
  /\ \A c \in Consumers :
       pc[c] \in {"follow", "swing", "take"} => ref[c] # Null /\ mem[ref[c]] = "constructed"

\* LockFreeStack.h: the stack "should work for a multiple-producer
\* multiple-consumer case".  pop never follows a null pointer.
NeverFollowsNull == \A c \in Consumers : pc[c] = "follow" => ref[c] # Null

\* A node belongs to the stack or to one thread: to the producer that fills
\* it, or to the consumer that swung the head past it.
OneOwner ==
  LET owned(t) == pc[t] \in {"link", "publish", "take"} IN
  \A t \in Threads : owned(t) =>
    /\ ~InStack(ref[t])
    /\ \A u \in Threads : owned(u) /\ ref[u] = ref[t] => u = t

\* push and pop take effect at the compare_exchange that succeeds; a pop that
\* returns false at the load that saw null.
Abstract ==
  INSTANCE AtomicStack WITH
    Values <- Nodes,
    got <- [t \in Threads |-> IF pc[t] = "take" THEN ref[t] ELSE result[t]]
ImplementsAtomicStack == Abstract!Spec

\* Every push and pop that was entered returns (with finitely many calls left: a
\* compare_exchange fails only because another one succeeded).
OperationsReturn == \A t \in Threads : pc[t] \notin {"idle", "clear"} ~> pc[t] = "idle"

\* LockFreeStack.h: clear "Removes and deallocates all the memory used in the
\* stack".
ClearReturns == \A c \in Consumers : pc[c] = "clear" ~> pc[c] = "idle"

\* The strengthening that is inductive when pops are serialised.
Following(c) == pc[c] \in {"follow", "swing"}

IInv ==
  /\ TypeOK
  /\ ListIsStack
  /\ OneOwner
  /\ NoDanglingAccess
  /\ \A c, d \in Popping : c = d
  /\ \A c \in Consumers : Following(c) => InStack(ref[c])
  /\ \A c \in Consumers : pc[c] = "swing" => desired[c] = next[ref[c]]
  /\ Clearing => stack = <<>>
  /\ Clearing => \A t \in Threads : pc[t] \in {"idle", "clear"}

=============================================================================
