-------------------------- MODULE LockFreeAllocator --------------------------
(***************************************************************************)
(* nox::memory::LockFreeAllocator<MAX_SIZE>: a list of blocks; allocate    *)
(* bumps the counter of the block firstFree points to, and when that block *)
(* is full moves firstFree on, to the next block of the list or to a new   *)
(* one.  One action is one access to shared memory.                        *)
(*                                                                         *)
(* compare_exchange_weak may fail for no reason: on `used` it repeats a    *)
(* step; on firstFree it sends the thread around the loop (SwingFail).     *)
(***************************************************************************)
EXTENDS Integers, Sequences, FiniteSets

CONSTANTS
  Threads,          \* threads that allocate
  Blocks,           \* addresses the heap can give to a Block
  Null,             \* nullptr
  InitialBlocks,    \* the blocks that the constructor links, a sequence
  MAX_SIZE,         \* bytes in a block
  Sizes,            \* sizes asked for
  MaxGiven          \* bound: allocations between two clears

ASSUME BlocksAssumption == IsFiniteSet(Blocks) /\ Null \notin Blocks
ASSUME SizeAssumption == MAX_SIZE \in Nat \ {0} /\ Sizes \subseteq 1 .. MAX_SIZE
ASSUME InitialAssumption ==
  /\ InitialBlocks \in Seq(Blocks) /\ Len(InitialBlocks) > 0
  /\ \A i, j \in 1 .. Len(InitialBlocks) : InitialBlocks[i] = InitialBlocks[j] => i = j

VARIABLES
  first,        \* the first block of the list; null once the allocator is destroyed
  firstFree,    \* std::atomic<Block*>
  next,         \* next[b]
  used,         \* used[b]
  live,         \* the blocks that were constructed and not deleted
  pc,           \* pc[t]: the access that thread t does next
  size,         \* size[t]: the parameter of allocate
  expected,     \* expected[t], and prev
  desired,      \* desired[t]
  allocated,    \* allocated[t]: did t construct the block in desired?
  current,      \* current[t]: the local variable of tryAllocate
  given         \* history: the regions handed out since the last clear

threadVars == <<pc, size, expected, desired, allocated, current>>
vars == <<first, firstFree, next, used, live, threadVars, given>>

Init ==
  LET n == Len(InitialBlocks) IN
  /\ first = InitialBlocks[1]
  /\ firstFree = InitialBlocks[1]
  /\ next = [b \in Blocks |->
       IF \E i \in 1 .. n - 1 : InitialBlocks[i] = b
         THEN InitialBlocks[1 + CHOOSE i \in 1 .. n - 1 : InitialBlocks[i] = b]
         ELSE Null]
  /\ used = [b \in Blocks |-> 0]
  /\ live = {InitialBlocks[i] : i \in 1 .. n}
  /\ pc = [t \in Threads |-> "idle"]
  /\ size = [t \in Threads |-> 1]
  /\ expected = [t \in Threads |-> Null]
  /\ desired = [t \in Threads |-> Null]
  /\ allocated = [t \in Threads |-> FALSE]
  /\ current = [t \in Threads |-> 0]
  /\ given = {}

Goto(t, from, to) ==
  /\ pc[t] = from
  /\ pc' = [pc EXCEPT ![t] = to]

AllIdle == \A t \in Threads : pc[t] = "idle"

\* The blocks that a walk from `first` along `next` meets (the list is walked
\* by clear() and by the destructor).
Walk == LET at[i \in 0 .. Cardinality(Blocks)] ==
              IF i = 0 THEN first
              ELSE IF at[i - 1] = Null THEN Null ELSE next[at[i - 1]]
        IN at
Listed == {Walk[i] : i \in DOMAIN Walk} \ {Null}

-----------------------------------------------------------------------------
(* allocate *)

AllocateCall(t, s) ==
  /\ first # Null
  /\ Cardinality(given) + Cardinality({u \in Threads : pc[u] # "idle"}) < MaxGiven
  /\ Goto(t, "idle", "load")
  /\ size' = [size EXCEPT ![t] = s]
  /\ desired' = [desired EXCEPT ![t] = Null]
  /\ allocated' = [allocated EXCEPT ![t] = FALSE]
  /\ UNCHANGED <<first, firstFree, next, used, live, expected, current, given>>

\* expected = firstFree.load()
LoadFirstFree(t) ==
  /\ Goto(t, "load", "used")
  /\ expected' = [expected EXCEPT ![t] = firstFree]
  /\ UNCHANGED <<first, firstFree, next, used, live, size, desired, allocated, current, given>>

\* tryAllocate works on *expected, and after the swing on *desired.
Target(t) == IF pc[t] \in {"used", "bump"} THEN expected[t] ELSE desired[t]

\* current = block.used.load()
LoadUsed(t) ==
  /\ Goto(t, "used", "bump") \/ Goto(t, "usedNew", "bumpNew")
  /\ current' = [current EXCEPT ![t] = used[Target(t)]]
  /\ UNCHANGED <<first, firstFree, next, used, live, size, expected, desired, allocated, given>>

Bumping(t) == pc[t] \in {"bump", "bumpNew"}
Fits(t) == current[t] + size[t] <= MAX_SIZE

Region(t) == [block |-> Target(t), from |-> current[t], size |-> size[t]]

\* Fault: `desired` is deleted whether this thread constructed it or not.
ReturnDeleting(t) ==
  /\ pc' = [pc EXCEPT ![t] = "idle"]
  /\ live' = IF pc[t] = "bump" THEN live \ {desired[t]} ELSE live
  /\ given' = given \cup {Region(t)}

\* The thread leaves allocate: with the memory, and without the block that it
\* constructed and found no use for.
Return(t) ==
  /\ pc' = [pc EXCEPT ![t] = "idle"]
  /\ live' = IF pc[t] = "bump" /\ allocated[t] THEN live \ {desired[t]} ELSE live
  /\ given' = given \cup {Region(t)}

\* Fault: the counter is stored, not compared.
BumpStore(t) ==
  /\ Bumping(t)
  /\ Fits(t)
  /\ used' = [used EXCEPT ![Target(t)] = current[t] + size[t]]
  /\ Return(t)
  /\ UNCHANGED <<first, firstFree, next, size, expected, desired, allocated, current>>

\* tryAllocate: compare_exchange succeeds.
Bump(t) ==
  /\ Bumping(t)
  /\ Fits(t)
  /\ used[Target(t)] = current[t]
  /\ used' = [used EXCEPT ![Target(t)] = @ + size[t]]
  /\ Return(t)
  /\ UNCHANGED <<first, firstFree, next, size, expected, desired, allocated, current>>

\* tryAllocate: compare_exchange fails and loads the counter that it saw.
BumpRetry(t) ==
  /\ Bumping(t)
  /\ Fits(t)
  /\ used[Target(t)] # current[t]
  /\ current' = [current EXCEPT ![t] = used[Target(t)]]
  /\ UNCHANGED <<first, firstFree, next, used, live, pc, size, expected, desired, allocated, given>>

\* tryAllocate returns nullptr: move firstFree on, or go around the loop.
BumpFull(t) ==
  /\ ~Fits(t)
  /\ Goto(t, "bump", "grow") \/ Goto(t, "bumpNew", "load")
  /\ UNCHANGED <<first, firstFree, next, used, live, size, expected, desired, allocated, current, given>>

NewBlock(t, b) ==
  /\ b \notin live
  /\ live' = live \cup {b}
  /\ next' = [next EXCEPT ![b] = Null]
  /\ used' = [used EXCEPT ![b] = 0]
  /\ desired' = [desired EXCEPT ![t] = b]
  /\ allocated' = [allocated EXCEPT ![t] = TRUE]

\* Choose the block to go on with: the one constructed for an earlier attempt,
\* the next one of the list, or a new one.
Grow(t) ==
  /\ Goto(t, "grow", "swing")
  /\ \/ /\ allocated[t]
        /\ UNCHANGED <<next, used, live, desired, allocated>>
     \/ /\ ~allocated[t]
        /\ next[expected[t]] # Null
        /\ desired' = [desired EXCEPT ![t] = next[expected[t]]]
        /\ UNCHANGED <<next, used, live, allocated>>
     \/ /\ ~allocated[t]
        /\ next[expected[t]] = Null
        /\ \E b \in Blocks : NewBlock(t, b)
  /\ UNCHANGED <<first, firstFree, size, expected, current, given>>

\* compare_exchange on firstFree succeeds.
Swing(t) ==
  /\ Goto(t, "swing", "link")
  /\ firstFree = expected[t]
  /\ firstFree' = desired[t]
  /\ UNCHANGED <<first, next, used, live, size, expected, desired, allocated, current, given>>

\* Fault: a failed compare_exchange is tried again with the same `desired`.
SwingLoop(t) ==
  /\ pc[t] = "swing"
  /\ firstFree # expected[t]
  /\ expected' = [expected EXCEPT ![t] = firstFree]
  /\ UNCHANGED <<first, firstFree, next, used, live, pc, size, desired, allocated, current, given>>

\* It fails: somebody else moved firstFree, or for no reason.
SwingFail(t) ==
  /\ Goto(t, "swing", "load")
  /\ UNCHANGED <<first, firstFree, next, used, live, size, expected, desired, allocated, current, given>>

\* prev->next = desired; the block belongs to the list from now on.
Link(t) ==
  /\ Goto(t, "link", "usedNew")
  /\ next' = [next EXCEPT ![expected[t]] = desired[t]]
  /\ allocated' = [allocated EXCEPT ![t] = FALSE]
  /\ UNCHANGED <<first, firstFree, used, live, size, expected, desired, current, given>>

-----------------------------------------------------------------------------
(* clear and the destructor, called while nobody allocates *)

\* Fault: firstFree stays at the last block that was used.
ClearCountersOnly ==
  /\ first # Null
  /\ AllIdle
  /\ used' = [b \in Blocks |-> IF b \in Listed THEN 0 ELSE used[b]]
  /\ given' = {}
  /\ UNCHANGED <<first, firstFree, next, live, threadVars>>

Clear ==
  /\ first # Null
  /\ AllIdle
  /\ used' = [b \in Blocks |-> IF b \in Listed THEN 0 ELSE used[b]]
  /\ firstFree' = first
  /\ given' = {}
  /\ UNCHANGED <<first, next, live, threadVars>>

Destroy ==
  /\ first # Null
  /\ AllIdle
  /\ live' = live \ Listed
  /\ first' = Null
  /\ given' = {}
  /\ UNCHANGED <<firstFree, next, used, threadVars>>

-----------------------------------------------------------------------------

AllocateStep(t) ==
  \/ LoadFirstFree(t)
  \/ LoadUsed(t)
  \/ Bump(t)
  \/ BumpRetry(t)
  \/ BumpFull(t)
  \/ Grow(t)
  \/ Swing(t)
  \/ SwingFail(t)
  \/ Link(t)

Destroyed == first = Null /\ UNCHANGED vars

Next ==
  \/ \E t \in Threads, s \in Sizes : AllocateCall(t, s)
  \/ \E t \in Threads : AllocateStep(t)
  \/ Clear
  \/ Destroy
  \/ Destroyed

Spec == Init /\ [][Next]_vars

\* Threads inside allocate keep running, and compare_exchange_weak does not
\* fail for no reason for ever.
Fairness == \A t \in Threads : WF_vars(AllocateStep(t)) /\ SF_vars(Swing(t))

FairSpec == Spec /\ Fairness

-----------------------------------------------------------------------------
(* Properties. *)

Pointers == Blocks \cup {Null}

TypeOK ==
  /\ first \in Pointers
  /\ firstFree \in Blocks
  /\ next \in [Blocks -> Pointers]
  /\ used \in [Blocks -> 0 .. MAX_SIZE]
  /\ live \subseteq Blocks
  /\ pc \in [Threads -> {"idle", "load", "used", "bump", "grow", "swing", "link", "usedNew", "bumpNew"}]
  /\ size \in [Threads -> 1 .. MAX_SIZE]
  /\ expected \in [Threads -> Pointers]
  /\ desired \in [Threads -> Pointers]
  /\ allocated \in [Threads -> BOOLEAN]
  /\ current \in [Threads -> 0 .. MAX_SIZE]
  /\ given \subseteq [block : Blocks, from : 0 .. MAX_SIZE, size : 1 .. MAX_SIZE]

\* Two regions handed out between two clears share no byte, and none reaches
\* over the end of its block.
Bytes(r) == r.from .. r.from + r.size - 1
NoOverlap ==
  /\ \A r \in given : r.from + r.size <= MAX_SIZE
  /\ \A r, q \in given : r.block = q.block /\ r # q => Bytes(r) \cap Bytes(q) = {}

\* No thread looks into a block that was deleted, and no region lies in one.
Using(t) ==
  (IF pc[t] \in {"used", "bump", "grow", "swing", "link"} THEN {expected[t]} ELSE {}) \cup
  (IF pc[t] \in {"swing", "link", "usedNew", "bumpNew"} THEN {desired[t]} ELSE {})
NoUseAfterFree ==
  first # Null =>
    /\ firstFree \in live
    /\ \A t \in Threads : Using(t) \subseteq live
    /\ \A r \in given : r.block \in live

\* Between calls the list is what clear(), the destructor and the next call of
\* allocate take it for: a walk along it ends (1), it holds every block that was
\* constructed and not deleted (2), and memory is in use in the blocks in front
\* of firstFree and in none of those behind it (3).
QuietListSound ==
  AllIdle =>
    IF first = Null THEN live = {} ELSE
    /\ Walk[Cardinality(Blocks)] = Null                                    \* (1)
    /\ live = Listed                                                       \* (2)
    /\ \A i, j \in DOMAIN Walk : firstFree = Walk[i] /\ Walk[j] # Null =>   \* (3)
         (j < i => used[Walk[j]] > 0) /\ (j > i => used[Walk[j]] = 0)

\* Every allocate returns.
AllocateReturns == \A t \in Threads : pc[t] # "idle" ~> pc[t] = "idle"

\* The strengthening of NoOverlap and NoUseAfterFree that is inductive.  A
\* thread owns the block it constructed until it has swung firstFree to it.
Owns(t) == allocated[t] /\ pc[t] \in {"load", "used", "bump", "grow", "swing"}

OwnBlocksPrivate ==
  \A t \in Threads : Owns(t) =>
    /\ desired[t] \in live
    /\ desired[t] \notin {first, firstFree}
    /\ \A b \in live : next[b] # desired[t]
    /\ \A r \in given : r.block # desired[t]
    /\ pc[t] # "load" => expected[t] # desired[t]
    /\ \A u \in Threads \ {t} :
         desired[t] \notin Using(u) /\ (Owns(u) => desired[u] # desired[t])

IInv ==
  /\ TypeOK
  /\ NoOverlap
  /\ \A r \in given : r.from + r.size <= used[r.block]
  /\ NoUseAfterFree
  /\ first = Null => AllIdle /\ given = {}
  /\ first # Null => first \in live /\ \A b \in live : next[b] \in live \cup {Null}
  /\ \A t \in Threads : pc[t] \in {"usedNew", "bumpNew"} => ~allocated[t]
  /\ OwnBlocksPrivate

=============================================================================
