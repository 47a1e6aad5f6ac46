--------------------------- MODULE LinearAllocator ---------------------------
(***************************************************************************)
(* nox::memory::LinearAllocator<MAX_SIZE>: a list of blocks that are       *)
(* filled one after the other, for one thread or behind the mutex of a     *)
(* LockedAllocator: one action is one operation.  Allocators are movable,  *)
(* so there are several, and the memory that one gave out follows its      *)
(* blocks into another.                                                    *)
(***************************************************************************)
EXTENDS Integers, FiniteSets

CONSTANTS
  Allocators,       \* objects of the class
  Blocks,           \* addresses the heap can give to a Block
  Null,             \* nullptr, not a block
  MAX_SIZE,         \* bytes in a block, at least 1
  Sizes,            \* sizes asked for, in 1 .. MAX_SIZE
  InitialCounts     \* arguments of the constructor, at least 1

VARIABLES
  constructed,      \* the objects between constructor and destructor
  first,            \* first[o]; null in one that was moved from
  firstFree,        \* firstFree[o]
  next, used,       \* next[b], used[b]: null and 0 in a block that is not live
  live,             \* the blocks that were constructed and not deleted
  given             \* history: the regions handed out and not taken back by clear

vars == <<constructed, first, firstFree, next, used, live, given>>

Init ==
  /\ constructed = {}
  /\ first = [o \in Allocators |-> Null] /\ firstFree = [o \in Allocators |-> Null]
  /\ next = [b \in Blocks |-> Null] /\ used = [b \in Blocks |-> 0]
  /\ live = {}
  /\ given = {}

\* The blocks that a walk along the list of o meets.
Chain(o) ==
  LET at[i \in 0 .. Cardinality(Blocks)] ==
        IF i = 0 THEN first[o] ELSE IF at[i - 1] = Null THEN Null ELSE next[at[i - 1]]
  IN {at[i] : i \in DOMAIN at} \ {Null}

GivenBy(o) == {r \in given : r.owner = o}

Construct(o, n) ==
  /\ o \notin constructed
  /\ Cardinality(Blocks \ live) >= n
  /\ LET new == CHOOSE s \in [1 .. n -> Blocks \ live] : \A i, j \in 1 .. n : s[i] = s[j] => i = j
         Place(b) == CHOOSE i \in 1 .. n : new[i] = b
         range == {new[i] : i \in 1 .. n}
     IN /\ first' = [first EXCEPT ![o] = new[1]]
        /\ firstFree' = [firstFree EXCEPT ![o] = new[1]]
        /\ next' = [b \in Blocks |-> IF b \in range /\ Place(b) < n THEN new[Place(b) + 1] ELSE next[b]]
        /\ live' = live \cup range
  /\ constructed' = constructed \cup {o}
  /\ UNCHANGED <<used, given>>

\* Fault: the size asked for is left out.
FullAlready(b, size) == used[b] >= MAX_SIZE

\* A request for the last bytes of a block goes to the next one, too.
Full(b, size) == used[b] + size >= MAX_SIZE

\* Fault: a new block, although the list goes on.
FollowingNew(b) == CHOOSE c \in Blocks : c \notin live

\* The block behind b: the next one of the list, or a new one.
Following(b) == IF next[b] # Null THEN next[b] ELSE CHOOSE c \in Blocks : c \notin live

Allocate(o, size) ==
  LET b == firstFree[o]
      target == IF Full(b, size) THEN Following(b) ELSE b
  IN
  /\ first[o] # Null
  /\ next[b] = Null => live # Blocks
  /\ next' = IF target = b THEN next ELSE [next EXCEPT ![b] = target]
  /\ live' = live \cup {target}
  /\ firstFree' = [firstFree EXCEPT ![o] = target]
  /\ used' = [used EXCEPT ![target] = @ + size]
  /\ given' = given \cup {[owner |-> o, block |-> target, from |-> used[target], size |-> size]}
  /\ UNCHANGED <<constructed, first>>

Clear(o) ==
  /\ first[o] # Null
  /\ used' = [b \in Blocks |-> IF b \in Chain(o) THEN 0 ELSE used[b]]
  /\ firstFree' = [firstFree EXCEPT ![o] = first[o]]
  /\ given' = given \ GivenBy(o)
  /\ UNCHANGED <<constructed, first, next, live>>

\* What LockedAllocator runs under its mutex.
LockedCall(o) == Clear(o) \/ \E s \in Sizes : Allocate(o, s)

Delete(blocks) ==
  /\ live' = live \ blocks
  /\ next' = [b \in Blocks |-> IF b \in blocks THEN Null ELSE next[b]]
  /\ used' = [b \in Blocks |-> IF b \in blocks THEN 0 ELSE used[b]]

\* The blocks of source, and what it gave out, go over to o.
MoveMembers(o, source) ==
  /\ first' = [first EXCEPT ![o] = first[source], ![source] = Null]
  /\ firstFree' = [firstFree EXCEPT ![o] = firstFree[source], ![source] = Null]
  /\ given' = (given \ (GivenBy(o) \cup GivenBy(source))) \cup
              {[r EXCEPT !.owner = o] : r \in GivenBy(source)}

MoveConstruct(o, source) ==
  /\ o \notin constructed /\ first[source] # Null
  /\ constructed' = constructed \cup {o}
  /\ MoveMembers(o, source)
  /\ UNCHANGED <<next, used, live>>

\* Fault: the list of the target is overwritten.
MoveAssignLeaking(o, source) ==
  /\ o \in constructed /\ o # source /\ first[source] # Null
  /\ MoveMembers(o, source)
  /\ UNCHANGED <<constructed, next, used, live>>

\* operator= deletes the blocks of its target, which may have been moved from.
MoveAssign(o, source) ==
  /\ o \in constructed /\ o # source /\ first[source] # Null
  /\ Delete(Chain(o))
  /\ MoveMembers(o, source)
  /\ UNCHANGED constructed

Destroy(o) ==
  /\ o \in constructed
  /\ constructed' = constructed \ {o}
  /\ Delete(Chain(o))
  /\ first' = [first EXCEPT ![o] = Null] /\ firstFree' = [firstFree EXCEPT ![o] = Null]
  /\ given' = given \ GivenBy(o)

Next ==
  \E o \in Allocators :
    \/ \E n \in InitialCounts : Construct(o, n)
    \/ LockedCall(o)
    \/ \E source \in Allocators : MoveConstruct(o, source) \/ MoveAssign(o, source)
    \/ Destroy(o)

Spec == Init /\ [][Next]_vars

-----------------------------------------------------------------------------
(* Properties. *)

\* What an allocator gave out lies in one of its blocks, also when these came
\* from another one, and shares no byte with anything else that was given out.
RegionsSound ==
  /\ \A r \in given : r.block \in Chain(r.owner) /\ r.from + r.size <= MAX_SIZE
  /\ \A r, q \in given : r # q /\ r.block = q.block =>
       (r.from .. r.from + r.size - 1) \cap (q.from .. q.from + q.size - 1) = {}

\* Every block that was constructed and not deleted is in the list of one
\* object, and so deleted once: no path through moves, assignments and
\* destructors leaks a block or deletes one twice.
BlocksOwned ==
  /\ live = UNION {Chain(o) : o \in constructed}
  /\ \A o, q \in constructed : o # q => Chain(o) \cap Chain(q) = {}

LinearStorageSound == RegionsSound /\ BlocksOwned

=============================================================================
