------------------------------ MODULE Allocators ------------------------------
(***************************************************************************)
(* The two allocators of src/ecs/src/nox/memory that keep blocks, side by  *)
(* side: the program takes either of them, and a behaviour is one of the   *)
(* LockFreeAllocator or one of objects of the class LinearAllocator.       *)
(***************************************************************************)
EXTENDS LockFreeAllocator

CONSTANTS
  Objects,          \* objects of the class LinearAllocator
  LinearMaxSize,    \* its MAX_SIZE
  LinearSizes,      \* sizes asked of it
  InitialCounts     \* arguments of its constructor

ASSUME LinearAssumption ==
  /\ LinearMaxSize \in Nat \ {0}
  /\ LinearSizes \subseteq 1 .. LinearMaxSize
  /\ InitialCounts \subseteq Nat \ {0}

VARIABLES
  linear,           \* is it the LinearAllocator that runs?
  oConstructed, oFirst, oFirstFree, oNext, oUsed, oLive, oGiven

Linear == INSTANCE LinearAllocator WITH
  Allocators <- Objects, MAX_SIZE <- LinearMaxSize, Sizes <- LinearSizes,
  constructed <- oConstructed, first <- oFirst, firstFree <- oFirstFree,
  next <- oNext, used <- oUsed, live <- oLive, given <- oGiven

linearVars == <<oConstructed, oFirst, oFirstFree, oNext, oUsed, oLive, oGiven>>
EitherInit == Init /\ Linear!Init /\ linear \in BOOLEAN
EitherNext ==
  \/ linear /\ Linear!Next /\ UNCHANGED <<vars, linear>>
  \/ ~linear /\ Next /\ UNCHANGED <<linearVars, linear>>

EitherSpec == EitherInit /\ [][EitherNext]_<<vars, linearVars, linear>> /\ Fairness

\* The regions and the blocks of all objects of the class LinearAllocator are
\* in order (LinearAllocator.tpp), through any sequence of allocations, clears,
\* moves and destructors.
LinearStorageSound == Linear!LinearStorageSound
=============================================================================
