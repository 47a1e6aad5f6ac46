# A verification development for NOX ECS

The repository implements an entity component system (`src/ecs`) for the NOX engine:
entities are numbers, their components live in one collection per component type, and an
`EntityManager` runs all components once per frame on a pool of threads. This directory
holds TLA+ models of the parts that carry its logic, TLC configurations that check them
on small instances, and theorems that the TLA+ proof system checks for every instance.

Contents: [1 the system](#1-the-system), [2 the modules](#2-the-modules), [3 the
runs](#3-the-runs), [4 the theorems](#4-the-theorems), [5 where code and documentation
disagree](#5-where-code-and-documentation-disagree), [6 what is not
modelled](#6-what-is-not-modelled), [7 the plan](#7-the-plan).

Paths are relative to `src/ecs/src/nox` unless they start with `src/`.

## 1 The system

One thread, the engine's, calls `EntityManager::step()` once per frame. A step
distributes logic events, updates, distributes entity events, and then runs the
lifecycle steps in the order deactivate, hibernate, remove, create, awake, activate. The
first three phases run functions of components, on the pool if layered execution was
turned on by a macro for each phase (`EntityManager.h:42`; `src/ecs/CMakeLists.txt:65`
defines all three), one after the other on the calling thread if not. Those functions
send events, create entities and ask for changes; all of that goes into lock-free stacks
which a later phase, or the next frame, empties.

| component | state | operations | interacts with | what is hard | what makes it correct |
|---|---|---|---|---|---|
| `ComponentCollection` (`ecs/ComponentCollection.*`) | a buffer of components divided into an active, an inactive and a hibernating area, two boundaries, a map from ids to slots, a generation | create, adopt, remove, awake, activate, deactivate, hibernate, getComponent, update, receive…Event, its own moves and destructor | called by the manager; calls hooks, constructors, destructors and moves of components; read by handles | one swap moves two components, both map entries and the generation must follow; reallocation moves everything; boundary lookups are not tested; objects live in raw memory | map and buffer agree; a component lies in the area of its stage; batched calls reach the right ones; objects keep what they hold and are destroyed once |
| `SmartHandle` (`ecs/SmartHandle.*`) | id, generation, cached pointer | get, `*`, `->` | looks up in the collection when its generation is old | a cached pointer that is used without a lookup | never stale |
| `LockFreeStack` (`thread/LockFreeStack.*`) | an atomic head, linked nodes | push, pop, clear, destructor | all queues of the manager, the queue of the pool, nodes from `LockFreeAllocator` | every interleaving of compare-exchange loops; freed nodes | it is a stack; no destroyed node is touched; operations return |
| `Pool` (`thread/Pool.*`) | a queue, a counter, a flag, a mutex, a condition variable, workers | addTask, wait, clearTasks, destructor | used by the manager in every frame as a barrier | lost wake-ups, the counter that runs ahead or behind, the shutdown | wait() is a barrier; nothing is lost, everything returns |
| `LockFreeAllocator` (`memory/LockFreeAllocator.*`) | a list of blocks, an atomic pointer into it, a fill level per block | allocate, clear, destructor | arguments of events, nodes of the stacks | two threads race for the end of a block and for the next one | regions are disjoint and inside live blocks; nothing leaks |
| execution layers (`ecs/EntityManager.cpp`, `local::`) | pending types, layers | configureComponents | reads the descriptions of the types; its result drives the frame | a greedy search that trims and revisits | types that read each other share no layer; each type is in one |
| `EntityManager`, lifecycle (`ecs/EntityManager.*`) | the id counter, one stack of requests per kind, the collections | createEntity, assignComponent, remove/awake/activate/deactivate/hibernate for components and entities, step, destructor | calls the collections, which call hooks, which ask for more | requests of different kinds overtake each other; requests made by hooks while a step drains its queue | every call finds its component in the stage it starts from; requests are served, in time |
| `EntityManager`, events and update | stacks of events, the event in hand, the arguments' allocator | onEvent, createEntityEvent, sendEntityEvent, distribute…Events, updateStep | hands tasks to the pool, layer by layer | tasks share a variable of the loop; memory of arguments is reclaimed while handlers make new events | no reader beside the one it reads; the event stays while tasks use it; all collections hear all events |
| `Factory` (`ecs/Factory.*`), `Children`, `Parent` | definitions | createEntityDefinition, createEntity | calls back into the manager, recursively | recursion and merging, several threads at a time | entities are what their definitions say, families agree |
| `Event`, `createEventArgument` (`ecs/Event.*`) | a list of arguments that lies in the manager's allocator | construction, addArgument, getArgument, moves, destruction | made by components, moved through a stack, read by all collections | the list changes its owner in every move; the memory is reclaimed all at once | an argument has one owner and is destroyed once, before its memory is reused |
| `Entity` (`ecs/Entity.*`) | an id | forwards to the manager with the id | | none of its own | as the manager |
| `MetaInformation`, `createMetaInformation`, `OperationTypes` | pointers to the functions a class overrides, what they access | selection of hooks, defaults, getters per phase | input of the layers and of every call on a collection | defaults depend on what is overridden; three copies of everything, one per phase | layers are made from what the author declared |
| `Transform`, `Sprite` (`ecs/component`) | position, rotation, scale; offset, rendering state, nodes of the scene graph | setters, receiveEntityEvent, activate, deactivate, setRenderingState | a transform sends an event to its entity; a sprite applies it and tells the engine to show or hide its node | events overtake each other; activation and rendering state both add and remove the node | the sprite follows its transform; the scene holds the nodes to be seen, once |
| `LinearAllocator`, `LockedAllocator` (`memory`) | a list of blocks, a fill level per block | constructor, allocate, clear, moves, destructor | an alternative to the lock-free one; the second puts a mutex around it | boundaries of blocks, clears that keep blocks, moves | regions are disjoint, no block is lost or deleted twice |
| `HeapAllocator`, `LockedQueue`, `cmd`, tests, examples, the engine | | | | | |

`PROJECT.json` lists the same parts under `components`, and under `hazards` what can go
wrong in each at the line where it would, with the properties that catch it.

How the parts depend on each other shapes the models: each one is verified against what
the part below it promises, and the promise is a module of its own when the part below
is concurrent.

```
 Factory ──requests──▶ EntityManager ──calls──▶ Lifecycle ◀──implements── ComponentCollection + handles
                            │ (same step())                                     ▲ EXTENDS
                            │                                             ComponentRegistry (objects, moves)
                       FrameExecution ──INSTANCE──▶ TaskPool ◀──implements── ThreadPool
                        │       │ layers                                │ assumes atomic queue, needs PopsExclude
                   Rendering   ExecutionLayers ◀── ComponentTypes       ▼
                        │                           AtomicStack ◀──implements── LockFreeStack (if pops exclude each other)
                  EventArguments                                        │ nodes are fresh
                                              LockFreeAllocator   (LinearAllocator: the alternative)
```

## 2 The modules

One action is one step that other threads can observe: an access to shared memory in the
lock-free parts, an iteration or a call in the parts that one thread runs. Operators
that begin with a "Fault:" comment are the faults that show each property to be able to
fail; no specification uses them.

**Lifecycle** is what a collection promises: a component is created hibernating and each
operation moves the one it names along one edge of absent – hibernating – inactive –
active.

**ComponentCollection** is the code: `slots` is the buffer, `map`, `inactive`,
`hibernating`, `gen` are the members of these names, `buffer` numbers the allocations so
that a pointer into a freed buffer differs from one into the new. The four transitions
share `Transition`, the code's common shape: look up the component in the boundary slot,
swap, move the boundary. Its guard that the boundary slot lies inside the buffer cuts
off the dereference of an end iterator; `BoundaryLookupsHit` shows that for the client
below the guard never cuts anything. `stage` records what hooks were called on a
component, that is, what the client believes. `RemoveAtAnyStage` chooses the client: the
manager removes hibernating components only. Handles keep id, generation and pointer;
`Refreshed` is `SmartHandle::get()`.

**ComponentRegistry** extends it by the objects themselves. `cells` are the slots of all
buffers that are not freed, the swap slot included, and each action of
`ComponentCollection` is joined with the constructors, moves and destructors it runs:
`Swapped` is the three moves through the swap slot, `Reallocated` the moves into a new
buffer, `RemoveObject` the move of the last object onto the removed one. Moves are those
of `Children`, which constructs by stealing and assigns by swapping. `RegisterComponent`
moves the collection with the manager's vector, as long as nobody holds a handle
(`referenced`; `ComponentCollection.h:77` demands it), `Destroy` is the end of that
vector. `lost` collects objects that went away without a destructor.

**AtomicStack** and **LockFreeStack**: the promise and the compare-exchange loops.
`PopsSerialized` says whether callers of pop exclude each other: the header hopes for
several consumers, the pool takes a mutex, the manager pops from one thread. Nodes are
handed out once between two clears, which is what `LockFreeAllocator` does (its
`deallocate` is empty): the ABA problem cannot occur for that reason and no other.

**TaskPool** and **ThreadPool**: `Pool` promises a barrier. The model has the worker
loop with mutex, condition variable, timeout and spurious wake-ups, and one owner that
adds, waits, clears and destroys. Counters wrap at `CountMod`.

**LockFreeAllocator**: `first`, `firstFree`, `next`, `used` are the members; a thread's
locals are variables because they survive between its accesses. The two spurious
failures of `compare_exchange_weak` differ: one repeats a step, the other sends the
thread around the loop (`SwingFail`).

**LinearAllocator** is sequential, so an action is an operation; its objects move, hence
there are several. `given` are the regions handed out, which follow their blocks into
another object. **Allocators** puts the two allocators side by side: a behaviour is one
of either, as the program takes one or the other.

**ComponentTypes** turns a class, given by the functions it overrides and by what its
author declares, into what the layers read: `CreateMetaInformation` has the defaults,
`GetDataAccess` and the others are the getters of `configureComponents`.

**ExecutionLayers**: `initializeData`, `createExecutionLayers` and
`parseExecutionOrder`, one action per iteration, over every registration of a set. The
code clears the connections of INDEPENDENT types in a copy (line 104 of
`EntityManager.cpp`, a by-value loop variable), without effect; the model has that
behaviour, so INDEPENDENT types are kept out of the layers of what they name as
dependencies.

**EntityManager**: `requests[k]` is the stack of requests of kind k as a set, `at` the
lifecycle step that runs, `hook` whether a component's function runs and may ask for
more. `goal` and `late` are histories for the properties. The client is any that follows
the order that `EntityManager.h` documents: it asks for a change when, after everything
already asked for, the component will be in the stage the change starts from.

**FrameExecution**: the three concurrent phases with layers. It composes: the pool is
`INSTANCE TaskPool`, the phases are those of `ComponentTypes`, and the layers satisfy
`LayersAssumption`, of which `ResultFitsFrames` proves that the layers which
`ExecutionLayers` computes do (section 4). `Jobs` are the events and the update of each
frame; a task is a job for a collection. `event` is the loop variable that the tasks
capture by reference.

**EventArguments** and **Rendering**: what an event owns, and the one kind of event that
the components send, followed from a setter of `Transform` to the scene. `local[t]` is
the event that a function is about to send, `entityEvents` the stack (what `AtomicStack`
promises), `event` the loop variable; each move leaves an object behind whose destructor
runs in the same action. `life` says of each cell of the allocator whether it holds an
argument, has held one, or is raw. A transform is the number of its changes, so that
"outdated" can be said; `node` is what the sprite's node shows of it, `look` and `shown`
are the sprite's own members and what its nodes were told of them. `broadcaster` and
`scene` are the engine's, modelled from how `Sprite` uses them (external in the map):
`scene[e]` is the number of additions less that of removals. `offstage` is a history: it
counts the calls of `setRenderingState` that changed the state of a sprite which was not
active, calls that the code answers like any other.

**Factory** (with `Children` and `Parent`): `calls[t]` is the call stack of thread t in
`createEntity`, with one record per recursion; `origin` remembers from which name an id
was made. Definitions, `extend` and `Children` are the JSON members of these names, and
the merge is `extendJsonValue` for objects (components and members) and arrays
(children). The reference against which it is checked (`DefinedComponents`,
`DefinedChildren`) does not merge: it looks up, for each member, the nearest definition
on the chain. `NoFamilyByHand` says of the definitions that none writes a family
component into its JSON, as "Parent" or by the number of one of the two types; the code
does not look, and TLC evaluates it on the instance.

The modules `MC…` give instances to TLC, the modules `…Proofs` hold the theorems.

## 3 The runs

Distinct states are those of the complete search; every run ends in three minutes.
`PROJECT.json` names, for each property, a fault of the code under which the same run
finds it violated.

| run | instance | shows | states |
|---|---|---|---|
| `collection` | 3 components, 1 handle, at most 6 generations, 2 moves of the collection, disciplined client | `IInv`: map, buffer and handles describe each other and every component lies in its area. `BoundaryLookupsHit`, `HandlesNeverStale`, `BatchedCallsReach` (update reaches the active ones, events all), `ContentsKept`, `ObjectsAccounted` (one destructor per object, one buffer), `ImplementsLifecycle` | 181,191 |
| `stack` | 3 nodes, 2 producers, 2 consumers that exclude each other, clear | `NoDanglingAccess`, `ImplementsAtomicStack`, `OperationsReturn` | 52,388 |
| `stack_mpmc` | the same without exclusion | violation of `NeverFollowsNull` (section 5) | |
| `stack_clear` | clear of a non-empty stack | violation of `ClearReturns` (section 5) | |
| `pool` | every non-empty subset of 2 workers, 3 tasks, counter of 4 values | `PopsExclude`, `CallsSettle` (wait and destructor leave no task behind), `ImplementsTaskPool`, `WaitReturns`, `LostWakeUpsHarmless` (tasks leave the queue and the destructor returns although notifications get lost) | 33,529 |
| `allocator` | `LockFreeAllocator`: 2 threads, 4 blocks of 2 bytes, sizes 1 and 2, 3 allocations between clears; `LinearAllocator`: 2 objects, 4 blocks of 3 bytes, sizes 1 to 3, one or two initial blocks | `NoOverlap`, `NoUseAfterFree`, `QuietListSound` (list without cycle, no leak, free blocks behind), `AllocateReturns`; `LinearStorageSound` | 126,188 |
| `layers` | every registration of 3 classes in a family of accesses, dependencies and overridden functions, of 5 read-only classes with every acyclic dependency; 1 to 3 threads | `LayersIndependent`, `ExecutedOnce`, `Terminates` | 230,886 |
| `factory` | 2 threads, 4 names, up to 3 of 4 definitions, 2 entities besides their descendants | `RequestsSound` (families agree), `BuiltAsDefined`, `CreationReturns` | 162,382 |
| `manager` | 1 entity, 2 types, at most 5 queued requests | `CallsLegal`, `GoalReached`, `ServedInFrame`, `DestroyedEmpty`, `FramesEnd` | 68,983 |
| `frame` | 3 collections, 1 logic and 2 entity events, 2 frames, 2 layers | `EventStable`, `ExclusiveAccess`, `ArgumentsAlive`, `HeardByAll`, `StepReturns` | 4,178 |
| `rendering` | 2 entities, one that may have a sprite, 2 threads, transforms that change at most once between two distributions, 2 versions, 1 call of `setRenderingState` that changes a sprite which is not active | `ArgumentsOwned`, `SpriteFollowsTransform`, `ChangeIsShown`; `SceneConsistent`: nodes are in the scene when they should be, once, off by one at most for such a call; and they look as their sprites do | 605,434 |
| `rendering_lifo` | two changes between two distributions | violation of `SpriteFollowsTransform` (section 5) | |

**Bounds.** The interesting cases need little: a buffer holds two components at first,
so three force a reallocation, and two of a stage make a swap move a stranger. Two
pushes and two pops are what a compare-exchange can be wrong about; with three nodes a
node can be freed, and after a clear handed out again, while another is linked. A pool
with one worker is real (`Pool.h:49` gives `max(hardware_concurrency, 2) - 1` threads)
and is the worst case for lost wake-ups; with two, pops compete; the run has both. A
counter of 4 values wraps with 3 tasks. Blocks of two bytes are filled by one request or
by two, and four of them are enough for two threads to append, lose and delete. Three
bytes let the linear one be asked for less than is left, for exactly that, and for more.
Registrations of three types contain every pair of accesses beside a third type; five
read-only types make the layers long enough to be trimmed for three threads. One entity
with two types has requests of all kinds in the queues at once, and requests on entities
queue for both components. Two frames let an event made in one be distributed in the
next. A second entity without a sprite lets events be distributed to nobody while those
of the first are on their way, and a second thread sends while the first holds an event;
two versions are a change before and a change after the sprite was created. What is in
the scene depends on one sprite alone; the one call that may put its node off is of
either kind, up or down, and comes before, between or after its activations. Moves of a
collection come in two kinds, into the vector and with it, and a third would repeat the
second. Three definitions make a chain of extensions and children of children.

`MaxGen`, `MaxMoves`, `MaxGiven`, `MaxPending`, `MaxIds`, `MaxFrames`, `MaxDefinitions`,
`MaxEntities`, `MaxVersion`, `MaxChanges`, `MaxOffstage` bound what the client does,
never what the code does; `MaxQueued` keeps the client from more than two calls on
sprites between two turns of the engine's queue. `collection` ends with the collection's
destructor, and `manager`, `frame` and `factory` stop when the client has used up its
bounds (`CHECK_DEADLOCK FALSE`); in the other runs a state in which nobody can move is
an error.

**Fairness.** A thread inside an operation keeps running (`WF` of its steps); calls need
not come. In the pool this includes the clock: the `wait_for` of a worker ends after its
timeout (`Pool.tpp:25`), while spurious wake-ups need not happen. `AllocateReturns` also
needs that `compare_exchange_weak` on `firstFree` does not fail for no reason for ever
(`SF` of `Swing`): weaker fairness does not exclude it, and the standard promises no
more. `FramesEnd` assumes that the engine calls `step()`; `StepReturns` assumes that the
pool runs its tasks, which `LostWakeUpsHarmless` shows, and that a component's function
returns and sends the events that it created. Events sent without end would keep a frame
from ending; the finite `EntityEvents` exclude that. `ChangeIsShown` assumes the same
two things of the frame of `Rendering`: `step()` is called again and again (`WF` of
`Frame`), and a function that created an event sends it (`WF` of `SendEntityEvent`).

## 4 The theorems

All 13,118 obligations of the eight proof modules are checked by `tlapm`. The constants
are arbitrary: any number of components, threads, nodes, blocks, tasks, classes, events
and layers. Assumptions are the named `ASSUME`s of the modules, which TLC evaluates.

**ComponentCollectionProofs.** `StorageSound`: for every client, whatever it removes,
`StorageInv` holds: the map and the constructed slots are each other's inverse and a
handle of the current generation points at its component. Hence `HandlesSound`.
`MapMatchesSlots` alone is not inductive: a swap is only sound because the swapped slots
are both constructed, which the map must say. With the client that removes hibernating
components only, `AreasSound` strengthens it to `IInv`: boundaries are ordered and
`stage = LayoutStage`. From it follow `LookupsSound` (no end iterator is dereferenced),
`UpdateSound` and, step by step, `LifecycleImplemented`: each operation of the code maps
to the operation of `Lifecycle` of that name under `stage <- LayoutStage`, handles'
steps map to stuttering.

Of the objects in the storage (`ComponentRegistry`), `RegistrySound` says that the cells
are a function of the slots, `CellsMatch`: the cell of a slot below `memory` holds the
object as it was created for the id in the slot, and all others, the swap slot included,
are raw. It rests on `StorageInv`, which says where a swap or a removal finds its
components. `ComponentsKeepContents` and `NoObjectLost` are read off. Since every step
is one of `ComponentCollection` (`RegistryStepsCollection`), what is proved of that
module holds here, as `HandlesSurvive` says of handles.

**LockFreeStackProofs.** `StackSound`: the chain from `head` is the history `stack`,
read from its end; a node has one owner: a thread that constructs it, the list, or a
thread that takes it; and the node that a popping thread has read is still in the stack,
with the `next` that it read. The last part holds because pops exclude each other, and
it is what makes the compare-exchange of `PopSwing` right. `NeverDangling` follows, and
`AtomicStackImplemented` maps `PushPublish`, `PopSwing` and `PopEmpty` to the operations
of `AtomicStack`, the exchange of the head that begins a clear to `Clear`, and all other
steps to stuttering or to the call of a pop.

**ThreadPoolProofs.** `PopsSerialized`: the mutex is held by whoever is inside the
predicate, so pops exclude each other, which is the assumption of the stack's theorems.
`PoolSound`: without clearTasks, `taskCount` is the number of tasks that were added and
not yet counted down, except between the push and the count of `addTask`, when it is one
behind and may have wrapped around; with fewer tasks than `CountMod`, a count of 0 in
`wait` means that all have run. `PoolSettles` and `TaskPoolImplemented` follow.

**AllocatorProofs.** `AllocatorSound`: regions end at or below the fill level of their
block, a block that a thread has constructed and not linked is known to it alone, and
every pointer leads to a live block. `AllocationsDisjoint` and `DeletedBlocksUnused`
follow.

`ListSound` is about the list as a whole when nobody allocates: it has no cycle, holds
every live block, and the blocks behind `firstFree` are empty. While threads allocate
none of this need hold, since a thread that appends writes `next` of the last block and
moves `firstFree` to it in separate steps, and others may do the same. `ListInv`
therefore names the list and the position of `firstFree` in it as witnesses and says how
far each thread has come: the block that it owns, linked behind the list or not, and the
block that it has reached. `LinearSound` has the same for objects of `LinearAllocator`
(`LinearInv`): the lists of two objects are disjoint, every live block is in one, blocks
that are not live are blank, and regions lie behind each other in the used part of a
block of their owner, through moves too. What a walk along a list reaches would be an
induction over data; both proofs take the least element of a set of numbers instead
(`LeastNatural`, `NatSetInduction`), which needs no theorem with an operator as its
parameter.

**ExecutionProofs.** `LayersSound`: every type of the phase is pending or in exactly one
layer, only the layer being filled has pending types, layers hold no two connected
types, and connections are mutual once they are all there. The last part needs the
mirrored insertion of `Connect` for both orders of registration, and it needs that the
types named as dependencies are the ones the author declared (`InputsFaithful`, about
`ComponentTypes`). `LayersAreIndependent` and `EachExecutedOnce` follow for every
registration and whatever types the heuristic prefers. That the search ends is left to
TLC.

`FrameSound`: a task that is not done belongs to the event in hand and to the current
layer, all layers before it are done, `wait()` is called when the tasks of the layer
were added, and an event that was created and not sent is in the hands of a function
that runs. `EventCaptured` and `AccessExclusive` follow from the first, with the
assumption that no layer holds a collection and one it reads; `EventsHeard` and
`ArgumentsOutlive` are parts of the invariant. `ResultFitsFrames` joins the two: when
the search has ended, its layers satisfy that assumption, for every registration.

**EntityManagerProofs.** `ManagerSound`: for each component there is a path p[0..7]
through the lifecycle from its stage to the stage its client wants, indexed by turns:
p[i] is the stage when i lifecycle steps have passed, and the request of the i-th of
them, if there is one, is legal in p[i] and leads to p[i + 1]. A request shifts the end
of the path, a served request its beginning, and the end of a lifecycle step moves all
of it by one. `CallsFindStage` and `RequestsEnd` are read off the path; `RequestsServed`
and `DestructorSound` are parts of the invariant, the latter with what the destructor's
three steps may still find queued (`LastRequests`).

**RenderingProofs.** `ArgumentsSound`: the lists of arguments (of the events that
functions are about to send, of those on the stack and of the one in hand) are disjoint,
and a cell is alive exactly if it is in one of them; the frame reclaims the memory in a
phase in which there are none (`ArgumentsInv`). `SpritesFollow`: an event on its way
carries the transform of its receiver as it is, so a sprite has its transform or an
event that brings it is on its way (`FollowInv`). This holds for `MaxChanges <= 1`, one
change of a transform between two distributions, and the theorem says so: with two, the
older event is delivered last, as `rendering_lifo` shows. `SceneSound` needs no such
bound: the edits that the engine has queued lead, one by one, from the scene as it is to
one with a node for each sprite that is active and enabled and none for the others,
where each count may be off by `offstage`, the number of calls of `setRenderingState`
that changed a sprite which was not active (`SceneInv`). Without such calls the scene is
exact; with one it need not be (`RenderedOnce`, section 5).

**FactoryProofs.** Both theorems are about every catalogue with `NoFamilyByHand`,
without which they are false: a definition with a component named "Parent" makes a
second one for a child. `FamiliesSound`: calls of all threads are about different ids
and children, each knows what it has requested, and a finished family agrees from both
ends (`FamilyInv`). `EntitiesBuilt`: the stack of a call is the beginning of the chain
of extensions, what has left it is merged so that for each member the definition nearest
to the beginning wins, and the kids made so far are the first ones of the children
(`BuiltInv`); with it, an entity whose call has returned has exactly the components that
its definition says. The lemmas `ComponentsMerge` and `ChildrenMerge` say that merging
one definition after another is the look-up of the reference. The chain ends because
each name on it has a smaller rank than the one before (`CatalogueAssumption`), which
again is a least element of a set in place of an induction.

The type invariants (`TypesCorrect`, `FrameTypesCorrect`, `TypeCorrect`) are proved and
not among the runs' properties.

**Only model-checked.** Liveness, that is `OperationsReturn`, `WaitReturns`,
`LostWakeUpsHarmless`, `AllocateReturns`, `Terminates`, `CreationReturns`, `FramesEnd`,
`StepReturns` and `ChangeIsShown`: the proof system covers neither fairness nor ENABLED.
Every other property of a passing run, each invariant and each refinement, is a theorem.

## 5 Where code and documentation disagree

- `stack_mpmc`: when the compare-exchange of `pop()` fails, `expected` holds the new
  head and `expected->next` is read without looking whether it is null
  (`thread/LockFreeStack.tpp:51`). The header hopes for several consumers. The program
  only ever pops from one thread at a time: the manager from the stepping thread, the
  pool under `cvMutex`.
- `stack_clear`: the loop of `clear()` does not move on to the next node
  (`thread/LockFreeStack.tpp:70`); clearing a stack that is not empty does not end. A
  destructor of the manager with queued awake, activate or creation requests, or with
  events, and a destructor of a pool with queued tasks, run into it. `ThreadPool` and
  `EntityManager` model the clear as their authors meant it, so that the rest can be
  checked.
- `rendering_lifo`: events are distributed from a stack, so that of two changes of a
  transform the earlier is delivered last (`ecs/EntityManager.cpp:580`), and
  `Sprite::receiveEntityEvent` takes the values from the event. The sprite is left with
  the outdated transform until the next change. `Sprite.h:86` says that it "updates the
  transform data". With one change between two distributions `SpriteFollowsTransform`
  holds (`rendering`).
- Not run: `setRenderingState()` looks at the old state and not at the stage
  (`ecs/component/Sprite.cpp:125`). A sprite without JSON that is shown while it is
  inactive is added to the scene, and its activation adds it once more; `Sprite.h:116`
  says "if true the object will be rendered", and `Sprite.h:78` leaves drawing to
  activation. A later `setRenderingState(false)` takes out one of the two. The model
  makes these calls, and as an invariant of `Rendering.cfg` TLC finds `RenderedOnce`
  violated by them; `SceneConsistent` says by how much the scene may be off. The program
  itself never calls it.
- Not run: `clearTasks()` sets the counter to 0 while a worker may run a counted task
  (`thread/Pool.tpp:76`); the counter wraps when that task ends, and the next task
  brings it back to 0, so that `wait()` returns early: with `MayClearTasks = TRUE` TLC
  finds `WaitSound` violated. The program does not call `clearTasks()`.
- Not run: a sprite that is created without JSON keeps the defaults of its nodes until a
  setter is called, and has `renderingEnabled` false; `LookIsShown` allows the former.
- Not run: `Transform::onCreate()` "sends broadcast event when component is created"
  (`ecs/component/Transform.h:41`), and nothing calls it. A sprite that is created after
  its transform was last changed gets no event of it: `announced` counts from the
  sprite's creation.
- Not run: `cmd::Parser::setLogger` assigns its parameter to itself
  (`src/cmd/src/cmd/parser.cpp:77`).
- Not run: a client that removes a component which is not hibernating leaves components
  of other stages in front of the boundary `inactive`
  (`ecs/ComponentCollection.cpp:216`), over which `update()` runs, although
  `src/README.md:35` promises active ones only. The manager has no such client as long
  as its own clients keep to the documented order (`CallsLegal`); `~EntityManager`
  removes without looking but updates nothing after.

## 6 What is not modelled

- Handles that are made before their collection moves: they hold the address of the old
  one. `ComponentCollection.h:77` forbids it, and `RegisterComponent` respects it. The
  move assignment of collections, which nothing calls.
- The composition of the pool with its stack: in `ThreadPool` the queue is atomic.
  `PopsExclude` discharges the assumption of the stack among the workers; the
  destructor's clear beside a worker's pop is outside of it. Without tasks it touches no
  node, and with tasks it does not return at all (`stack_clear`). A pool without
  threads, which its default constructor argument excludes.
- Memory models weaker than sequential consistency. The orderings that the code asks for
  are acquire and release on the locations that publish, and the plain pointer
  `Block::next` is treated as one access.
- Threads of the engine that push requests while lifecycle steps run:
  `LockFreeStack.h:97` forbids it for `clear`.
- Clients that do not follow the documented order of `step()`, or create a second
  component of a type for an entity: `create()` does not look, and `find()` sees one of
  the two.
- Definitions that write a family component by hand (`NoFamilyByHand`): such an entity
  gets two components of one type.
- Definitions that extend themselves, or whose children lead back to them:
  `createExtensionStack` or the recursion does not return. `CatalogueAssumption`
  excludes them, so `CreationReturns` says nothing of them.
- The build without layered execution. Its phases call the collections one by one in
  the order of registration, which is what `FrameExecution` does with one collection in
  each layer.
- Order and types of the arguments in an event: they have distinct identifiers and are
  found by those. A component that keeps an event unsent over the end of a frame.
- `Children::removeChild`, which nothing calls; `Sprite::addSprite` and
  `setActiveSprite`, which forward to the engine; (de)serialisation beyond the presence
  of JSON; geometry, as the transform is a version.
- `HeapAllocator` (malloc and free), `LockedQueue` (one mutex around a `std::queue`,
  nothing instantiates it), `cmd` (start-up helper), tests, examples and the engine.

## 7 The plan

Done, in this order because each rests on the one before, or is used most: storage and
handles; the lock-free stack; the pool; the allocator; the layers; the requests and the
lifecycle; the frame; definitions; the descriptions of types; the objects in the storage
and moves of collections; events, arguments and the rendering components; the linear
allocator; proofs of storage, stack, pool, allocators, layers, requests, frame,
objects, rendering and definitions. What is left:

1. `EntityManager` over `ComponentCollection` instead of `Lifecycle`, as one state
   space: today the two meet in `Lifecycle`, which one calls as `CallsLegal` demands and
   the other implements.
2. In the same way `LockFreeStack` under `ThreadPool`: `PopsExclude` and
   `AtomicStackImplemented` are proved apart, over two sets of variables.

Runs and properties are few on purpose: one for each question above. A later module
replaces the run that has taught the least.
