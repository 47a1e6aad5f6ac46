--------------------------- MODULE ThreadPoolProofs ---------------------------
(***************************************************************************)
(* Proofs about ThreadPool: for any number of workers and of tasks, and    *)
(* any width of the counter that has room for the tasks.                   *)
(***************************************************************************)
EXTENDS ThreadPool, FiniteSetTheorems, TLAPS

-----------------------------------------------------------------------------
(* Types and the mutex, whatever the owner does. *)

\* The counter stays in the range of std::size_t.
LEMMA CounterRange ==
  ASSUME NEW n \in 0 .. CountMod - 1
  PROVE  Increment(n) \in 0 .. CountMod - 1 /\ Decrement(n) \in 0 .. CountMod - 1
BY CountModAssumption DEF Increment, Decrement

\* The initial state is well typed and nobody holds the mutex.
LEMMA MutexInit == Init => TypeOK /\ WorkersSound
BY WorkersAssumption, CountModAssumption
   DEF Init, TypeOK, WorkersSound, HoldingMutex, OwnerStates, WorkerStates

\* No step of a worker breaks the types or the exclusion by the mutex.
LEMMA MutexWorker ==
  ASSUME TypeOK, WorkersSound, NEW w \in Workers, WorkerStep(w) \/ WakeSpuriously(w)
  PROVE  TypeOK' /\ WorkersSound'
<1> USE DEF TypeOK, WorkersSound, HoldingMutex, Goto, WorkerStates, poolVars
<1>1. CASE TestContinue(w) BY <1>1 DEF TestContinue
<1>2. CASE Lock(w) BY <1>2, WorkersAssumption DEF Lock
<1>3. CASE Pop(w) BY <1>3 DEF Pop
<1>4. CASE PopNothing(w) BY <1>4 DEF PopNothing
<1>5. CASE CheckContinue(w) BY <1>5 DEF CheckContinue
<1>6. CASE Sleep(w) BY <1>6, WorkersAssumption DEF Sleep
<1>7. CASE Timeout(w) BY <1>7 DEF Timeout
<1>8. CASE Unlock(w) BY <1>8, WorkersAssumption DEF Unlock
<1>9. CASE Run(w) BY <1>9 DEF Run
<1>10. CASE Count(w) BY <1>10, CounterRange DEF Count
<1>11. CASE WakeSpuriously(w) BY <1>11 DEF WakeSpuriously
<1> QED BY <1>1, <1>2, <1>3, <1>4, <1>5, <1>6, <1>7, <1>8, <1>9, <1>10, <1>11 DEF WorkerStep

\* A notification moves waiters from "asleep" to "woken" and changes no other
\* program counter.
LEMMA Notified ==
  ASSUME pc \in [Workers -> WorkerStates], NotifyOne \/ NotifyAll
  PROVE  /\ pc' \in [Workers -> WorkerStates]
         /\ \A w \in Workers : pc'[w] = pc[w] \/ (pc[w] = "asleep" /\ pc'[w] = "woken")
BY DEF NotifyOne, NotifyAll, Goto, WorkerStates

\* No step of the owner breaks the types or the exclusion by the mutex.
LEMMA MutexOwner ==
  ASSUME TypeOK, WorkersSound, OwnerCall \/ OwnerStep
  PROVE  TypeOK' /\ WorkersSound'
<1> USE DEF TypeOK, WorkersSound, HoldingMutex, OwnerGoto, OwnerStates, workerVars
<1>1. ASSUME NEW t \in Tasks, AddPush(t) PROVE TypeOK' /\ WorkersSound' BY <1>1 DEF AddPush
<1>2. CASE AddCount BY <1>2, CounterRange DEF AddCount
<1>3. CASE AddNotify BY <1>3, Notified DEF AddNotify
<1>4. CASE WaitCall BY <1>4 DEF WaitCall
<1>5. CASE WaitReturn BY <1>5 DEF WaitReturn
<1>6. CASE WaitMore BY <1>6 DEF WaitMore
<1>7. CASE WaitNotify BY <1>7, Notified DEF WaitNotify
<1>8. CASE ClearTasks BY <1>8 DEF ClearTasks, DropTasks
<1>9. CASE ClearCount BY <1>9, CountModAssumption DEF ClearCount
<1>10. CASE Destroy BY <1>10 DEF Destroy
<1>11. CASE StopClear BY <1>11 DEF StopClear, DropTasks
<1>12. CASE StopNotify BY <1>12, Notified DEF StopNotify
<1>13. CASE Join BY <1>13 DEF Join
<1> QED BY <1>1, <1>2, <1>3, <1>4, <1>5, <1>6, <1>7, <1>8, <1>9, <1>10, <1>11, <1>12, <1>13
        DEF OwnerCall, OwnerStep

\* Types and mutex together are inductive.
LEMMA MutexStep == TypeOK /\ WorkersSound /\ [Next]_vars => TypeOK' /\ WorkersSound'
<1> SUFFICES ASSUME TypeOK, WorkersSound, [Next]_vars PROVE TypeOK' /\ WorkersSound'
  OBVIOUS
<1>1. CASE UNCHANGED vars \/ Destroyed
  BY <1>1 DEF TypeOK, WorkersSound, HoldingMutex, Destroyed, vars, poolVars, workerVars
<1> QED BY <1>1, MutexWorker, MutexOwner DEF Next

\* Every variable of the pool keeps its type, whatever the owner does.
THEOREM TypeCorrect == Spec => []TypeOK
<1>1. Spec => [](TypeOK /\ WorkersSound) BY MutexInit, MutexStep, PTL DEF Spec
<1> QED BY <1>1, PTL

\* Two workers are never both between lock and unlock, so pops of the queue do
\* not overlap: the condition under which LockFreeStack::pop is sound.
THEOREM PopsSerialized == Spec => []PopsExclude
<1>1. Spec => [](TypeOK /\ WorkersSound) BY MutexInit, MutexStep, PTL DEF Spec
<1>2. WorkersSound => PopsExclude BY DEF WorkersSound, PopsExclude
<1> QED BY <1>1, <1>2, PTL

-----------------------------------------------------------------------------
(* The accounting of tasks, when clearTasks finds nothing to clear. *)

\* The initial state satisfies the whole invariant.
LEMMA AccountInit == Init => IInv
<1> SUFFICES ASSUME Init PROVE IInv OBVIOUS
<1>1. TypeOK /\ WorkersSound BY MutexInit
<1>2. TasksAccounted BY DEF Init, TasksAccounted
<1>3. Outstanding = {} BY DEF Init, Outstanding
<1>4. CountSound BY <1>3, FS_EmptySet DEF CountSound, Init
<1> QED BY <1>1, <1>2, <1>4 DEF IInv

\* What is outstanding is a set of tasks, fewer than the counter can count.
LEMMA OutstandingFits ==
  ASSUME TypeOK, WorkersSound
  PROVE  /\ Outstanding \subseteq Tasks
         /\ IsFiniteSet(Outstanding)
         /\ Cardinality(Outstanding) \in 0 .. CountMod - 1
<1>1. Outstanding \subseteq Tasks BY DEF TypeOK, WorkersSound, Outstanding
<1>2. IsFiniteSet(Outstanding) /\ Cardinality(Outstanding) <= Cardinality(Tasks)
  BY <1>1, TasksAssumption, FS_Subset
<1>3. Cardinality(Outstanding) \in Nat /\ Cardinality(Tasks) \in Nat
  BY <1>2, TasksAssumption, FS_CardinalityType
<1> QED BY <1>1, <1>2, <1>3, TasksAssumption, CountModAssumption

\* A step that leaves the counter, the owner's place in addTask and the
\* outstanding tasks alone keeps the count right.
LEMMA CountKept ==
  ASSUME CountSound, Outstanding' = Outstanding, taskCount' = taskCount,
         owner' = "addCount" <=> owner = "addCount"
  PROVE  CountSound'
BY DEF CountSound

\* A counter that says zero is right about it: clearTasks has nothing to drop.
LEMMA NothingQueued ==
  ASSUME IInv, owner # "addCount", taskCount = 0
  PROVE  Outstanding = {} /\ tasks = {}
<1>1. Cardinality(Outstanding) = 0 BY DEF IInv, CountSound
<1>2. Outstanding = {} BY <1>1, OutstandingFits, FS_EmptySet DEF IInv
<1> QED BY <1>2 DEF Outstanding, IInv, TasksAccounted

\* No step of a worker breaks the accounting.
LEMMA AccountWorker ==
  ASSUME IInv, NEW w \in Workers, WorkerStep(w) \/ WakeSpuriously(w)
  PROVE  TasksAccounted' /\ CountSound'
<1> USE DEF IInv, TypeOK, WorkersSound, Goto, poolVars
<1>a. ASSUME UNCHANGED <<poolVars, task, done>>,
             \A v \in Workers : pc'[v] = "count" <=> pc[v] = "count",
             \A v \in Workers : pc[v] = "exit" => pc'[v] = "exit"
      PROVE  TasksAccounted' /\ CountSound'
  <2>1. TasksAccounted' BY <1>a DEF TasksAccounted
  <2>2. Outstanding' = Outstanding BY <1>a DEF Outstanding
  <2> QED BY <2>1, <2>2, <1>a, CountKept
<1>1. CASE TestContinue(w) BY <1>1, <1>a DEF TestContinue
<1>2. CASE Lock(w) BY <1>2, <1>a DEF Lock
<1>3. CASE Pop(w)
  <2>1. PICK t \in tasks : tasks' = tasks \ {t} /\ task' = [task EXCEPT ![w] = t]
    BY <1>3 DEF Pop
  <2>2. pc' = [pc EXCEPT ![w] = "unlock"] /\ pc[w] \in {"pop", "lastPop"}
    BY <1>3 DEF Pop
  <2>3. UNCHANGED <<taskCount, shouldContinue, owner, added, discarded, done>>
    BY <1>3 DEF Pop
  <2>a. t \in added /\ t \in Tasks /\ t # None /\ t \notin done \cup discarded /\ task[w] = None
    BY <2>2, TasksAssumption DEF TasksAccounted
  <2>b. \A v \in Workers : task[v] # t BY <2>a DEF TasksAccounted
  <2>c. /\ task' \in [Workers -> Tasks \cup {None}]
        /\ task'[w] = t /\ pc'[w] = "unlock"
        /\ \A v \in Workers \ {w} : task'[v] = task[v] /\ pc'[v] = pc[v]
    BY <2>1, <2>2, <2>a
  <2>d. \A v \in Workers : task'[v] # None =>
          /\ task'[v] \in added' \ (tasks' \cup discarded')
          /\ task'[v] \in done' <=> pc'[v] = "count"
          /\ \A u \in Workers : task'[u] = task'[v] => u = v
    BY <2>1, <2>3, <2>a, <2>b, <2>c DEF TasksAccounted
  <2>e. \A u \in added' : u \in tasks' \cup done' \cup discarded' \/ \E v \in Workers : task'[v] = u
    <3> SUFFICES ASSUME NEW u \in added
                 PROVE  u \in tasks' \cup done' \cup discarded' \/ \E v \in Workers : task'[v] = u
      BY <2>3
    <3>1. CASE u = t BY <3>1, <2>c
    <3>2. CASE \E v \in Workers : task[v] = u
      <4>1. PICK v \in Workers : task[v] = u BY <3>2
      <4>2. v # w BY <4>1, <2>a, TasksAssumption
      <4> QED BY <4>1, <4>2, <2>c
    <3>3. CASE u \in tasks \cup done \cup discarded BY <3>3, <3>1, <2>1, <2>3
    <3> QED BY <3>1, <3>2, <3>3 DEF TasksAccounted
  <2>4. TasksAccounted' BY <2>1, <2>2, <2>3, <2>d, <2>e DEF TasksAccounted
  <2>5. Outstanding' = Outstanding
    <3>1. {v \in Workers : pc'[v] = "count"} = {v \in Workers : pc[v] = "count"} BY <2>2
    <3>2. \A v \in Workers : pc[v] = "count" => task'[v] = task[v] BY <2>1, <2>2
    <3> QED BY <3>1, <3>2, <2>3 DEF Outstanding
  <2> QED BY <2>3, <2>4, <2>5, CountKept
<1>4. CASE PopNothing(w) BY <1>4, <1>a DEF PopNothing
<1>5. CASE CheckContinue(w) BY <1>5, <1>a DEF CheckContinue
<1>6. CASE Sleep(w) BY <1>6, <1>a DEF Sleep
<1>7. CASE Timeout(w) BY <1>7, <1>a DEF Timeout
<1>8. CASE Unlock(w) BY <1>8, <1>a DEF Unlock
<1>9. CASE Run(w)
  <2>1. pc[w] = "run" /\ pc' = [pc EXCEPT ![w] = "count"] /\ done' = done \cup {task[w]}
    BY <1>9 DEF Run
  <2>2. UNCHANGED <<poolVars, task>> BY <1>9 DEF Run
  <2>3. task[w] # None /\ task[w] \in added BY <2>1 DEF TasksAccounted
  <2>4. TasksAccounted' BY <2>1, <2>2, <2>3 DEF TasksAccounted
  <2>5. Outstanding' = Outstanding
    <3>1. {v \in Workers : pc'[v] = "count"} = {v \in Workers : pc[v] = "count"} \cup {w}
      BY <2>1
    <3> QED BY <3>1, <2>1, <2>2, <2>3 DEF Outstanding, TasksAccounted
  <2> QED BY <2>2, <2>4, <2>5, CountKept
<1>10. CASE Count(w)
  <2>1. /\ pc[w] = "count" /\ pc' = [pc EXCEPT ![w] = "test"]
        /\ task' = [task EXCEPT ![w] = None]
        /\ taskCount' = Decrement(taskCount)
    BY <1>10 DEF Count
  <2>2. UNCHANGED <<tasks, owner, added, discarded, done>> BY <1>10 DEF Count
  <2>3. task[w] # None /\ task[w] \in added /\ task[w] \in done
    BY <2>1 DEF TasksAccounted
  <2>a. owner # "clearCount"
    BY <2>1, <2>3, NothingQueued DEF TasksAccounted, Outstanding
  <2>4. TasksAccounted' BY <2>1, <2>2, <2>3, <2>a, TasksAssumption DEF TasksAccounted
  <2>5. Outstanding' = Outstanding \ {task[w]} /\ task[w] \in Outstanding
    <3>1. {v \in Workers : pc'[v] = "count"} = {v \in Workers : pc[v] = "count"} \ {w}
      BY <2>1
    <3>2. \A v \in Workers : v # w => task'[v] = task[v] BY <2>1
    <3> QED BY <3>1, <3>2, <2>1, <2>2, <2>3 DEF Outstanding, TasksAccounted
  <2>6. /\ Cardinality(Outstanding') = Cardinality(Outstanding) - 1
        /\ Cardinality(Outstanding) \in 0 .. CountMod - 1
        /\ Cardinality(Outstanding') \in Nat
    BY <2>5, OutstandingFits, FS_RemoveElement, FS_CardinalityType
  <2>7. CountSound'
    BY <2>1, <2>2, <2>6, CountModAssumption DEF CountSound, Increment, Decrement
  <2> QED BY <2>4, <2>7
<1>11. CASE WakeSpuriously(w) BY <1>11, <1>a DEF WakeSpuriously
<1> QED BY <1>1, <1>2, <1>3, <1>4, <1>5, <1>6, <1>7, <1>8, <1>9, <1>10, <1>11 DEF WorkerStep

\* No step of the owner breaks the accounting, if it calls clearTasks only
\* with nothing outstanding.
LEMMA AccountOwner ==
  ASSUME IInv, ~MayClearTasks, OwnerCall \/ OwnerStep
  PROVE  TasksAccounted' /\ CountSound'
<1> USE DEF IInv, TypeOK, OwnerGoto, workerVars
<1>a. ASSUME UNCHANGED <<tasks, added, discarded, task, done>>,
             NotifyOne \/ NotifyAll \/ UNCHANGED pc,
             owner' \in {"addNotify", "idle", "wait", "waitNotify", "stopClear"}
               \/ (owner \in {"stopNotify", "join"} /\ owner' \in {"join", "destroyed"}),
             owner' = "destroyed" => UNCHANGED pc /\ \A w \in Workers : pc[w] = "exit",
             owner \notin {"stopNotify", "join", "destroyed"} \/ owner' \in {"join", "destroyed"}
      PROVE  TasksAccounted' /\ Outstanding' = Outstanding
  <2>1. \A w \in Workers : pc'[w] = pc[w] \/ (pc[w] = "asleep" /\ pc'[w] = "woken")
    BY <1>a, Notified
  <2>2. \A w \in Workers : pc'[w] = "count" <=> pc[w] = "count" BY <2>1
  <2>3. TasksAccounted' BY <1>a, <2>2 DEF TasksAccounted
  <2> QED BY <1>a, <2>2, <2>3 DEF Outstanding
<1>1. ASSUME NEW t \in Tasks, AddPush(t) PROVE TasksAccounted' /\ CountSound'
  <2>1. /\ owner = "idle" /\ owner' = "addCount"
        /\ t \notin added /\ tasks' = tasks \cup {t} /\ added' = added \cup {t}
        /\ UNCHANGED <<taskCount, discarded, pc, task, done>>
    BY <1>1 DEF AddPush
  <2>2. TasksAccounted' BY <2>1, TasksAssumption DEF TasksAccounted
  <2>3. Outstanding' = Outstanding \cup {t} /\ t \notin Outstanding
    BY <2>1 DEF Outstanding, TasksAccounted, WorkersSound
  <2>4. Cardinality(Outstanding') = Cardinality(Outstanding) + 1
    BY <2>3, OutstandingFits, FS_AddElement
  <2>5. TypeOK' /\ WorkersSound' BY <1>1, MutexOwner DEF OwnerCall
  <2>6. Cardinality(Outstanding') <= CountMod - 1
    <3>1. Outstanding' \subseteq Tasks BY <2>3, OutstandingFits
    <3>2. Cardinality(Outstanding') <= Cardinality(Tasks) /\ Cardinality(Tasks) \in Nat
      BY <3>1, TasksAssumption, FS_Subset, FS_CardinalityType
    <3>3. Cardinality(Outstanding) \in Nat BY OutstandingFits
    <3> QED BY <3>2, <3>3, <2>4, TasksAssumption, CountModAssumption
  <2>7. Cardinality(Outstanding) = taskCount BY <2>1 DEF CountSound
  <2>8. CountSound' BY <2>1, <2>4, <2>6, <2>7, CountModAssumption DEF CountSound, Increment
  <2> QED BY <2>2, <2>8
<1>2. CASE AddCount
  <2>1. /\ owner = "addCount" /\ owner' = "addNotify" /\ taskCount' = Increment(taskCount)
        /\ UNCHANGED <<tasks, added, discarded, pc, task, done>>
    BY <1>2 DEF AddCount
  <2>2. TasksAccounted' /\ Outstanding' = Outstanding BY <2>1, <1>a
  <2> QED BY <2>1, <2>2 DEF CountSound
<1>3. CASE AddNotify BY <1>3, <1>a, CountKept DEF AddNotify
<1>4. CASE WaitCall BY <1>4, <1>a, CountKept DEF WaitCall
<1>5. CASE WaitReturn BY <1>5, <1>a, CountKept DEF WaitReturn
<1>6. CASE WaitMore BY <1>6, <1>a, CountKept DEF WaitMore
<1>7. CASE WaitNotify BY <1>7, <1>a, CountKept DEF WaitNotify
<1>8. CASE ClearTasks
  <2>1. /\ owner = "idle" /\ owner' = "clearCount" /\ taskCount = 0
        /\ tasks' = {} /\ discarded' = discarded \cup tasks
        /\ UNCHANGED <<taskCount, added, pc, task, done>>
    BY <1>8 DEF ClearTasks, DropTasks
  <2>2. tasks = {} BY <2>1, NothingQueued
  <2>3. TasksAccounted' BY <2>1, <2>2 DEF TasksAccounted
  <2>4. Outstanding' = Outstanding BY <2>1 DEF Outstanding
  <2> QED BY <2>1, <2>3, <2>4, CountKept
<1>9. CASE ClearCount
  <2>1. /\ owner = "clearCount" /\ owner' = "idle" /\ taskCount = 0 /\ taskCount' = 0
        /\ UNCHANGED <<tasks, added, discarded, pc, task, done>>
    BY <1>9 DEF ClearCount, TasksAccounted
  <2>2. TasksAccounted' BY <2>1 DEF TasksAccounted
  <2>3. Outstanding' = Outstanding BY <2>1 DEF Outstanding
  <2> QED BY <2>1, <2>2, <2>3, CountKept
<1>10. CASE Destroy BY <1>10, <1>a, CountKept DEF Destroy
<1>11. CASE StopClear
  <2>1. /\ owner = "stopClear" /\ owner' = "stopNotify"
        /\ tasks' = {} /\ discarded' = discarded \cup tasks
        /\ UNCHANGED <<taskCount, added, pc, task, done>>
    BY <1>11 DEF StopClear, DropTasks
  <2>2. TasksAccounted' BY <2>1 DEF TasksAccounted
  <2>3. Outstanding' = Outstanding BY <2>1 DEF Outstanding
  <2> QED BY <2>1, <2>2, <2>3, CountKept
<1>12. CASE StopNotify BY <1>12, <1>a, CountKept DEF StopNotify
<1>13. CASE Join BY <1>13, <1>a, CountKept DEF Join
<1> QED BY <1>1, <1>2, <1>3, <1>4, <1>5, <1>6, <1>7, <1>8, <1>9, <1>10, <1>11, <1>12, <1>13
        DEF OwnerCall, OwnerStep

\* The whole invariant is inductive.
LEMMA AccountStep == ~MayClearTasks /\ IInv /\ [Next]_vars => IInv'
<1> SUFFICES ASSUME ~MayClearTasks, IInv, [Next]_vars PROVE IInv'
  OBVIOUS
<1>1. TypeOK' /\ WorkersSound' BY MutexStep DEF IInv
<1>2. CASE UNCHANGED vars \/ Destroyed
  <2>1. UNCHANGED vars BY <1>2 DEF Destroyed
  <2> QED BY <1>1, <2>1
          DEF IInv, TasksAccounted, CountSound, Outstanding, vars, poolVars, workerVars
<1> QED BY <1>1, <1>2, AccountWorker, AccountOwner DEF Next, IInv

\* The invariant of an owner that clears nothing but an empty queue: every task that was
\* added is in the queue, with exactly one worker, done or discarded, and the
\* counter counts the ones that are not finished.
THEOREM PoolSound == ~MayClearTasks => (Spec => []IInv)
<1> SUFFICES ASSUME ~MayClearTasks PROVE Spec => []IInv
  OBVIOUS
<1>1. IInv /\ [Next]_vars => IInv' BY AccountStep
<1> QED BY <1>1, AccountInit, PTL DEF Spec

\* When wait() is about to return, every task has run or was discarded.
THEOREM WaitIsSound == ~MayClearTasks => (Spec => []WaitSound)
<1> SUFFICES ASSUME ~MayClearTasks PROVE Spec => []WaitSound
  OBVIOUS
<1>1. IInv => WaitSound
  <2> SUFFICES ASSUME IInv, owner = "wait", taskCount = 0 PROVE added \subseteq done
    BY DEF WaitSound
  <2>1. Cardinality(Outstanding) = 0 BY DEF IInv, CountSound
  <2>2. Outstanding = {} BY <2>1, OutstandingFits, FS_EmptySet DEF IInv
  <2> QED BY <2>2 DEF Outstanding
<1> QED BY <1>1, PoolSound, PTL

\* After the destructor nothing is in flight.
THEOREM DestructorSettles == ~MayClearTasks => (Spec => []DestroyedSettled)
<1> SUFFICES ASSUME ~MayClearTasks PROVE Spec => []DestroyedSettled
  OBVIOUS
<1>1. IInv => DestroyedSettled
  <2> SUFFICES ASSUME IInv, owner = "destroyed" PROVE added = done \cup discarded
    BY DEF DestroyedSettled
  <2>1. tasks = {} /\ \A w \in Workers : pc[w] = "exit" BY DEF IInv, TasksAccounted
  <2>2. \A w \in Workers : task[w] = None BY <2>1 DEF IInv, WorkersSound
  <2>3. \A t \in added : t \in done \cup discarded
    BY <2>1, <2>2, TasksAssumption DEF IInv, TypeOK, TasksAccounted
  <2> QED BY <2>3 DEF IInv, TasksAccounted
<1> QED BY <1>1, PoolSound, PTL

\* Neither wait() nor the destructor returns with a task in flight.
THEOREM PoolSettles == ~MayClearTasks => (Spec => []CallsSettle)
BY WaitIsSound, DestructorSettles, PTL DEF CallsSettle

-----------------------------------------------------------------------------
(* Pool implements TaskPool. *)

\* Under the invariant the guards of Status exclude each other.
LEMMA StatusIs ==
  ASSUME IInv, NEW t \in Tasks
  PROVE  /\ Status(t) = "running" <=> \E w \in Workers : task[w] = t /\ pc[w] # "count"
         /\ Status(t) = "queued" <=> t \in tasks
         /\ Status(t) = "done" <=> t \in done
         /\ Status(t) = "discarded" <=> t \in discarded
         /\ Status(t) = "new" <=> t \notin added
         /\ Status(t) \in {"new", "queued", "running", "done", "discarded"}
<1>1. (\E w \in Workers : task[w] = t /\ pc[w] # "count") => t \in added /\ t \notin tasks \cup done \cup discarded
  BY TasksAssumption DEF IInv, TasksAccounted
<1>2. t \in added => t \in tasks \cup done \cup discarded \/ \E w \in Workers : task[w] = t /\ pc[w] # "count"
  BY TasksAssumption DEF IInv, TasksAccounted
<1>3. tasks \cup done \cup discarded \subseteq added
  BY DEF IInv, TasksAccounted
<1>4. t \in tasks => t \notin done \cup discarded BY DEF IInv, TasksAccounted
<1>5. t \in done => t \notin discarded BY DEF IInv, TasksAccounted
<1> QED BY <1>1, <1>2, <1>3, <1>4, <1>5 DEF Status

\* A step that moves no task between the queue, the workers, done and
\* discarded leaves every status alone.
LEMMA StatusKept ==
  ASSUME UNCHANGED <<tasks, task, done, discarded>>,
         \A w \in Workers : task[w] # None => (pc'[w] = "count" <=> pc[w] = "count")
  PROVE  \A t \in Tasks : Status(t)' = Status(t)
<1> SUFFICES ASSUME NEW t \in Tasks PROVE Status(t)' = Status(t)
  OBVIOUS
<1>1. (\E w \in Workers : task'[w] = t /\ pc'[w] # "count") <=>
      (\E w \in Workers : task[w] = t /\ pc[w] # "count")
  BY TasksAssumption
<1> QED BY <1>1 DEF Status

\* Every initial state of the pool is one of the promise.
LEMMA PromisedInit == Init => Promised!Init
<1> SUFFICES ASSUME Init PROVE Promised!Init
  OBVIOUS
<1>1. \A t \in Tasks : Status(t) = "new" BY AccountInit, StatusIs DEF Init
<1> QED BY <1>1 DEF Init, Promised!Init

\* Every step of the pool is a step of the promise or leaves it alone.
LEMMA PromisedStep ==
  ASSUME IInv, IInv', ~MayClearTasks, [Next]_vars
  PROVE  [Promised!Next]_(Promised!vars)
<1> DEFINE status == [t \in Tasks |-> Status(t)]
           waiting == owner \in {"wait", "waitNotify"}
<1>a. ASSUME \A t \in Tasks : Status(t)' = Status(t), waiting' = waiting
      PROVE  UNCHANGED Promised!vars
  BY <1>a DEF Promised!vars
<1>1. ASSUME NEW w \in Workers, WorkerStep(w) \/ WakeSpuriously(w)
      PROVE  [Promised!Next]_(Promised!vars)
  <2> USE DEF Goto, poolVars
  <2>p. pc \in [Workers -> WorkerStates] BY DEF IInv, TypeOK
  <2>t. task \in [Workers -> Tasks \cup {None}] BY DEF IInv, TypeOK
  <2>q. \A v \in Workers : task[v] # None => pc[v] \in {"unlock", "run", "count"}
    BY DEF IInv, WorkersSound
  <2>1. ASSUME UNCHANGED <<tasks, task, done, discarded, owner>>,
               \A v \in Workers : pc'[v] = "count" <=> pc[v] = "count"
        PROVE  UNCHANGED Promised!vars
    BY <2>1, <1>a, StatusKept
  <2>2. CASE TestContinue(w) BY <2>2, <2>1, <2>p DEF TestContinue
  <2>3. CASE Lock(w) BY <2>3, <2>1, <2>p DEF Lock
  <2>4. CASE Pop(w)
    <3>1. PICK t \in tasks : tasks' = tasks \ {t} /\ task' = [task EXCEPT ![w] = t]
      BY <2>4 DEF Pop
    <3>2. /\ pc[w] \in {"pop", "lastPop"} /\ pc' = [pc EXCEPT ![w] = "unlock"]
          /\ UNCHANGED <<owner, added, discarded, done>>
      BY <2>4 DEF Pop
    <3>3. t \in Tasks /\ task[w] = None BY <3>2, <2>q DEF IInv, TypeOK
    <3>4. Status(t) = "queued" /\ Status(t)' = "running"
      BY <3>1, <3>2, <3>3, <2>p, <2>t DEF Status, IInv, TasksAccounted
    <3>5. \A u \in Tasks : u # t => Status(u)' = Status(u)
      <4> SUFFICES ASSUME NEW u \in Tasks, u # t PROVE Status(u)' = Status(u)
        OBVIOUS
      <4>1. (\E v \in Workers : task'[v] = u /\ pc'[v] # "count") <=>
            (\E v \in Workers : task[v] = u /\ pc[v] # "count")
        BY <3>1, <3>2, <3>3, <2>p, <2>t, TasksAssumption
      <4> QED BY <4>1, <3>1, <3>2 DEF Status
    <3>6. status' = [status EXCEPT ![t] = "running"] /\ status[t] = "queued"
      BY <3>3, <3>4, <3>5
    <3>7. Promised!Take(t) BY <3>2, <3>6 DEF Promised!Take, Promised!Move
    <3> QED BY <3>3, <3>7 DEF Promised!Next
  <2>5. CASE PopNothing(w) BY <2>5, <2>1, <2>p DEF PopNothing
  <2>6. CASE CheckContinue(w) BY <2>6, <2>1, <2>p DEF CheckContinue
  <2>7. CASE Sleep(w) BY <2>7, <2>1, <2>p DEF Sleep
  <2>8. CASE Timeout(w) BY <2>8, <2>1, <2>p DEF Timeout
  <2>9. CASE Unlock(w) BY <2>9, <2>1, <2>p DEF Unlock
  <2>10. CASE Run(w)
    <3>0. PICK t \in Tasks \cup {None} : t = task[w] BY <2>t
    <3>1. /\ pc[w] = "run" /\ pc' = [pc EXCEPT ![w] = "count"] /\ done' = done \cup {t}
          /\ UNCHANGED <<tasks, owner, added, discarded, task>>
      BY <2>10, <3>0 DEF Run
    <3>2. t \in Tasks /\ t # None BY <3>0, <3>1 DEF IInv, WorkersSound
    <3>3. \A v \in Workers : v # w => task[v] # t
      BY <3>0, <3>2 DEF IInv, TasksAccounted
    <3>4. Status(t) = "running" BY <3>0, <3>1, <3>2, StatusIs
    <3>5. Status(t)' = "done"
      <4>1. t \in done' BY <3>1
      <4>2. ~\E v \in Workers : task'[v] = t /\ pc'[v] # "count" BY <3>1, <3>3, <2>p
      <4>3. t \notin tasks' /\ t \notin discarded'
        BY <3>0, <3>1, <3>2 DEF IInv, TasksAccounted
      <4> QED BY <4>1, <4>2, <4>3 DEF Status
    <3>6. \A u \in Tasks : u # t => Status(u)' = Status(u)
      <4> SUFFICES ASSUME NEW u \in Tasks, u # t PROVE Status(u)' = Status(u)
        OBVIOUS
      <4>1. (\E v \in Workers : task'[v] = u /\ pc'[v] # "count") <=>
            (\E v \in Workers : task[v] = u /\ pc[v] # "count")
        BY <3>0, <3>1, <2>p
      <4> QED BY <4>1, <3>1 DEF Status
    <3>7. status' = [status EXCEPT ![t] = "done"] /\ status[t] = "running"
      BY <3>2, <3>4, <3>5, <3>6
    <3>8. Promised!Finish(t) BY <3>1, <3>7 DEF Promised!Finish, Promised!Move
    <3> QED BY <3>2, <3>8 DEF Promised!Next
  <2>11. CASE Count(w)
    <3>1. /\ pc[w] = "count" /\ pc' = [pc EXCEPT ![w] = "test"]
          /\ task' = [task EXCEPT ![w] = None]
          /\ UNCHANGED <<tasks, owner, added, discarded, done>>
      BY <2>11 DEF Count
    <3>2. \A t \in Tasks : Status(t)' = Status(t)
      <4> SUFFICES ASSUME NEW t \in Tasks PROVE Status(t)' = Status(t)
        OBVIOUS
      <4>1. (\E v \in Workers : task'[v] = t /\ pc'[v] # "count") <=>
            (\E v \in Workers : task[v] = t /\ pc[v] # "count")
        BY <3>1, <2>p, <2>t, TasksAssumption
      <4> QED BY <4>1, <3>1 DEF Status
    <3> QED BY <3>1, <3>2, <1>a
  <2>12. CASE WakeSpuriously(w) BY <2>12, <2>1, <2>p DEF WakeSpuriously
  <2> QED BY <1>1, <2>2, <2>3, <2>4, <2>5, <2>6, <2>7, <2>8, <2>9, <2>10, <2>11, <2>12
          DEF WorkerStep
<1>2. ASSUME OwnerCall \/ OwnerStep PROVE [Promised!Next]_(Promised!vars)
  <2> USE DEF OwnerGoto, workerVars
  <2>1. ASSUME UNCHANGED <<tasks, task, done, discarded>>, NotifyOne \/ NotifyAll \/ UNCHANGED pc
        PROVE  \A t \in Tasks : Status(t)' = Status(t)
    <3>1. \A w \in Workers : pc'[w] = "count" <=> pc[w] = "count"
      BY <2>1, Notified DEF IInv, TypeOK
    <3> QED BY <2>1, <3>1, StatusKept
  <2>2. ASSUME NEW t \in Tasks, AddPush(t) PROVE Promised!Next
    <3>1. /\ owner = "idle" /\ owner' = "addCount" /\ t \notin added
          /\ tasks' = tasks \cup {t}
          /\ UNCHANGED <<discarded, pc, task, done>>
      BY <2>2 DEF AddPush
    <3>2. Status(t) = "new" /\ Status(t)' = "queued"
      BY <3>1, StatusIs DEF IInv, TasksAccounted, Status
    <3>3. \A u \in Tasks : u # t => Status(u)' = Status(u) BY <3>1 DEF Status
    <3>4. status' = [status EXCEPT ![t] = "queued"] /\ status[t] = "new"
      BY <3>2, <3>3
    <3>5. Promised!Add(t) BY <3>1, <3>4 DEF Promised!Add, Promised!Move
    <3> QED BY <3>5 DEF Promised!Next
  <2>3. CASE AddCount BY <2>3, <2>1, <1>a DEF AddCount
  <2>4. CASE AddNotify BY <2>4, <2>1, <1>a DEF AddNotify
  <2>5. CASE WaitCall
    <3>1. Promised!WaitCall BY <2>5, <2>1 DEF WaitCall, Promised!WaitCall
    <3> QED BY <3>1 DEF Promised!Next
  <2>6. CASE WaitReturn
    <3>1. \A t \in Tasks : Status(t)' = Status(t) BY <2>6, <2>1 DEF WaitReturn
    <3>2. Cardinality(Outstanding) = 0 BY <2>6 DEF WaitReturn, IInv, CountSound
    <3>3. Outstanding = {} BY <3>2, OutstandingFits, FS_EmptySet DEF IInv
    <3>4. \A t \in Tasks : Status(t) \notin {"queued", "running"}
      <4> SUFFICES ASSUME NEW t \in Tasks, Status(t) \in {"queued", "running"} PROVE FALSE
        OBVIOUS
      <4>1. t \in added /\ t \notin done BY StatusIs
      <4> QED BY <4>1, <3>3 DEF Outstanding
    <3>5. Promised!WaitReturn BY <2>6, <3>1, <3>4 DEF WaitReturn, Promised!WaitReturn
    <3> QED BY <3>5 DEF Promised!Next
  <2>7. CASE WaitMore BY <2>7, <2>1, <1>a DEF WaitMore
  <2>8. CASE WaitNotify BY <2>8, <2>1, <1>a DEF WaitNotify
  <2>9. CASE ClearTasks
    <3>1. /\ owner = "idle" /\ owner' = "clearCount" /\ taskCount = 0
          /\ tasks' = {} /\ discarded' = discarded \cup tasks
          /\ UNCHANGED <<pc, task, done>>
      BY <2>9 DEF ClearTasks, DropTasks
    <3>2. tasks = {} BY <3>1, NothingQueued
    <3>3. UNCHANGED <<tasks, discarded>> BY <3>1, <3>2
    <3> QED BY <3>1, <3>3, <2>1, <1>a
  <2>10. CASE ClearCount BY <2>10, <2>1, <1>a DEF ClearCount
  <2>11. CASE Destroy BY <2>11, <2>1, <1>a DEF Destroy
  <2>12. CASE StopClear
    <3>1. /\ owner = "stopClear" /\ owner' = "stopNotify"
          /\ tasks' = {} /\ discarded' = discarded \cup tasks
          /\ UNCHANGED <<added, pc, task, done>>
      BY <2>12 DEF StopClear, DropTasks
    <3>2. \A t \in Tasks :
            Status(t)' = IF Status(t) = "queued" THEN "discarded" ELSE Status(t)
      BY <3>1, StatusIs DEF Status
    <3>3. Promised!Discard BY <3>1, <3>2 DEF Promised!Discard
    <3> QED BY <3>3 DEF Promised!Next
  <2>13. CASE StopNotify BY <2>13, <2>1, <1>a DEF StopNotify
  <2>14. CASE Join BY <2>14, <2>1, <1>a DEF Join
  <2> QED BY <1>2, <2>2, <2>3, <2>4, <2>5, <2>6, <2>7, <2>8, <2>9, <2>10, <2>11, <2>12, <2>13, <2>14
          DEF OwnerCall, OwnerStep
<1>3. CASE UNCHANGED vars \/ Destroyed
  <2>1. UNCHANGED vars BY <1>3 DEF Destroyed
  <2>2. \A t \in Tasks : Status(t)' = Status(t)
    BY <2>1, StatusKept DEF vars, poolVars, workerVars
  <2> QED BY <2>1, <2>2, <1>a DEF vars, poolVars
<1> QED BY <1>1, <1>2, <1>3 DEF Next

\* Pool keeps its promise: a task runs once or is discarded, and wait() is a
\* barrier, as long as clearTasks is called with
\* nothing outstanding.
THEOREM TaskPoolImplemented == ~MayClearTasks => (Spec => ImplementsTaskPool)
<1> SUFFICES ASSUME ~MayClearTasks PROVE Spec => Promised!Spec
  BY DEF ImplementsTaskPool
<1>1. IInv /\ IInv' /\ [Next]_vars => [Promised!Next]_(Promised!vars) BY PromisedStep
<1> QED BY <1>1, PromisedInit, PoolSound, PTL DEF Spec, Promised!Spec
=============================================================================
