------------------------------ MODULE ThreadPool ------------------------------
(***************************************************************************)
(* nox::thread::Pool: the workers, the condition variable they sleep on,   *)
(* the counter that wait() watches, and the thread that owns the pool      *)
(* (EntityManager: the only thread that adds tasks, waits and destroys).   *)
(*                                                                         *)
(* One action is one access to shared state.  The queue is a parameter of  *)
(* the class; its push, pop and clear are atomic here and the order of its *)
(* elements is left open (LockFreeStack.tla has the queue that the program *)
(* uses).  A task is a function that terminates.                           *)
(***************************************************************************)
EXTENDS Integers, FiniteSets

CONSTANTS
  Workers,         \* the threads that a pool may have
  Tasks,           \* the tasks that the owner may add, each of them once
  None,            \* a Task without a function; a mutex without an owner
  CountMod,        \* number of values of std::size_t
  MayClearTasks    \* does the owner call clearTasks() while tasks are outstanding?

ASSUME WorkersAssumption == None \notin Workers
ASSUME TasksAssumption ==
  None \notin Tasks /\ IsFiniteSet(Tasks) /\ Cardinality(Tasks) < CountMod
ASSUME CountModAssumption == CountMod \in Nat /\ CountMod > 1
ASSUME MayClearTasksAssumption == MayClearTasks \in BOOLEAN

VARIABLES
  tasks,             \* the queue
  taskCount,         \* std::atomic<std::size_t>
  shouldContinue,    \* std::atomic<bool>
  mutex,             \* the worker that holds cvMutex
  pc,                \* pc[w]: what worker w does next
  task,              \* task[w]: the local Task of worker w
  owner,             \* what the owner's thread does next
  added,             \* history: the tasks pushed so far
  done,              \* history: the tasks that ran to their end
  discarded          \* history: the tasks that a clear() dropped

poolVars == <<tasks, taskCount, shouldContinue, owner, added, discarded>>
workerVars == <<mutex, pc, task, done>>
vars == <<poolVars, workerVars>>

Init ==
  /\ tasks = {}
  /\ taskCount = 0
  /\ shouldContinue = TRUE
  /\ mutex = None
  /\ \E threads \in SUBSET Workers \ {{}} :     \* threadCount of them are started
       pc = [w \in Workers |-> IF w \in threads THEN "test" ELSE "exit"]
  /\ task = [w \in Workers |-> None]
  /\ owner = "idle"
  /\ added = {}
  /\ done = {}
  /\ discarded = {}

\* fetch_add and fetch_sub of an unsigned integer.
Increment(n) == IF n = CountMod - 1 THEN 0 ELSE n + 1

Decrement(n) == IF n = 0 THEN CountMod - 1 ELSE n - 1

Goto(w, from, to) ==
  /\ pc[w] = from
  /\ pc' = [pc EXCEPT ![w] = to]

-----------------------------------------------------------------------------
(* The loop of a worker *)

TestContinue(w) ==
  /\ Goto(w, "test", IF shouldContinue THEN "lock" ELSE "exit")
  /\ UNCHANGED <<poolVars, mutex, task, done>>

\* Fault: the queue is popped without holding cvMutex.
LockForgotten(w) ==
  /\ \/ Goto(w, "lock", "pop")
     \/ Goto(w, "woken", "pop")
     \/ Goto(w, "timedout", "lastPop")
  /\ mutex' = w
  /\ UNCHANGED <<poolVars, task, done>>

\* Lock cvMutex: at the top of the loop, or on the way out of the wait.
Lock(w) ==
  /\ mutex = None
  /\ \/ Goto(w, "lock", "pop")
     \/ Goto(w, "woken", "pop")
     \/ Goto(w, "timedout", "lastPop")
  /\ mutex' = w
  /\ UNCHANGED <<poolVars, task, done>>

\* Fault: the task stays in the queue.
PopKeeping(w) ==
  /\ pc[w] \in {"pop", "lastPop"}
  /\ \E t \in tasks : task' = [task EXCEPT ![w] = t]
  /\ pc' = [pc EXCEPT ![w] = "unlock"]
  /\ UNCHANGED <<poolVars, mutex, done>>

\* waitPred: tasks.pop(task) succeeds.
Pop(w) ==
  /\ pc[w] \in {"pop", "lastPop"}
  /\ \E t \in tasks :
       /\ tasks' = tasks \ {t}
       /\ task' = [task EXCEPT ![w] = t]
  /\ pc' = [pc EXCEPT ![w] = "unlock"]
  /\ UNCHANGED <<taskCount, shouldContinue, owner, added, discarded, mutex, done>>

\* waitPred: the queue is empty.  After a timeout wait_for returns whatever
\* shouldContinue says.
PopNothing(w) ==
  /\ tasks = {}
  /\ \/ Goto(w, "pop", "check")
     \/ Goto(w, "lastPop", "unlock")
  /\ UNCHANGED <<poolVars, mutex, task, done>>

\* waitPred: !shouldContinue.
CheckContinue(w) ==
  /\ Goto(w, "check", IF shouldContinue THEN "sleep" ELSE "unlock")
  /\ UNCHANGED <<poolVars, mutex, task, done>>

\* Release cvMutex and join the waiters of cv, atomically.
Sleep(w) ==
  /\ Goto(w, "sleep", "asleep")
  /\ mutex' = None
  /\ UNCHANGED <<poolVars, task, done>>

\* A condition variable may wake a waiter for no reason.
WakeSpuriously(w) ==
  /\ Goto(w, "asleep", "woken")
  /\ UNCHANGED <<poolVars, mutex, task, done>>

\* Fault: cv.wait instead of cv.wait_for.
NoTimeout(w) ==
  /\ FALSE
  /\ UNCHANGED vars

\* 250 ms have passed; a waiter that was notified too late counts as timed out.
Timeout(w) ==
  /\ pc[w] \in {"asleep", "woken"}
  /\ pc' = [pc EXCEPT ![w] = "timedout"]
  /\ UNCHANGED <<poolVars, mutex, task, done>>

\* if (task): without one the worker goes back to the top of the loop.
Unlock(w) ==
  /\ Goto(w, "unlock", IF task[w] = None THEN "test" ELSE "run")
  /\ mutex' = None
  /\ UNCHANGED <<poolVars, task, done>>

\* task() returns.
Run(w) ==
  /\ Goto(w, "run", "count")
  /\ done' = done \cup {task[w]}
  /\ UNCHANGED <<poolVars, mutex, task>>

\* Fault: a finished task is not counted.
CountForgotten(w) ==
  /\ Goto(w, "count", "test")
  /\ task' = [task EXCEPT ![w] = None]
  /\ UNCHANGED <<poolVars, mutex, done>>

\* taskCount.fetch_sub(1); task goes out of scope.
Count(w) ==
  /\ Goto(w, "count", "test")
  /\ taskCount' = Decrement(taskCount)
  /\ task' = [task EXCEPT ![w] = None]
  /\ UNCHANGED <<tasks, shouldContinue, owner, added, discarded, mutex, done>>

-----------------------------------------------------------------------------
(* The owner *)

OwnerGoto(from, to) ==
  /\ owner = from
  /\ owner' = to

\* The waiters that a notification wakes: one of them if there is one, or all.
NotifyOne ==
  \/ \E w \in Workers : Goto(w, "asleep", "woken")
  \/ (\A w \in Workers : pc[w] # "asleep") /\ UNCHANGED pc

NotifyAll ==
  pc' = [w \in Workers |-> IF pc[w] = "asleep" THEN "woken" ELSE pc[w]]

\* addTask: tasks.push(task)
AddPush(t) ==
  /\ OwnerGoto("idle", "addCount")
  /\ t \notin added
  /\ tasks' = tasks \cup {t}
  /\ added' = added \cup {t}
  /\ UNCHANGED <<taskCount, shouldContinue, discarded, workerVars>>

\* Fault: the task is not counted.
AddUncounted ==
  /\ OwnerGoto("addCount", "addNotify")
  /\ UNCHANGED <<tasks, taskCount, shouldContinue, added, discarded, workerVars>>

AddCount ==
  /\ OwnerGoto("addCount", "addNotify")
  /\ taskCount' = Increment(taskCount)
  /\ UNCHANGED <<tasks, shouldContinue, added, discarded, workerVars>>

AddNotify ==
  /\ OwnerGoto("addNotify", "idle")
  /\ NotifyOne
  /\ UNCHANGED <<tasks, taskCount, shouldContinue, added, discarded, mutex, task, done>>

WaitCall ==
  /\ OwnerGoto("idle", "wait")
  /\ UNCHANGED <<tasks, taskCount, shouldContinue, added, discarded, workerVars>>

WaitReturn ==
  /\ OwnerGoto("wait", "idle")
  /\ taskCount = 0
  /\ UNCHANGED <<tasks, taskCount, shouldContinue, added, discarded, workerVars>>

WaitMore ==
  /\ OwnerGoto("wait", "waitNotify")
  /\ taskCount # 0
  /\ UNCHANGED <<tasks, taskCount, shouldContinue, added, discarded, workerVars>>

WaitNotify ==
  /\ OwnerGoto("waitNotify", "wait")
  /\ NotifyAll
  /\ UNCHANGED <<tasks, taskCount, shouldContinue, added, discarded, mutex, task, done>>

\* tasks.clear() in clearTasks and in the destructor.
DropTasks ==
  /\ tasks' = {}
  /\ discarded' = discarded \cup tasks

ClearTasks ==
  /\ MayClearTasks \/ taskCount = 0
  /\ OwnerGoto("idle", "clearCount")
  /\ DropTasks
  /\ UNCHANGED <<taskCount, shouldContinue, added, workerVars>>

ClearCount ==
  /\ OwnerGoto("clearCount", "idle")
  /\ taskCount' = 0
  /\ UNCHANGED <<tasks, shouldContinue, added, discarded, workerVars>>

Destroy ==
  /\ OwnerGoto("idle", "stopClear")
  /\ shouldContinue' = FALSE
  /\ UNCHANGED <<tasks, taskCount, added, discarded, workerVars>>

StopClear ==
  /\ OwnerGoto("stopClear", "stopNotify")
  /\ DropTasks
  /\ UNCHANGED <<taskCount, shouldContinue, added, workerVars>>

StopNotify ==
  /\ OwnerGoto("stopNotify", "join")
  /\ NotifyAll
  /\ UNCHANGED <<tasks, taskCount, shouldContinue, added, discarded, mutex, task, done>>

Join ==
  /\ OwnerGoto("join", "destroyed")
  /\ \A w \in Workers : pc[w] = "exit"
  /\ UNCHANGED <<tasks, taskCount, shouldContinue, added, discarded, workerVars>>

-----------------------------------------------------------------------------

WorkerStep(w) ==
  \/ TestContinue(w)
  \/ Lock(w)
  \/ Pop(w)
  \/ PopNothing(w)
  \/ CheckContinue(w)
  \/ Sleep(w)
  \/ Timeout(w)
  \/ Unlock(w)
  \/ Run(w)
  \/ Count(w)

OwnerCall ==
  \/ \E t \in Tasks : AddPush(t)
  \/ WaitCall
  \/ ClearTasks
  \/ Destroy

OwnerStep ==
  \/ AddCount
  \/ AddNotify
  \/ WaitReturn
  \/ WaitMore
  \/ WaitNotify
  \/ ClearCount
  \/ StopClear
  \/ StopNotify
  \/ Join

Destroyed == owner = "destroyed" /\ UNCHANGED vars

Next ==
  \/ \E w \in Workers : WorkerStep(w) \/ WakeSpuriously(w)
  \/ OwnerCall
  \/ OwnerStep
  \/ Destroyed

Spec == Init /\ [][Next]_vars

\* The machine runs every thread; the clock reaches the timeout; a call that
\* was entered goes on.  Calls, and spurious wakeups, need not happen.
Fairness ==
  /\ \A w \in Workers : WF_vars(WorkerStep(w))
  /\ WF_vars(OwnerStep)

FairSpec == Spec /\ Fairness

-----------------------------------------------------------------------------
(* Properties. *)

OwnerStates ==
  {"idle", "addCount", "addNotify", "wait", "waitNotify", "clearCount",
   "stopClear", "stopNotify", "join", "destroyed"}

WorkerStates ==
  {"test", "lock", "pop", "check", "sleep", "asleep", "woken", "timedout",
   "lastPop", "unlock", "run", "count", "exit"}

TypeOK ==
  /\ tasks \subseteq Tasks
  /\ taskCount \in 0 .. CountMod - 1
  /\ shouldContinue \in BOOLEAN
  /\ mutex \in Workers \cup {None}
  /\ pc \in [Workers -> WorkerStates]
  /\ task \in [Workers -> Tasks \cup {None}]
  /\ owner \in OwnerStates
  /\ added \subseteq Tasks
  /\ done \subseteq Tasks
  /\ discarded \subseteq Tasks

\* Only the holder of cvMutex is in the wait, so pops never overlap
\* (the assumption PopsSerialized of LockFreeStack.tla).
HoldingMutex(w) == pc[w] \in {"pop", "check", "sleep", "lastPop", "unlock"}
PopsExclude == \A v, w \in Workers : HoldingMutex(v) /\ HoldingMutex(w) => v = w

\* Pool.h: wait is a "Blocking function, finishes running all the functions in
\* the queue".  When it is about to return, every task that was added and not
\* discarded has run to its end.
WaitSound == owner = "wait" /\ taskCount = 0 => added \subseteq done \cup discarded

\* taskCount: "how many tasks are left to processed", except between the push
\* and the increment of addTask, when a worker may already have taken one off.
\* The destructor discards tasks without counting them.
Outstanding == (added \ done) \cup {task[w] : w \in {v \in Workers : pc[v] = "count"}}
CountSound ==
  Cardinality(Outstanding) = IF owner = "addCount" THEN Increment(taskCount) ELSE taskCount

\* When the destructor returns nothing is in flight: every task that was added
\* has run to its end or was discarded.
DestroyedSettled == owner = "destroyed" => added = done \cup discarded

\* A call that waits for the workers returns when they are through.
CallsSettle == WaitSound /\ DestroyedSettled

\* The strengthening of WaitSound that is inductive when clearTasks is only
\* called with nothing outstanding.
WorkersSound ==
  \A w \in Workers :
    /\ mutex = w <=> HoldingMutex(w)
    /\ task[w] # None => pc[w] \in {"unlock", "run", "count"}
    /\ pc[w] \in {"run", "count"} => task[w] # None

TasksAccounted ==
  /\ \A w \in Workers : task[w] # None =>
       /\ task[w] \in added \ (tasks \cup discarded)
       /\ task[w] \in done <=> pc[w] = "count"
       /\ \A v \in Workers : task[v] = task[w] => v = w
  /\ tasks \cup done \cup discarded \subseteq added
  /\ tasks \cap done = {} /\ tasks \cap discarded = {} /\ done \cap discarded = {}
  /\ \A t \in added : t \in tasks \cup done \cup discarded \/ \E w \in Workers : task[w] = t
  /\ discarded # {} => owner \in {"stopNotify", "join", "destroyed"}
  /\ owner \in {"stopNotify", "join", "destroyed"} => tasks = {}
  /\ owner = "clearCount" => taskCount = 0
  /\ owner = "destroyed" => \A w \in Workers : pc[w] = "exit"

IInv == TypeOK /\ WorkersSound /\ TasksAccounted /\ CountSound

Status(t) ==
  CASE \E w \in Workers : task[w] = t /\ pc[w] # "count" -> "running"
    [] t \in tasks -> "queued"
    [] t \in done -> "done"
    [] t \in discarded -> "discarded"
    [] OTHER -> "new"

\* Pool implements what it promises, as long as clearTasks finds nothing to clear.
Promised ==
  INSTANCE TaskPool WITH
    status <- [t \in Tasks |-> Status(t)],
    waiting <- owner \in {"wait", "waitNotify"}
ImplementsTaskPool == Promised!Spec

\* A task does not stay in the queue, even if its notification found nobody
\* asleep: a worker that went to sleep just then wakes up by the timeout.
TasksLeaveQueue == \A t \in Tasks : t \in tasks ~> t \notin tasks

\* wait returns.
WaitReturns == owner = "wait" ~> owner = "idle"

\* The destructor returns, even if a worker missed its notification.
DestructorReturns == owner = "stopClear" ~> owner = "destroyed"

\* What a lost wake-up delays happens all the same.
LostWakeUpsHarmless == TasksLeaveQueue /\ DestructorReturns

=============================================================================
