------------------------------- MODULE TaskPool -------------------------------
(***************************************************************************)
(* What nox::thread::Pool promises its owner (Pool.h): a task that was     *)
(* added is run once or discarded, and wait() "finishes running all the    *)
(* functions in the queue".  Which worker runs a task, in what order, and  *)
(* how the workers sleep and wake is not said here; ThreadPool.tla is the  *)
(* code.                                                                   *)
(***************************************************************************)
CONSTANT Tasks

VARIABLES
  status,    \* status[t]: where the task is in its life
  waiting    \* is the owner inside wait()?

vars == <<status, waiting>>

Statuses == {"new", "queued", "running", "done", "discarded"}

Init ==
  /\ status = [t \in Tasks |-> "new"]
  /\ waiting = FALSE

Move(t, from, to) ==
  /\ status[t] = from
  /\ status' = [status EXCEPT ![t] = to]
  /\ UNCHANGED waiting

Add(t) == ~waiting /\ Move(t, "new", "queued")

Take(t) == Move(t, "queued", "running")

Finish(t) == Move(t, "running", "done")

\* clearTasks() and the destructor drop whatever is queued.
Discard ==
  /\ ~waiting
  /\ status' = [t \in Tasks |-> IF status[t] = "queued" THEN "discarded" ELSE status[t]]
  /\ UNCHANGED waiting

WaitCall ==
  /\ ~waiting
  /\ waiting' = TRUE
  /\ UNCHANGED status

\* The barrier: nothing is queued or running any more.
WaitReturn ==
  /\ waiting
  /\ \A t \in Tasks : status[t] \notin {"queued", "running"}
  /\ waiting' = FALSE
  /\ UNCHANGED status

Next ==
  \/ \E t \in Tasks : Add(t) \/ Take(t) \/ Finish(t)
  \/ Discard
  \/ WaitCall
  \/ WaitReturn

Spec == Init /\ [][Next]_vars
=============================================================================
