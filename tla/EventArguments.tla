---------------------------- MODULE EventArguments ----------------------------
(***************************************************************************)
(* The class Event: a movable object that owns the list of its arguments.  *)
(* An argument lives in a cell of the argument allocator, which nobody     *)
(* frees one by one: whoever lists the cell must run its destructor, once, *)
(* and before EntityManager clears the allocator.                          *)
(*                                                                         *)
(* An event is [receiver, arguments], the arguments a set of cells: they   *)
(* have distinct identifiers, and the list is only searched by those.      *)
(***************************************************************************)
EXTENDS Naturals

\* Event(): no argument yet.
NewEvent(receiver) == [receiver |-> receiver, arguments |-> {}]

\* Fault: the moved-from event keeps its list.
MovedKeeping(event) == event

\* What a move leaves behind: `source.first = nullptr'.
MovedFrom(event) == [event EXCEPT !.arguments = {}]

\* Fault: the list of the target is overwritten.
OverwrittenBy(target, source) == {}

\* operator=(Event&&): the arguments of the target that it destroys.  The
\* target becomes what the source was.
DestroyedByAssign(target, source) == target.arguments

\* ~Event(): the arguments it destroys.
DestroyedBy(event) == event.arguments

\* A cell as createEventArgument() constructs it: Argument and copied payload.
Argument(identifier, payload) == [identifier |-> identifier, payload |-> payload]

\* addArgument(), of an identifier that the event does not have.
AddArgument(event, cell) == [event EXCEPT !.arguments = @ \cup {cell}]

\* getArgument(), which asserts that there is one, and value().
GetArgument(memory, event, identifier) ==
  memory[CHOOSE c \in event.arguments : memory[c].identifier = identifier]

=============================================================================
