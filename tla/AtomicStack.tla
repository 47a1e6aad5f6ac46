----------------------------- MODULE AtomicStack -----------------------------
(***************************************************************************)
(* What LockFreeStack promises: push and pop take effect in one step       *)
(* between call and return, pop hands out the youngest value, and says     *)
(* "empty" only of a stack that is empty at that moment.                   *)
(***************************************************************************)
EXTENDS Integers, Sequences

CONSTANTS Values, Threads, Nothing, Empty

VARIABLES
  stack,      \* the values, youngest last
  got         \* got[t]: what the last pop of t handed out, until t pops again

Init ==
  /\ stack = <<>>
  /\ got = [t \in Threads |-> Nothing]

Push(v) ==
  /\ stack' = Append(stack, v)
  /\ UNCHANGED got

Pop(t) ==
  /\ stack # <<>>
  /\ got' = [got EXCEPT ![t] = stack[Len(stack)]]
  /\ stack' = SubSeq(stack, 1, Len(stack) - 1)

PopEmpty(t) ==
  /\ stack = <<>>
  /\ got' = [got EXCEPT ![t] = Empty]
  /\ UNCHANGED stack

\* The caller of pop drops what the last one handed out.
Call(t) ==
  /\ got' = [got EXCEPT ![t] = Nothing]
  /\ UNCHANGED stack

\* The values left are discarded at once.
Clear ==
  /\ stack' = <<>>
  /\ UNCHANGED got

Next ==
  \/ \E v \in Values : Push(v)
  \/ \E t \in Threads : Pop(t) \/ PopEmpty(t) \/ Call(t)
  \/ Clear

Spec == Init /\ [][Next]_<<stack, got>>

=============================================================================
