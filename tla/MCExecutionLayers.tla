-------------------------- MODULE MCExecutionLayers --------------------------
(* Small instances of ExecutionLayers for TLC. *)
EXTENDS ExecutionLayers

\* A class with a function in one phase; another says differently in the others.
Class(t, phase, access, deps, overridden) ==
  [type |-> t, overridden |-> overridden,
   access |-> [p \in Phases |-> IF p = phase THEN access
                                ELSE IF t = 1 THEN "READ_WRITE" ELSE "INDEPENDENT"],
   deps |-> [p \in Phases |-> IF p = phase THEN deps ELSE {}]]

\* Three classes: every access, every set of dependencies on the others and
\* on all, without the function.  Registered in another order than sorted.
Three(phase, Sets(_)) ==
  LET all == 1 .. 3
      Comp(t) ==
        {Class(t, phase, a, d, {phase, "awake"}) : a \in {"INDEPENDENT", "READ_ONLY"}, d \in Sets(t)} \cup
        {Class(t, phase, "undeclared", {}, Hooks), Class(t, phase, "READ_WRITE", {}, {phase}),
         Class(t, phase, "READ_ONLY", all, Hooks \ {phase})}
  IN {[phase |-> phase, classes |-> <<b, a, c>>] : a \in Comp(1), b \in Comp(2), c \in Comp(3)}

\* Five classes connected in every way.
Five ==
  LET Comp(t) == {Class(t, "receiveEntityEvent", "READ_ONLY", d, Phases) : d \in SUBSET (1 .. t - 1)}
  IN {[phase |-> "receiveEntityEvent", classes |-> <<d, a, e, c, b>>] :
        a \in Comp(1), b \in Comp(2), c \in Comp(3), d \in Comp(4), e \in Comp(5)}

AllSets(t) == SUBSET ((1 .. 3) \ {t}) \cup {1 .. 3}
OneSet(t)  == {{(t % 3) + 1}}
ThreeOrFive == Three("update", AllSets) \cup Three("receiveLogicEvent", OneSet) \cup Five
=============================================================================
