--------------------------- MODULE MCFrameExecution ---------------------------
EXTENDS FrameExecution, TLC

CONSTANTS sprite, transform, physics, l1, e1, e2

ThreeCollections == {sprite, transform, physics}
TwoEvents == {e1, e2}
OneLogicEvent == {l1}

\* Sprites read transforms in the update; the handlers of logic events of the
\* three share nothing and transforms do not receive them.
MCReads ==
  [receiveLogicEvent |-> {},
   update |-> {<<sprite, transform>>, <<transform, sprite>>},
   receiveEntityEvent |-> {<<transform, sprite>>}]
MCLayers ==
  [receiveLogicEvent |-> <<{sprite, physics}>>,
   update |-> <<{sprite, physics}, {transform}>>,
   receiveEntityEvent |-> <<{transform, physics}, {sprite}>>]
=============================================================================
