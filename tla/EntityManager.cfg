SPECIFICATION FairSpec
CONSTANTS
  sprite = sprite
  transform = transform
  MaxIds = 1
  Types <- TwoTypes
  MaxPending = 5
INVARIANTS CallsLegal GoalReached ServedInFrame DestroyedEmpty
PROPERTIES FramesEnd
CHECK_DEADLOCK FALSE
