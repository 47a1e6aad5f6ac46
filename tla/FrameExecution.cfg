SPECIFICATION FrameFairSpec
CONSTANTS
  sprite = sprite
  transform = transform
  physics = physics
  l1 = l1
  e1 = e1
  e2 = e2
  None = None
  Main = Main
  Collections <- ThreeCollections
  Layers <- MCLayers
  ReadPairs <- MCReads
  LogicEvents <- OneLogicEvent
  EntityEvents <- TwoEvents
  MaxFrames = 2
INVARIANTS EventStable ExclusiveAccess ArgumentsAlive HeardByAll
PROPERTIES StepReturns
CHECK_DEADLOCK FALSE
