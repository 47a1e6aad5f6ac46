CONSTANTS
  Ids = {a, b, c}
  Handles = {h}
  Raw = Raw
  None = None
  MaxGen = 6
  MaxMoves = 2
  RemoveAtAnyStage = FALSE
SPECIFICATION RegistrySpec
INVARIANTS
  BoundaryLookupsHit
  HandlesNeverStale
  BatchedCallsReach
  IInv
  ContentsKept
  ObjectsAccounted
PROPERTY ImplementsLifecycle
CHECK_DEADLOCK FALSE
