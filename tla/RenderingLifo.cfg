SPECIFICATION Spec
CONSTANTS
  e1 = e1
  e2 = e2
  t1 = t1
  t2 = t2
  None = None
  Entities <- TwoEntities
  Threads <- TwoThreads
  Visible <- OneVisible
  MaxVersion = 2
  MaxChanges = 2
  MaxQueued = 2
  MaxOffstage = 0
INVARIANT SpriteFollowsTransform
