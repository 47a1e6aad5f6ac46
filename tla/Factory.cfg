SPECIFICATION FairSpec
CONSTANTS
  leaf = leaf
  base = base
  derived = derived
  missing = missing
  sprite = sprite
  transform = transform
  x = x
  y = y
  Threads = {t1, t2}
  Names <- FourNames
  Catalogue <- SmallCatalogue
  CHILDREN = CHILDREN
  PARENT = PARENT
  Identifier = Identifier
  None = None
  MaxDefinitions = 3
  MaxEntities = 2
INVARIANTS RequestsSound BuiltAsDefined
PROPERTIES CreationReturns
CHECK_DEADLOCK FALSE
