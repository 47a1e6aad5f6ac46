CONSTANTS
  b1 = b1
  b2 = b2
  b3 = b3
  b4 = b4
  Threads = {t1, t2}
  Blocks = {b1, b2, b3, b4}
  Null = Null
  InitialBlocks <- OneBlock
  MAX_SIZE = 2
  Sizes = {1, 2}
  MaxGiven = 3
  Objects = {o1, o2}
  LinearMaxSize = 3
  LinearSizes = {1, 2, 3}
  InitialCounts = {1, 2}
SPECIFICATION EitherSpec
INVARIANTS
  NoOverlap
  NoUseAfterFree
  QuietListSound
  LinearStorageSound
PROPERTY AllocateReturns
