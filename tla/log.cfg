SPECIFICATION FairSpec
CONSTANTS
  Ops = {o1, o2, o3}
  Blocks = {b1, b2, b3}
  Vals = {x, y}
  MAXOPBLOCKS = 2
  LOGSIZE = 4
  NLOG = 4
  OpBlocks = 1
INVARIANT NoLogPanic
PROPERTIES Atomic SleeperWakes
