SPECIFICATION FairSpec
CONSTANTS
  Readers = {r1}
  Writers = {w1, w2}
  PIPESIZE = 2
  W = 4
  Bytes = {x, y}
  MaxN = 3
  Killable = {r1}
CHECK_DEADLOCK FALSE
INVARIANT ReaderAwake
PROPERTIES IsFifo HangupReturns
