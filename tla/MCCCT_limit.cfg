\* Two threads where the limit is one.
SPECIFICATION Spec
CONSTANTS
  Threads = {t1, t2}
  Blocks <- MCBlocks
  SlotNum <- MCSlotNum
  EndState <- MCEndState
  SlotPc <- MCSlotPc
  HandleMax = 8
  ThreadMax = 1
  SigMax = 0
  NULL = NULL
INVARIANT
  ThreadsWithinLimit
CHECK_DEADLOCK FALSE
