\* No signals: the tree of every thread tracks its program's call stack.
SPECIFICATION Spec
CONSTANTS
  Threads = {t1, t2}
  Blocks <- MCBlocks
  SlotNum <- MCSlotNum
  EndState <- MCEndState
  SlotPc <- MCSlotPc
  HandleMax = 10
  ThreadMax = 2
  SigMax = 0
  NULL = NULL
INVARIANTS
  QueriesAgree
  CallerNeverNull
PROPERTIES
  StableHandles
  TracksCallStack
\* A thread that ran out of handles or ended takes no further step.
CHECK_DEADLOCK FALSE
