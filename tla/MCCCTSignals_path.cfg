\* One signal, every block and the restorer instrumented.
SPECIFICATION JointSpec
CONSTANTS
  Threads = {t1}
  Blocks <- MCBlocks
  SlotNum <- MCSlotNum
  EndState <- MCEndState
  SlotPc <- MCSlotPc
  HandleMax = 8
  DepthMax = 3
  RestorerEnds = {"other"}
  ThreadMax = 1
  SigMax = 1
  NULL = NULL
INVARIANT
  PathIsCallStack
CHECK_DEADLOCK FALSE
