\* One thread, up to two pending signals: what the save slot does restore.
SPECIFICATION JointSpec
CONSTANTS
  Threads = {t1}
  Blocks <- MCBlocks
  SlotNum <- MCSlotNum
  EndState <- MCEndState
  SlotPc <- MCSlotPc
  HandleMax = 8
  DepthMax = 3
  RestorerEnds = {"ret", "other"}
  ThreadMax = 1
  SigMax = 2
  NULL = NULL
INVARIANTS
  PlainSignalsKeepPath
\* A thread that ran out of handles, crashed or ended takes no further step.
CHECK_DEADLOCK FALSE
