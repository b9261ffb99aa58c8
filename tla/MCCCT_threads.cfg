\* Two threads, one signal each: allocation, publication and registration race.
SPECIFICATION Spec
CONSTANTS
  Threads = {t1, t2}
  Blocks <- MCBlocks
  SlotNum <- MCSlotNum
  EndState <- MCEndState
  SlotPc <- MCSlotPc
  HandleMax = 8
  ThreadMax = 2
  SigMax = 1
  NULL = NULL
SYMMETRY Symmetry
INVARIANTS
  TypeOK
  HandleRangesDisjoint
  HandlesResolve
  OneNodePerCallPath
  CallersAreCallSites
  CallerWalkDescends
  RootNamesOwner
\* A thread that ran out of handles, crashed or ended takes no further step.
CHECK_DEADLOCK FALSE
