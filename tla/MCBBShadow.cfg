\* Three threads build blocks, again and again, until the shadows run out.
SPECIFICATION Spec
CONSTANTS
  Threads = {t1, t2, t3}
  NoThread = NoThread
  a1 = a1
  a2 = a2
  b = b
  c = c
  d = d
  Blocks <- MCBlocks
  TagOf <- MCTagOf
  SlotNum <- MCSlotNum
  Unset = Unset
  PageNum = 2
  PageSize = 2
INVARIANTS
  TypeOK
  OneKeyPerBlock
  ShadowsStored
  SlotsResolve
\* The process exits when the shadows run out.
CHECK_DEADLOCK FALSE
