\* Both caches in use: four entries, five references, one signal at a time.
SPECIFICATION JointSpec
CONSTANTS
  Blocks <- MCBlocks
  EndState <- MCEndState
  RefNum <- MCRefNum
  BBMax = 4
  MemMax = 5
  MemAddr = TRUE
  SigMax = 1
  DepthMax = 1
  NodeMax = 2
  NULL = NULL
INVARIANTS
  TypeOK
  CallbacksInOrder
  AllReported
  DrainsToPath
\* The thread ends, or crashes.
CHECK_DEADLOCK FALSE
