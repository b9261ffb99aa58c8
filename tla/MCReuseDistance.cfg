SPECIFICATION Spec
CONSTANTS
  Unite = 8
  Sample = 3
  BufferSize = 2
  TopN = 2
  Thres = 2
  MinCount = 1
  Blocks <- MCBlocks
  Objects <- MCObjects
  FirstOwner <- MCFirstOwner
  Junk <- MCJunk
  MaxRefs = 11
  MaxMishaps = 1
  Lists <- MCLists
INVARIANTS BufferFits ReusesCounted ReportsTopN
CHECK_DEADLOCK FALSE
