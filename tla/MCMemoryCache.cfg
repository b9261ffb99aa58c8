\* Four threads that start, use and return objects of two pages.
SPECIFICATION Spec
CONSTANTS
  Threads = {t1, t2, t3, t4}
  PageNum = 2
  PageSize = 12
  MinNum = 4
  DebrisMin = 2
SYMMETRY Symmetry
INVARIANTS
  TypeOK
  HandedOnce
  FramesFit
  LossBounded
\* The threads end, or the pages run out.
CHECK_DEADLOCK FALSE
