SPECIFICATION Spec
CONSTANTS
  Threads = {t1, t2}
  Slots1 = {0, 1}
  Slots2 = {0, 1}
  PageSize = 2
  Tables = {1, 2, 3}
  PageNames = {1, 2, 3, 4, 5}
  None = None
  Unknown = Unknown
  Clients = {c1, c2}
  Sizes = {2, 7}
  Contexts = {h1, h2}
  LenMod = 4
  Modules = {m1, m2}
  Symbols <- MCSymbols
  PoolMax = 3
  MaxNest = 2
  MaxCalls = 2
  Places = {1, 3}
  Bases = {1}
  m1 = m1
  m2 = m2
INVARIANTS TypeOK MemoryOwned ObjectsAttributed
PROPERTY ImplementsMap
SYMMETRY Symm
CHECK_DEADLOCK FALSE
