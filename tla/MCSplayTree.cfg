\* Every sequence of accesses to five keys.
SPECIFICATION Spec
CONSTANTS
  Keys <- MCKeys
INVARIANTS
  Ordered
  SpareUsedOnce
PROPERTIES
  AccessEnds
  ImplementsMap
