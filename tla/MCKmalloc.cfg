CONSTANTS
  NPAGES = 4
  Direct = {u1, u2}
  User = {0, 1, 2, 3, u1, u2}
  Sizes = {1, 2}
  AfterTail = 0
  Caller = {c1, c2}
  PAGE_SIZE = 8
  SLOB_UNIT = 2
  BIGBLOCK = 3
  Requests = {1, 3, 4, 8, 9}
SPECIFICATION HeapSpec
SYMMETRY Symmetry
CHECK_DEADLOCK FALSE
INVARIANTS EveryPageOnce RefusedForWant EveryUnitOnce EnoughForAll
