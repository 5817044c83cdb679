CONSTANTS
  NPAGES = 6
  User = {u1, u2, u3, u4}
  Sizes = {1, 2, 3}
  AfterTail = 3
SPECIFICATION Spec
CHECK_DEADLOCK FALSE
INVARIANTS HeldApart
