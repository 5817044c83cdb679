CONSTANTS
  Proc = {p1, p2}
  NFD = 3
  BUFSIZE = 2
  MaxTyped = 3
  MaxLost = 1
  MaxOpens = 3
SPECIFICATION Spec
SYMMETRY Symmetry
CHECK_DEADLOCK FALSE
INVARIANTS CountsExact AssertionsHold KeysInOrder NoKeyMissed
