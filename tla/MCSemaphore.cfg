SPECIFICATION Spec
CONSTANTS
  Thread = {p1, p2, p3}
  Mutex = Mutex
  Slots = Slots
  Sem <- MCSem
  InitialValue <- MCInitialValue
  NoSem = NoSem
  Nobody = Nobody
  MaxValue = 2
SYMMETRY Sym
CHECK_DEADLOCK FALSE
INVARIANTS QueueExact AssertionsHold
PROPERTY InTurn
