CONSTANTS
  Proc = {p1, p2, p3}
  Value = {a, b}
  NoValue = none
  NPAGES = 20
  KernelPages = {3, 8, 17}
  MaxCalls = 4
SPECIFICATION Spec
SYMMETRY Symmetry
VIEW View
CHECK_DEADLOCK FALSE
INVARIANT RefsExact
PROPERTY ImplementsMemory
