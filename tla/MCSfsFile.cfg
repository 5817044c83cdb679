SPECIFICATION Spec
CONSTANTS
  File = {f1, f2}
  Handle = {g, h}
  Block = {1, 2, 3}
  Value = {v}
  BLKSIZE = 2
  NDIRECT = 1
  NENTRY = 2
  IOBUF_SIZE = 2
  SeekTo = {1, 6}
INVARIANTS BlocksOwned CleanInodeOnDisk AssertionsHold
PROPERTY ImplementsFiles
SYMMETRY Symmetry
CHECK_DEADLOCK FALSE
