SPECIFICATION FairSpec
CONSTANTS
  User = {u1, u2}
  KThread = {k1}
  Idle = idle
  Init = init
  NoProc = NoProc
  MaxProcess = 5
  MaxSlice = 1
  MaxSleep = 1
PROPERTY KilledExits
