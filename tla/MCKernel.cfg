SPECIFICATION Spec
CONSTANTS
  User = {u1, u2, u3}
  KThread = {k1}
  Idle = idle
  Init = init
  NoProc = NoProc
  MaxProcess = 5
  MaxSlice = 2
  MaxSleep = 2
SYMMETRY Sym
INVARIANTS TypeOK RunQueueExact NoLostWakeup ProcessTree TimerOwned AssertionsHold
PROPERTIES ZombieReapedByParent WakeupHasCause
