SPECIFICATION FairSpec
CONSTANTS
  MaxPid = 7
  MaxProcess = 6
INVARIANTS GapFree Unique
PROPERTIES PidInTurn GetPidReturns
