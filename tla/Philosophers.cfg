SPECIFICATION FairSpec
CONSTANTS
  N = 4
  TIMES = 2
  Nobody = Nobody
INVARIANTS NeighboursApart MonitorHeld
PROPERTIES SignalHandsOver AllQuit
