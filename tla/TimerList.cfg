SPECIFICATION FairTimers
CONSTANTS
  Proc = {p1, p2, p3}
  MaxTime = 5
PROPERTIES TimersOnTime TimersEnd
