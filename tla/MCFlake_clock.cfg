SPECIFICATION FairSpec
CONSTANTS
  c1 = c1
  c2 = c2
  Callers = {c1, c2}
  Wrap = 3
  MaxTime = 4
  MaxIds = 4
  MaxBacks = 2
  MaxStarts = 2
INVARIANT LaterIsGreater
PROPERTIES NextIdReturns
CHECK_DEADLOCK FALSE
