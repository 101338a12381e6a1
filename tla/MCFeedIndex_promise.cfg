SPECIFICATION FairSpec
CONSTANTS
  a = a
  b = b
  c = c
  d = d
  p1 = p1
  p2 = p2
  r1 = r1
  Serve = Serve
  None = None
  Keys <- MCKeys
  Pushers <- MCPushers
  Readers <- NoReaders
  Cap = 2
  PageSize = 1
  MaxPushes = 3
  MaxCrashes = 1
PROPERTIES KeepsPromise PushReturns PushedIsShown
