SPECIFICATION Spec
CONSTANTS
  a = a
  b = b
  c = c
  d = d
  p1 = p1
  p2 = p2
  r1 = r1
  Serve = Serve
  None = None
  Keys <- FourKeys
  Pushers <- OnePusher
  Readers <- MCReaders
  Cap = 3
  PageSize = 2
  MaxPushes = 4
  MaxCrashes = 1
INVARIANTS TypeOK QueuedIsDirty NoPanic NothingSkipped
SYMMETRY Symmetry
