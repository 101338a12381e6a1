SPECIFICATION Spec
CONSTANTS
  h1 = h1
  h2 = h2
  e1 = e1
  e2 = e2
  e3 = e3
  e4 = e4
  ann = ann
  bob = bob
  c1 = c1
  None = None
  NoDate = NoDate
  Handlers = {h1, h2}
  Entries <- MCEntries
  Users <- MCUsers
  CommentIds = {c1}
  Author <- AnnWrites
  Second <- OneUndated
  MaxSecond = 2
  Remote <- MCRemote
  MaxCalls = 4
  MaxCrashes = 1
SYMMETRY Symmetry
INVARIANTS TypeOK NothingTwice KeysHaveEntries ListedUnlessCut SerialUnlessRaced
CHECK_DEADLOCK FALSE
