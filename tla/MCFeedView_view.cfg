SPECIFICATION ViewFairSpec
CONSTANTS
  ann = ann
  bob = bob
  cid = cid
  dan = dan
  eve = eve
  Viewer = ann
  Friend = bob
  Fans <- ThreeFans
  Placeholder = Placeholder
  None = None
  Limit = 2
  Earlier = {0, 2}
  MaxOpen = 2
  MaxPolls = 1
  MaxEvents = 2
INVARIANTS ViewTypeOK ShownOnce ExpandedStays
PROPERTIES EditFormKept CommentsSettle LikesSettle LikesExpand
CHECK_DEADLOCK FALSE
