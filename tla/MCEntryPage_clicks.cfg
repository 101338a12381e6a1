SPECIFICATION PageSpec
CONSTANTS
  ann = ann
  bob = bob
  cid = cid
  dan = dan
  eve = eve
  Viewer = ann
  Friend = bob
  Fans <- TwoFans
  Placeholder = Placeholder
  None = None
  Limit = 2
  Earlier = {0,2,3}
  MaxOpen = 3
  MaxEvents = 4
INVARIANTS PageTypeOK LinkAgrees PostedOnce
CHECK_DEADLOCK FALSE
