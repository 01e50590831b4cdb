CONSTANTS
  w1 = w1  w2 = w2  w3 = w3  u1 = u1  u2 = u2  Global = Global
  Rows <- MCRows3
  Runs = {u1}
  Loops = {l1}
  Triggers = {}
  Skews = {0, 1}
  Untils = {}
  MaxLeaves = 4
  MaxClock = 2
  MaxOrphans = 1

SPECIFICATION FairSpec
INVARIANTS TypeOK WindowsAbut
PROPERTIES AnchorBindsItsLeaves RowsGetAnchored
CHECK_DEADLOCK FALSE
