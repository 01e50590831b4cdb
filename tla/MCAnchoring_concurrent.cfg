CONSTANTS
  w1 = w1  w2 = w2  w3 = w3  u1 = u1  u2 = u2  Global = Global
  Rows <- MCRows2
  Runs = {u1, u2}
  Loops = {l1}
  Triggers = {p1}
  Skews = {1}
  Untils = {}
  MaxLeaves = 0
  MaxClock = 2
  MaxOrphans = 1
SYMMETRY MCSymmetry
SPECIFICATION Spec
INVARIANTS AnchorIsReceipt MissedRowsAreLate AnchoredOnceUnlessOverlapped
CHECK_DEADLOCK FALSE
