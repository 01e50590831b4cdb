CONSTANTS
  w1 = w1  w2 = w2  w3 = w3  u1 = u1  u2 = u2  Global = Global
  Rows <- MCRows2
  Runs = {u1}
  Loops = {l1}
  Triggers = {p1}
  Skews = {0}
  Untils = {2}
  MaxLeaves = 0
  MaxClock = 2
  MaxOrphans = 1
SPECIFICATION Spec
INVARIANT NoRowMissed
CHECK_DEADLOCK FALSE
