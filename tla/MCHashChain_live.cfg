CONSTANTS
  r1 = r1  r2 = r2  r3 = r3  ev = ev  ha = ha  u1 = u1  u2 = u2
  Requests <- MCRequests
  Tables = {ev}
  Events = ev
  CallerIds = {}
  Runs = {u1, u2}
  Ids = {1, 2, 3}
  Keys <- MCCollidingKeys
  RunKey <- MCCollidingRunKey
  ChainKey <- MCCollidingChainKey
  LegacyRows <- MCLegacyRows
  MaxClock = 1

SPECIFICATION FairSpec
PROPERTY EveryRequestEnds
CHECK_DEADLOCK FALSE
