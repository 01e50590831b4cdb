CONSTANTS
  r1 = r1  r2 = r2  r3 = r3  ev = ev  ha = ha  u1 = u1  u2 = u2
  Requests <- MCRequests
  Tables = {ev, ha}
  Events = ev
  CallerIds = {ha}
  Runs = {u1, u2}
  Ids = {1, 2, 3}
  Keys <- MCDistinctKeys
  RunKey <- MCDistinctRunKey
  ChainKey <- MCDistinctChainKey
  LegacyRows <- MCLegacyRows
  MaxClock = 1
SYMMETRY MCSymmetry
SPECIFICATION Spec
INVARIANTS TypeOK LinkNotStale SeqConsecutive RootedTree LinearUnlessOvertaken
PROPERTY AppendsAtomically
CHECK_DEADLOCK FALSE
