CONSTANTS
  a1 = a1  a2 = a2  d1 = d1  d2 = d2  g1 = g1  g2 = g2
  Handlers = {a1, a2}
  Approvals = {a1, a2}
  Identified = {a2}
  Stamped = TRUE
  Entries <- MCEntries
  Deciders = {d1, d2}
  Gateways = {g1, g2}

SPECIFICATION FairApprovalSpec
INVARIANTS WaiterIsReachable FirstDecideWins CallerRunsAreLeftAlone
PROPERTIES DecisionsAreWitnessed ResolvedRequestsEnd
CHECK_DEADLOCK FALSE
