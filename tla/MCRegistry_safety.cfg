SPECIFICATION FairSpec
CONSTANTS
  g1 = g1
  c1 = c1
  c2 = c2
  k1 = k1
  k2 = k2
  Missing = Missing
  None = None
  Gateways = {g1, g2}
  Configured = {g1, g2}
  Contents = {c1, c2}
  Commits = {k1, k2}
  Checkouts <- AllFiles
  Images <- Upgrade
  Evals = {1}
  Runs = {r1}
  MaxAbandoned = 1
INVARIANTS TypeOK KnownContentsAreBound RunsCarryTheirVersions
PROPERTY StartupsEnd
CHECK_DEADLOCK FALSE
