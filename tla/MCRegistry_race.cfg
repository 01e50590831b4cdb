SPECIFICATION Spec
CONSTANTS
  g1 = g1
  c1 = c1
  c2 = c2
  k1 = k1
  k2 = k2
  Missing = Missing
  None = None
  Gateways = {g1, g2}
  Configured = {g1, g2}
  Contents = {c1, c2}
  Commits = {k1, k2}
  Checkouts <- OldFiles
  Images <- OneImage
  Evals = {1}
  Runs = {r1}
  MaxAbandoned = 1
INVARIANT StartupIsIdempotent
