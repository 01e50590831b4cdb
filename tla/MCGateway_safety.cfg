CONSTANTS
  a1 = a1  t1 = t1  t2 = t2  q1 = q1  q2 = q2  d1 = d1  g1 = g1
  c1 = c1  c2 = c2
  Handlers = {a1, t1, t2, q1, q2}
  Identified = {t1, q1}
  Stamped = TRUE
  Entries <- MCEntries
  Approvals = {a1}
  Deciders = {d1}
  Gateways = {g1}
  ToolCalls = {t1, t2}
  Routed = {t1}
  MaxEffects <- MCEffects
  Retrievals = {q1, q2}
  Backed = {q1}
  Contents = {c1, c2}
  MaxDocs = 2
  MaxRequests = 2
SPECIFICATION FairSpec
INVARIANTS TypeOK RowsFollowEvents ResultsAreFetchable DossierMissesOnlyNewer
PROPERTIES CallsAreWitnessed ProxiedCallsEnd RetrievalsAreWitnessed RetrievalsEnd
CHECK_DEADLOCK FALSE
