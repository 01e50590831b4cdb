CONSTANTS
  l1 = l1  l2 = l2  x1 = x1  x2 = x2  d1 = d1  k1 = k1  k2 = k2
  None = None  Malformed = Malformed
  Replicas <- MCReplicas
  Exports <- MCExports
  Dossiers <- MCDossiers
  Evidence <- MCEvidence
  Resolvable <- MCResolvable
  Keys <- MCKeys
  Times <- MCTimes
  MaxStops = 1
  MaxRequests = 2
SYMMETRY MCSymmetry
SPECIFICATION Spec
INVARIANTS TypeOK ExportIsBracketed BundlesAreReproducible DossierResolvesOlder
CHECK_DEADLOCK FALSE
