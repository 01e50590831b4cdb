---------------------------- MODULE MCCaseExport ----------------------------
(* Instances of CaseExport for TLC. *)
EXTENDS CaseExport, TLC

CONSTANTS l1, l2, x1, x2, d1, k1, k2

MCReplicas == {l1, l2}
MCExports == {x1, x2}
MCDossiers == {d1}
MCEvidence == {1, 2}
MCResolvable == {1}
MCKeys == {k1, k2}
MCTimes == {1}

\* Replicas, exports and keys are interchangeable: none is named or ordered.
MCSymmetry == Permutations(MCReplicas) \cup Permutations(MCExports) \cup Permutations(MCKeys)

=============================================================================
