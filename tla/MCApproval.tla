----------------------------- MODULE MCApproval -----------------------------
\* Small instances of Approval for TLC.
EXTENDS Approval, TLC

CONSTANTS a1, a2, d1, d2, g1, g2

MCEntries == ApprovalEntries
MCSymmetry == Permutations({d1, d2}) \cup Permutations({g1, g2})

=============================================================================
