---------------------------- MODULE MCAnchoring -----------------------------
(* Instances of Anchoring for TLC. *)
EXTENDS Anchoring, TLC

CONSTANTS w1, w2, w3, u1, u2

MCRows2 == {w1, w2}
MCRows3 == {w1, w2, w3}
MCSymmetry == Permutations(Rows) \cup Permutations(Runs)

=============================================================================
