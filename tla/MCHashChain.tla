---------------------------- MODULE MCHashChain -----------------------------
(* Instances of HashChain for TLC, which also checks CanonicalEncoding, the  *)
(* ground for naming the hash of a row by the row.                           *)
EXTENDS HashChain, CanonicalEncoding, TLC

CONSTANTS r1, r2, r3, ev, ha, u1, u2

MCRequests == {r1, r2, r3}
MCSymmetry == Permutations(MCRequests) \cup Permutations(Runs)

\* Keys that never collide: one per run and one per chain.
MCDistinctKeys == Runs \cup (Tables \X Runs)
MCDistinctRunKey == [u \in Runs |-> u]
MCDistinctChainKey == [c \in Tables \X Runs |-> c]

\* The XOR fold lets the run key of u1 be the events key of u2 and conversely.
MCCollidingKeys == {1, 2}
MCCollidingRunKey == [u \in Runs |-> IF u = u1 THEN 1 ELSE 2]
MCCollidingChainKey == [c \in Tables \X Runs |-> IF c[2] = u1 THEN 2 ELSE 1]

\* One event of each run predates the chain migration.
MCLegacyRows == [c \in Tables \X Runs |-> IF c[1] = ev THEN 1 ELSE 0]
=============================================================================
