----------------------------- MODULE MerkleTree -----------------------------
(***************************************************************************)
(* The tree an anchor commits to (chain-core/merkle.rs) and the check the  *)
(* offline verifier makes of it (verifier/anchor.rs).                      *)
(*                                                                         *)
(* A hash is represented by the term it is taken of, which is what its     *)
(* being collision free means.  The signature over the manifest is left    *)
(* out: the manifest verified is the one that was signed.                  *)
(***************************************************************************)
EXTENDS Naturals, Sequences, SequencesExt

CONSTANTS
  Rows,       \* chained rows that writers may insert, named by their row_hash
  MaxLeaves   \* bound on the leaves of the lists a verifier is given

ASSUME MaxLeavesAssumption == MaxLeaves \in Nat

LeafHash(r) == <<"leaf", r>>
NodeHash(left, right) == <<"node", left, right>>

\* One round of the loop: neighbours are combined, an odd last node with itself.
Parents(level) ==
  [ i \in 1 .. (Len(level) + 1) \div 2 |->
      NodeHash(level[2 * i - 1], IF 2 * i <= Len(level) THEN level[2 * i] ELSE level[2 * i - 1]) ]

\* The levels of the tree, as the rounds of the loop leave them.
Levels(rowHashes) ==
  LET level[k \in Nat] == IF k = 0 THEN [ i \in DOMAIN rowHashes |-> LeafHash(rowHashes[i]) ]
                          ELSE Parents(level[k - 1])
  IN  level

\* compute_root: rounds until one node is left.
ComputeRoot(rowHashes) ==
  LET level == Levels(rowHashes)
      rounds == CHOOSE k \in 0 .. Len(rowHashes) :
                  Len(level[k]) = 1 /\ \A j \in 0 .. k - 1 : Len(level[j]) > 1
  IN  level[rounds][1]

\* What anchor_tick signs of the leaves it collected.
SignedManifest(rowHashes) == [root_hash |-> ComputeRoot(rowHashes), leaf_count |-> Len(rowHashes)]

\* Mutant of VerifyAnchor: the leaf count is not compared.
VerifyAnchorAnyCount(manifest, rowHashes) ==
  rowHashes # <<>> /\ ComputeRoot(rowHashes) = manifest.root_hash

VerifyAnchor(manifest, rowHashes) ==
  /\ manifest.leaf_count = Len(rowHashes)
  /\ rowHashes # <<>>
  /\ ComputeRoot(rowHashes) = manifest.root_hash

\* The leaf lists a verifier may be given.
LeafLists == BoundedSeq(Rows, MaxLeaves)

=============================================================================
