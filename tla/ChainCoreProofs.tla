-------------------------- MODULE ChainCoreProofs ---------------------------
(***************************************************************************)
(* Proofs about what chain-core computes: the root of a Merkle tree, and   *)
(* the bytes a row is hashed over.                                         *)
(***************************************************************************)
EXTENDS MerkleTree, RowEncoding, FiniteSetTheorems, SequenceTheorems, WellFoundedInduction, TLAPS

-----------------------------------------------------------------------------
(* Least numbers, which stand in for induction *)

LEMMA LeastNumber ==
  ASSUME NEW T, T \subseteq Nat, T # {}
  PROVE  \E x \in T : \A y \in T : x <= y
<1>1. IsWellFoundedOn(OpToRel(<, Nat), Nat)
  BY NatLessThanWellFounded
<1>2. \E x \in T : \A y \in T : ~ (<<y, x>> \in OpToRel(<, Nat))
  BY <1>1, WFMin
<1>3. PICK x \in T : \A y \in T : ~ (<<y, x>> \in OpToRel(<, Nat))
  BY <1>2
<1>4. \A y \in T : ~ (y < x)
  BY <1>3 DEF OpToRel
<1>. QED
  BY <1>4

\* A set of numbers that has 0, and with every number the next, has them all.
LEMMA Induction ==
  ASSUME NEW T, 0 \in T, \A n \in Nat : n \in T => n + 1 \in T
  PROVE  Nat \subseteq T
<1>1. SUFFICES ASSUME Nat \ T # {} PROVE FALSE
  OBVIOUS
<1>2. PICK n \in Nat \ T : \A m \in Nat \ T : n <= m
  BY <1>1, LeastNumber
<1>3. n - 1 \in Nat /\ n - 1 \in T
  BY <1>2
<1>. QED
  BY <1>2, <1>3

-----------------------------------------------------------------------------
(* The Merkle tree *)

\* The recursion of Levels has a solution.
LEMMA LevelsAre ==
  ASSUME NEW rows
  PROVE  /\ Levels(rows)[0] = [i \in DOMAIN rows |-> LeafHash(rows[i])]
         /\ \A k \in Nat : Levels(rows)[k + 1] = Parents(Levels(rows)[k])
<1> DEFINE Base == [i \in DOMAIN rows |-> LeafHash(rows[i])]
           Upto(n, g) == g = [k \in 0 .. n |-> IF k = 0 THEN Base ELSE Parents(g[k - 1])]
           Found == { n \in Nat : \E g : Upto(n, g) }
<1>1. ASSUME NEW n \in Nat, NEW m \in Nat, NEW g, NEW h, Upto(n, g), Upto(m, h)
      PROVE  \A k \in Nat : k <= n /\ k <= m => g[k] = h[k]
  <2> DEFINE Same == { k \in Nat : k <= n /\ k <= m => g[k] = h[k] }
  <2>1. 0 \in Same
    BY <1>1
  <2>2. ASSUME NEW k \in Nat, k \in Same
        PROVE  k + 1 \in Same
    <3>1. SUFFICES ASSUME k + 1 <= n, k + 1 <= m PROVE g[k + 1] = h[k + 1]
      OBVIOUS
    <3>2. g[k] = h[k]
      BY <2>2, <3>1
    <3>3. k + 1 \in 0 .. n /\ k + 1 \in 0 .. m /\ k + 1 # 0 /\ (k + 1) - 1 = k
      BY <3>1
    <3>4. g[k + 1] = Parents(g[k]) /\ h[k + 1] = Parents(h[k])
      BY <1>1, <3>3
    <3>. QED
      BY <3>2, <3>4
  <2>. QED
    BY <2>1, <2>2, Induction
<1>2. Nat \subseteq Found
  <2>1. 0 \in Found
    <3>1. Upto(0, [k \in 0 .. 0 |-> Base])
      OBVIOUS
    <3>. QED
      BY <3>1
  <2>2. ASSUME NEW n \in Nat, n \in Found
        PROVE  n + 1 \in Found
    <3>1. PICK g : Upto(n, g)
      BY <2>2
    <3>2. PICK h : h = [k \in 0 .. n + 1 |-> IF k = 0 THEN Base ELSE Parents(g[k - 1])]
      OBVIOUS
    <3>3. \A k \in 0 .. n : h[k] = g[k]
      BY <3>1, <3>2
    <3>4. \A k \in 0 .. n + 1 : k # 0 => k - 1 \in 0 .. n
      OBVIOUS
    <3>5. Upto(n + 1, h)
      BY <3>2, <3>3, <3>4
    <3>. QED
      BY <3>5
  <2>. QED
    BY <2>1, <2>2, Induction
<1>. HIDE DEF Upto
<1>3. PICK up : up = [n \in Nat |-> CHOOSE g : Upto(n, g)]
  OBVIOUS
<1>4. \A n \in Nat : Upto(n, up[n])
  BY <1>2, <1>3
<1>5. PICK f : f = [n \in Nat |-> up[n][n]]
  OBVIOUS
<1>6. f[0] = Base
  <2>1. Upto(0, up[0]) /\ 0 \in 0 .. 0
    BY <1>4
  <2>2. up[0][0] = Base
    BY <2>1 DEF Upto
  <2>. QED
    BY <1>5, <2>2
<1>7. ASSUME NEW k \in Nat
      PROVE  f[k + 1] = Parents(f[k])
  <2>1. Upto(k, up[k]) /\ Upto(k + 1, up[k + 1])
    BY <1>4
  <2>2. up[k][k] = up[k + 1][k]
    <3>1. k + 1 \in Nat /\ k <= k /\ k <= k + 1
      OBVIOUS
    <3>. QED
      BY <1>1, <2>1, <3>1
  <2>3. k + 1 \in 0 .. k + 1 /\ k + 1 # 0 /\ (k + 1) - 1 = k
    OBVIOUS
  <2>4. up[k + 1][k + 1] = Parents(up[k + 1][k])
    BY <2>1, <2>3 DEF Upto
  <2>. QED
    BY <1>5, <2>2, <2>4
<1>8. f = [k \in Nat |-> IF k = 0 THEN Base ELSE Parents(f[k - 1])]
  <2>1. ASSUME NEW k \in Nat
        PROVE  f[k] = IF k = 0 THEN Base ELSE Parents(f[k - 1])
    <3>1. CASE k = 0
      BY <1>6, <3>1
    <3>2. CASE k # 0
      <4>1. k - 1 \in Nat /\ (k - 1) + 1 = k
        BY <3>2
      <4>. QED
        BY <1>7, <3>2, <4>1
    <3>. QED
      BY <3>1, <3>2
  <2>. QED
    BY <1>5, <2>1
<1>9. Levels(rows) = CHOOSE g : g = [k \in Nat |-> IF k = 0 THEN Base ELSE Parents(g[k - 1])]
  BY DEF Levels
<1>10. PICK l : l = Levels(rows)
  OBVIOUS
<1>11. l = [k \in Nat |-> IF k = 0 THEN Base ELSE Parents(l[k - 1])]
  BY <1>8, <1>9, <1>10
<1>12. l[0] = Base
  BY <1>11
<1>13. ASSUME NEW k \in Nat
       PROVE  l[k + 1] = Parents(l[k])
  <2>1. k + 1 \in Nat /\ k + 1 # 0 /\ (k + 1) - 1 = k
    OBVIOUS
  <2>. QED
    BY <1>11, <2>1
<1>. QED
  BY <1>10, <1>12, <1>13


\* A list of n entries, of whatever kind.
IsList(l, n) == n \in Nat /\ l = [i \in 1 .. n |-> l[i]]

LEMMA ListLength ==
  ASSUME NEW n, NEW l, IsList(l, n)
  PROVE  n \in Nat /\ Len(l) = n /\ DOMAIN l = 1 .. n
<1>1. n \in Nat /\ l = [i \in 1 .. n |-> l[i]]
  BY DEF IsList
<1>2. l \in Seq({ l[i] : i \in 1 .. n })
  BY <1>1
<1>. QED
  BY <1>1, <1>2

LEMMA ListsAgree ==
  ASSUME NEW n, NEW l, NEW m, IsList(l, n), IsList(m, n), \A i \in 1 .. n : l[i] = m[i]
  PROVE  l = m
  BY DEF IsList

\* A round halves a level, rounding up.
LEMMA ParentsHalve ==
  ASSUME NEW n, NEW l, IsList(l, n)
  PROVE  IsList(Parents(l), (n + 1) \div 2)
<1>1. Len(l) = n /\ n \in Nat /\ (n + 1) \div 2 \in Nat
  BY ListLength
<1>. QED
  BY <1>1 DEF Parents, IsList

\* A round loses nothing of a level whose length is known.
LEMMA ParentsBind ==
  ASSUME NEW n, NEW l, NEW m, IsList(l, n), IsList(m, n), Parents(l) = Parents(m)
  PROVE  l = m
<1>1. n \in Nat /\ Len(l) = n /\ Len(m) = n
  BY ListLength
<1>2. ASSUME NEW j \in 1 .. (n + 1) \div 2
      PROVE  /\ l[2 * j - 1] = m[2 * j - 1]
             /\ 2 * j <= n => l[2 * j] = m[2 * j]
  <2>1. Parents(l)[j] = NodeHash(l[2 * j - 1], IF 2 * j <= n THEN l[2 * j] ELSE l[2 * j - 1])
    BY <1>1 DEF Parents
  <2>2. Parents(m)[j] = NodeHash(m[2 * j - 1], IF 2 * j <= n THEN m[2 * j] ELSE m[2 * j - 1])
    BY <1>1 DEF Parents
  <2>. QED
    BY <2>1, <2>2 DEF NodeHash
<1>3. ASSUME NEW i \in 1 .. n
      PROVE  l[i] = m[i]
  <2>1. PICK j \in 1 .. (n + 1) \div 2 : i = 2 * j - 1 \/ i = 2 * j
    <3>1. (i + 1) \div 2 \in 1 .. (n + 1) \div 2
      BY <1>1
    <3>2. i = 2 * ((i + 1) \div 2) - 1 \/ i = 2 * ((i + 1) \div 2)
      BY <1>1
    <3>. QED
      BY <3>1, <3>2
  <2>. QED
    BY <1>1, <1>2, <2>1
<1>. QED
  BY <1>3, ListsAgree

LEMMA BottomLevel ==
  ASSUME NEW rows \in Seq(Rows)
  PROVE  IsList(Levels(rows)[0], Len(rows))
<1>1. Levels(rows)[0] = [i \in 1 .. Len(rows) |-> LeafHash(rows[i])]
  BY LevelsAre
<1>. QED
  BY <1>1 DEF IsList

\* How long a level is depends on how many leaves there are.
LEMMA LevelsMatch ==
  ASSUME NEW a \in Seq(Rows), NEW b \in Seq(Rows), Len(a) = Len(b), NEW k \in Nat
  PROVE  \E n \in Nat : IsList(Levels(a)[k], n) /\ IsList(Levels(b)[k], n)
<1> DEFINE Match == { j \in Nat : \E n \in Nat : IsList(Levels(a)[j], n) /\ IsList(Levels(b)[j], n) }
<1>1. 0 \in Match
  <2>1. IsList(Levels(a)[0], Len(a)) /\ IsList(Levels(b)[0], Len(a)) /\ Len(a) \in Nat
    BY BottomLevel
  <2>. QED
    BY <2>1
<1>2. ASSUME NEW j \in Nat, j \in Match
      PROVE  j + 1 \in Match
  <2>1. PICK n \in Nat : IsList(Levels(a)[j], n) /\ IsList(Levels(b)[j], n)
    BY <1>2
  <2>2. Levels(a)[j + 1] = Parents(Levels(a)[j]) /\ Levels(b)[j + 1] = Parents(Levels(b)[j])
    BY LevelsAre
  <2>3. (n + 1) \div 2 \in Nat
    OBVIOUS
  <2>. QED
    BY <2>1, <2>2, <2>3, ParentsHalve
<1>. QED
  BY <1>1, <1>2, Induction

\* The loop ends: as long as more than one node is left, a round leaves fewer.
LEMMA RootIsReached ==
  ASSUME NEW rows \in Seq(Rows), rows # <<>>
  PROVE  \E k \in 0 .. Len(rows) :
           /\ Len(Levels(rows)[k]) = 1 /\ \A j \in 0 .. k - 1 : Len(Levels(rows)[j]) > 1
           /\ ComputeRoot(rows) = Levels(rows)[k][1]
<1>1. PICK len : len = [k \in Nat |-> Len(Levels(rows)[k])]
  OBVIOUS
<1>2. PICK n \in Nat : n = Len(rows) /\ n > 0
  OBVIOUS
<1>3. len \in [Nat -> Nat] /\ len[0] = n /\ \A k \in Nat : len[k + 1] = (len[k] + 1) \div 2
  <2>1. len[0] = n
    BY <1>1, <1>2, BottomLevel, ListLength
  <2>2. ASSUME NEW k \in Nat
        PROVE  len[k] \in Nat /\ len[k + 1] = (len[k] + 1) \div 2
    <3>1. PICK m \in Nat : IsList(Levels(rows)[k], m)
      BY LevelsMatch
    <3>2. IsList(Levels(rows)[k + 1], (m + 1) \div 2)
      BY <3>1, LevelsAre, ParentsHalve
    <3>3. Len(Levels(rows)[k]) = m /\ Len(Levels(rows)[k + 1]) = (m + 1) \div 2
      BY <3>1, <3>2, ListLength
    <3>4. k + 1 \in Nat
      OBVIOUS
    <3>. QED
      BY <1>1, <3>3, <3>4
  <2>. QED
    BY <1>1, <2>1, <2>2
<1> DEFINE Early(k) == \A j \in 0 .. k - 1 : len[j] # 1
           Shrunk == { k \in Nat : Early(k) => len[k] >= 1 /\ len[k] <= n - k }
<1>. HIDE DEF Early
<1>4. Nat \subseteq Shrunk
  <2>1. 0 \in Shrunk
    <3>1. len[0] >= 1 /\ len[0] <= n - 0
      BY <1>2, <1>3
    <3>. QED
      BY <3>1
  <2>2. ASSUME NEW k \in Nat, k \in Shrunk
        PROVE  k + 1 \in Shrunk
    <3>1. SUFFICES ASSUME Early(k + 1) PROVE len[k + 1] >= 1 /\ len[k + 1] <= n - (k + 1)
      OBVIOUS
    <3>2. len[k] # 1 /\ Early(k)
      <4>1. k \in 0 .. (k + 1) - 1 /\ \A j \in 0 .. k - 1 : j \in 0 .. (k + 1) - 1
        OBVIOUS
      <4>. QED
        BY <3>1, <4>1 DEF Early
    <3>3. len[k] >= 2 /\ len[k] <= n - k /\ len[k] \in Nat
      <4>1. len[k] >= 1 /\ len[k] <= n - k
        BY <2>2, <3>2
      <4>2. len[k] \in Nat
        BY <1>3
      <4>. QED
        BY <3>2, <4>1, <4>2
    <3>4. len[k + 1] = (len[k] + 1) \div 2
      BY <1>3
    <3>. QED
      BY <3>3, <3>4
  <2>. QED
    BY <2>1, <2>2, Induction
<1> DEFINE Ones == { k \in Nat : len[k] = 1 }
<1>5. Ones # {}
  <2>1. SUFFICES ASSUME \A k \in Nat : len[k] # 1 PROVE FALSE
    OBVIOUS
  <2>2. n \in Shrunk /\ Early(n)
    BY <1>4, <2>1 DEF Early
  <2>3. len[n] >= 1 /\ len[n] <= n - n /\ len[n] \in Nat
    BY <1>3, <2>2
  <2>. QED
    BY <2>3
<1>6. PICK k \in Ones : \A j \in Ones : k <= j
  BY <1>5, LeastNumber
<1>7. k \in Nat /\ len[k] = 1 /\ Early(k)
  BY <1>6 DEF Early
<1>8. k \in 0 .. Len(rows)
  <2>1. k \in Shrunk
    BY <1>4
  <2>2. 1 <= n - k
    BY <1>7, <2>1
  <2>. QED
    BY <1>2, <1>7, <2>2
<1>9. ASSUME NEW j \in 0 .. k - 1
      PROVE  len[j] > 1
  <2>1. j \in Nat /\ len[j] # 1 /\ Early(j)
    BY <1>7 DEF Early
  <2>2. j \in Shrunk
    BY <1>4, <2>1
  <2>3. len[j] >= 1 /\ len[j] \in Nat
    BY <1>3, <2>1, <2>2
  <2>. QED
    BY <2>1, <2>3
<1> DEFINE Stops(r) == Len(Levels(rows)[r]) = 1 /\ \A j \in 0 .. r - 1 : Len(Levels(rows)[j]) > 1
<1>10. Stops(k)
  BY <1>1, <1>7, <1>9
<1>11. ASSUME NEW r \in 0 .. Len(rows), Stops(r)
       PROVE  r = k
  <2>1. r \in Nat /\ len[r] = 1
    BY <1>1, <1>2, <1>11
  <2>2. k <= r
    BY <1>6, <2>1
  <2>3. ~ (k < r)
    <3>1. SUFFICES ASSUME k < r PROVE FALSE
      OBVIOUS
    <3>2. k \in 0 .. r - 1
      BY <1>7, <2>1, <3>1
    <3>3. Len(Levels(rows)[k]) > 1 /\ Len(Levels(rows)[k]) = 1
      BY <1>10, <1>11, <3>2
    <3>. QED
      BY <3>3
  <2>. QED
    BY <1>7, <2>1, <2>2, <2>3
<1>. HIDE DEF Stops
<1>12. k = CHOOSE r \in 0 .. Len(rows) : Stops(r)
  BY <1>8, <1>10, <1>11
<1>13. ComputeRoot(rows) = Levels(rows)[CHOOSE r \in 0 .. Len(rows) : Stops(r)][1]
  BY DEF ComputeRoot, Stops
<1>14. ComputeRoot(rows) = Levels(rows)[k][1]
  BY <1>12, <1>13
<1>. QED
  BY <1>8, <1>10, <1>14 DEF Stops

\* Lists of one length that have one root are one list.
THEOREM RootBindsLeaves ==
  ASSUME NEW a \in Seq(Rows), NEW b \in Seq(Rows), a # <<>>, Len(a) = Len(b),
         ComputeRoot(a) = ComputeRoot(b)
  PROVE  a = b
<1>1. PICK k \in 0 .. Len(a) :
        /\ Len(Levels(a)[k]) = 1 /\ \A j \in 0 .. k - 1 : Len(Levels(a)[j]) > 1
        /\ ComputeRoot(a) = Levels(a)[k][1]
  BY RootIsReached
<1>2. PICK r \in 0 .. Len(b) :
        /\ Len(Levels(b)[r]) = 1 /\ \A j \in 0 .. r - 1 : Len(Levels(b)[j]) > 1
        /\ ComputeRoot(b) = Levels(b)[r][1]
  <2>1. b # <<>>
    OBVIOUS
  <2>. QED
    BY <2>1, RootIsReached
<1>3. k \in Nat /\ r \in Nat
  OBVIOUS
<1>4. ASSUME NEW j \in Nat
      PROVE  Len(Levels(a)[j]) = Len(Levels(b)[j])
  <2>1. PICK n \in Nat : IsList(Levels(a)[j], n) /\ IsList(Levels(b)[j], n)
    BY LevelsMatch
  <2>. QED
    BY <2>1, ListLength
<1>5. r = k
  <2>1. ASSUME k < r PROVE FALSE
    <3>1. k \in 0 .. r - 1
      BY <1>3, <2>1
    <3>2. Len(Levels(b)[k]) > 1 /\ Len(Levels(b)[k]) = 1
      BY <1>1, <1>2, <1>3, <1>4, <3>1
    <3>. QED
      BY <3>2
  <2>2. ASSUME r < k PROVE FALSE
    <3>1. r \in 0 .. k - 1
      BY <1>3, <2>2
    <3>2. Len(Levels(a)[r]) > 1 /\ Len(Levels(a)[r]) = 1
      BY <1>1, <1>2, <1>3, <1>4, <3>1
    <3>. QED
      BY <3>2
  <2>. QED
    BY <1>3, <2>1, <2>2
<1>6. Levels(a)[k] = Levels(b)[k]
  <2>1. PICK n \in Nat : IsList(Levels(a)[k], n) /\ IsList(Levels(b)[k], n)
    BY <1>3, LevelsMatch
  <2>2. n = 1
    BY <1>1, <2>1, ListLength
  <2>3. Levels(a)[k][1] = Levels(b)[k][1]
    BY <1>1, <1>2, <1>5
  <2>4. \A i \in 1 .. n : i = 1
    BY <2>2
  <2>. QED
    BY <2>1, <2>3, <2>4, ListsAgree
<1> DEFINE Same == { d \in Nat : d <= k => Levels(a)[k - d] = Levels(b)[k - d] }
<1>7. Nat \subseteq Same
  <2>1. 0 \in Same
    BY <1>3, <1>6
  <2>2. ASSUME NEW d \in Nat, d \in Same
        PROVE  d + 1 \in Same
    <3>1. SUFFICES ASSUME d + 1 <= k PROVE Levels(a)[k - (d + 1)] = Levels(b)[k - (d + 1)]
      OBVIOUS
    <3>2. PICK j \in Nat : j = k - (d + 1)
      BY <1>3, <3>1
    <3>3. j + 1 = k - d /\ d <= k
      BY <1>3, <3>1, <3>2
    <3>4. Levels(a)[j + 1] = Levels(b)[j + 1]
      BY <2>2, <3>3
    <3>5. Levels(a)[j + 1] = Parents(Levels(a)[j]) /\ Levels(b)[j + 1] = Parents(Levels(b)[j])
      BY LevelsAre
    <3>6. PICK n \in Nat : IsList(Levels(a)[j], n) /\ IsList(Levels(b)[j], n)
      BY LevelsMatch
    <3>7. Levels(a)[j] = Levels(b)[j]
      BY <3>4, <3>5, <3>6, ParentsBind
    <3>. QED
      BY <3>2, <3>7
  <2>. QED
    BY <2>1, <2>2, Induction
<1>8. Levels(a)[0] = Levels(b)[0]
  <2>1. k \in Same /\ k - k = 0 /\ k <= k
    BY <1>3, <1>7
  <2>. QED
    BY <2>1
<1>9. ASSUME NEW i \in 1 .. Len(a)
      PROVE  a[i] = b[i]
  <2>1. /\ Levels(a)[0] = [j \in DOMAIN a |-> LeafHash(a[j])]
        /\ Levels(b)[0] = [j \in DOMAIN b |-> LeafHash(b[j])]
    BY LevelsAre
  <2>2. i \in DOMAIN a /\ i \in DOMAIN b
    OBVIOUS
  <2>3. Levels(a)[0][i] = LeafHash(a[i]) /\ Levels(b)[0][i] = LeafHash(b[i])
    BY <2>1, <2>2, Zenon
  <2>4. LeafHash(a[i]) = LeafHash(b[i])
    BY <1>8, <2>3
  <2>. QED
    BY <2>4 DEF LeafHash
<1>. QED
  BY <1>9

\* A signed manifest verifies for the leaf list it was made of and for no other:
\* the root settles the leaves, once leaf_count has settled how many there are.
THEOREM ManifestBindsLeaves ==
  ASSUME NEW rows \in Seq(Rows), NEW claim \in Seq(Rows), rows # <<>>
  PROVE  VerifyAnchor(SignedManifest(rows), claim) <=> claim = rows
<1>1. /\ SignedManifest(rows).root_hash = ComputeRoot(rows)
      /\ SignedManifest(rows).leaf_count = Len(rows)
  BY DEF SignedManifest
<1>2. ASSUME VerifyAnchor(SignedManifest(rows), claim)
      PROVE  claim = rows
  <2>1. Len(claim) = Len(rows) /\ ComputeRoot(claim) = ComputeRoot(rows) /\ claim # <<>>
    BY <1>1, <1>2 DEF VerifyAnchor
  <2>. QED
    BY <2>1, RootBindsLeaves
<1>3. ASSUME claim = rows
      PROVE  VerifyAnchor(SignedManifest(rows), claim)
  BY <1>1, <1>3 DEF VerifyAnchor
<1>. QED
  BY <1>2, <1>3

-----------------------------------------------------------------------------
(* Lists of finite sets *)

\* Pairs that order a set.
Orders(R, T) ==
  /\ \A x, y \in T : x # y => <<x, y>> \in R \/ <<y, x>> \in R
  /\ \A x, y, z \in T : <<x, y>> \in R /\ <<y, z>> \in R => <<x, z>> \in R

InOrder(l, R) == \A i, j \in DOMAIN l : i < j => <<l[i], l[j]>> \in R

\* What is finite, ordered and not empty has a last element.
LEMMA LastExists ==
  ASSUME NEW T, NEW R, Orders(R, T), IsFiniteSet(T), NEW n \in Nat
  PROVE  \A S \in SUBSET T : S # {} /\ Cardinality(S) = n =>
           \E x \in S : \A y \in S : y # x => <<y, x>> \in R
<1> DEFINE HaveLast == { k \in Nat : \A S \in SUBSET T : S # {} /\ Cardinality(S) = k =>
                           \E x \in S : \A y \in S : y # x => <<y, x>> \in R }
<1>1. 0 \in HaveLast
  BY FS_Subset, FS_EmptySet
<1>2. ASSUME NEW k \in Nat, k \in HaveLast
      PROVE  k + 1 \in HaveLast
  <2>1. SUFFICES ASSUME NEW S \in SUBSET T, S # {}, Cardinality(S) = k + 1
                 PROVE  \E x \in S : \A y \in S : y # x => <<y, x>> \in R
    OBVIOUS
  <2>2. PICK x \in S : TRUE
    BY <2>1
  <2>3. IsFiniteSet(S)
    BY FS_Subset
  <2>4. Cardinality(S \ {x}) = k
    <3>1. Cardinality(S \ {x}) = Cardinality(S) - 1
      BY <2>3, FS_RemoveElement, Zenon
    <3>. QED
      BY <2>1, <3>1
  <2>5. CASE S \ {x} = {}
    BY <2>5
  <2>6. CASE S \ {x} # {}
    <3>1. PICK z \in S \ {x} : \A y \in S \ {x} : y # z => <<y, z>> \in R
      BY <1>2, <2>4, <2>6
    <3>2. x \in T /\ z \in T /\ x # z
      OBVIOUS
    <3>3. CASE <<x, z>> \in R
      BY <3>1, <3>3
    <3>4. CASE <<z, x>> \in R
      <4>1. ASSUME NEW y \in S, y # x
            PROVE  <<y, x>> \in R
        BY <3>1, <3>2, <3>4, <4>1 DEF Orders
      <4>. QED
        BY <4>1
    <3>. QED
      BY <3>2, <3>3, <3>4 DEF Orders
  <2>. QED
    BY <2>5, <2>6
<1>. QED
  BY <1>1, <1>2, Induction

\* What is finite and ordered can be listed in its order.
LEMMA OrderedListExists ==
  ASSUME NEW T, NEW R, Orders(R, T), IsFiniteSet(T), NEW n \in Nat
  PROVE  \A S \in SUBSET T : Cardinality(S) = n => \E l \in SetToSeqs(S) : InOrder(l, R)
<1> DEFINE HaveList == { k \in Nat : \A S \in SUBSET T : Cardinality(S) = k =>
                           \E l \in SetToSeqs(S) : InOrder(l, R) }
<1>1. 0 \in HaveList
  <2>1. SUFFICES ASSUME NEW S \in SUBSET T, Cardinality(S) = 0
                 PROVE  \E l \in SetToSeqs(S) : InOrder(l, R)
    OBVIOUS
  <2>2. PICK l : l = [i \in 1 .. 0 |-> 0]
    OBVIOUS
  <2>3. l \in SetToSeqs(S)
    BY <2>1, <2>2 DEF SetToSeqs
  <2>4. InOrder(l, R)
    BY <2>2 DEF InOrder
  <2>. QED
    BY <2>3, <2>4
<1>2. ASSUME NEW k \in Nat, k \in HaveList
      PROVE  k + 1 \in HaveList
  <2>1. SUFFICES ASSUME NEW S \in SUBSET T, Cardinality(S) = k + 1
                 PROVE  \E l \in SetToSeqs(S) : InOrder(l, R)
    OBVIOUS
  <2>2. IsFiniteSet(S) /\ S # {}
    BY <2>1, FS_Subset, FS_EmptySet
  <2>3. PICK x \in S : \A y \in S : y # x => <<y, x>> \in R
    BY <2>1, <2>2, LastExists
  <2>4. Cardinality(S \ {x}) = k
    <3>1. Cardinality(S \ {x}) = Cardinality(S) - 1
      BY <2>2, FS_RemoveElement, Zenon
    <3>. QED
      BY <2>1, <3>1
  <2>5. PICK l \in SetToSeqs(S \ {x}) : InOrder(l, R)
    BY <1>2, <2>4
  <2>6. l \in [1 .. k -> S \ {x}] /\ \A i, j \in 1 .. k : i # j => l[i] # l[j]
    BY <2>4, <2>5 DEF SetToSeqs
  <2>7. PICK m : m = [i \in 1 .. k + 1 |-> IF i = k + 1 THEN x ELSE l[i]]
    OBVIOUS
  <2>8. \A i \in 1 .. k + 1 : i = k + 1 \/ i \in 1 .. k
    OBVIOUS
  <2>9. /\ m[k + 1] = x
        /\ \A i \in 1 .. k : m[i] = l[i] /\ l[i] \in S /\ l[i] # x
    BY <2>6, <2>7
  <2>10. m \in [1 .. k + 1 -> S]
    BY <2>6, <2>7, <2>8
  <2>11. \A i, j \in 1 .. k + 1 : i # j => m[i] # m[j]
    BY <2>6, <2>8, <2>9
  <2>12. m \in SetToSeqs(S)
    BY <2>1, <2>10, <2>11 DEF SetToSeqs
  <2>13. InOrder(m, R)
    <3>1. SUFFICES ASSUME NEW i \in 1 .. k + 1, NEW j \in 1 .. k + 1, i < j
                   PROVE  <<m[i], m[j]>> \in R
      BY <2>10 DEF InOrder
    <3>2. i \in 1 .. k
      BY <3>1
    <3>3. CASE j = k + 1
      BY <2>3, <2>9, <3>2, <3>3
    <3>4. CASE j \in 1 .. k
      BY <2>5, <2>6, <2>9, <3>1, <3>2, <3>4 DEF InOrder
    <3>. QED
      BY <2>8, <3>3, <3>4
  <2>. QED
    BY <2>12, <2>13
<1>. QED
  BY <1>1, <1>2, Induction

\* The list of a set has all of it.
LEMMA ListsCover ==
  ASSUME NEW S, IsFiniteSet(S), NEW l \in SetToSeqs(S)
  PROVE  /\ l \in [1 .. Cardinality(S) -> S]
         /\ \A x \in S : \E i \in 1 .. Cardinality(S) : l[i] = x
<1>1. PICK n \in Nat : n = Cardinality(S)
  BY FS_CardinalityType
<1>2. l \in [1 .. n -> S] /\ \A i, j \in 1 .. n : i # j => l[i] # l[j]
  BY <1>1 DEF SetToSeqs
<1>3. l \in Injection(1 .. n, S)
  BY <1>2 DEF Injection, IsInjective
<1>4. IsFiniteSet(1 .. n) /\ Cardinality(1 .. n) = n
  BY FS_Interval
<1>5. l \in Surjection(1 .. n, S)
  BY <1>1, <1>3, <1>4, FS_Injection
<1>. QED
  BY <1>1, <1>2, <1>5 DEF Surjection

-----------------------------------------------------------------------------
(* Numbers and texts *)

Byte == 0 .. 255

\* Two bytes are written, whatever the number.
LEMMA U16Writes ==
  ASSUME NEW n \in Int
  PROVE  U16(n) \in Seq(Byte) /\ Len(U16(n)) = 2
<1>1. (n \div 256) % 256 \in Byte /\ n % 256 \in Byte
  BY DEF Byte
<1>. QED
  BY <1>1 DEF U16

\* They tell numbers apart up to multiples of 2^16.
LEMMA U16Binds ==
  ASSUME NEW m \in Int, NEW n \in Int, U16(m) = U16(n)
  PROVE  m % 65536 = n % 65536
<1>1. (m \div 256) % 256 = (n \div 256) % 256 /\ m % 256 = n % 256
  BY DEF U16
<1>. QED
  BY <1>1, SMT

\* Where two texts of one length are followed by something, both parts agree.
LEMMA Split ==
  ASSUME NEW s \in Seq(Byte), NEW t \in Seq(Byte), NEW x \in Seq(Byte), NEW y \in Seq(Byte),
         Len(s) = Len(t), s \o x = t \o y
  PROVE  s = t /\ x = y
<1>1. ASSUME NEW i \in 1 .. Len(s)
      PROVE  s[i] = t[i]
  <2>1. (s \o x)[i] = s[i] /\ (t \o y)[i] = t[i]
    BY ConcatProperties
  <2>. QED
    BY <2>1
<1>2. s = t
  BY <1>1, SeqEqual
<1>3. Len(x) = Len(y)
  <2>1. Len(s \o x) = Len(s) + Len(x) /\ Len(t \o y) = Len(t) + Len(y)
    BY ConcatProperties
  <2>. QED
    BY <2>1
<1>4. ASSUME NEW i \in 1 .. Len(x)
      PROVE  x[i] = y[i]
  <2>1. (s \o x)[Len(s) + i] = x[i] /\ (t \o y)[Len(t) + i] = y[i]
    BY <1>3
  <2>. QED
    BY <2>1
<1>. QED
  BY <1>2, <1>3, <1>4, SeqEqual

\* Appending texts gives a text.
LEMMA Joined ==
  ASSUME NEW s \in Seq(Byte), NEW t \in Seq(Byte)
  PROVE  s \o t \in Seq(Byte) /\ Len(s \o t) = Len(s) + Len(t)
  BY ConcatProperties

\* Four bytes are written, whatever the number.
LEMMA U32Writes ==
  ASSUME NEW n \in Int
  PROVE  U32(n) \in Seq(Byte) /\ Len(U32(n)) = 4
<1>1. PICK a \in Int : a = n \div 65536
  BY SMT
<1>2. U16(a) \o U16(n) \in Seq(Byte) /\ Len(U16(a) \o U16(n)) = 2 + 2
  BY U16Writes, Joined, Zenon
<1>. QED
  BY <1>1, <1>2, SMT DEF U32

\* They tell numbers apart up to multiples of 2^32, half by half.
LEMMA U32Binds ==
  ASSUME NEW m \in Int, NEW n \in Int, U32(m) = U32(n)
  PROVE  /\ m % 65536 = n % 65536
         /\ (m \div 65536) % 65536 = (n \div 65536) % 65536
<1>1. PICK a \in Int, b \in Int : a = m \div 65536 /\ b = n \div 65536
  BY SMT
<1>2. U16(a) \o U16(m) = U16(b) \o U16(n)
  BY <1>1, SMTT(30) DEF U32
<1>3. Len(U16(a)) = Len(U16(b))
  BY U16Writes
<1>4. U16(a) = U16(b) /\ U16(m) = U16(n)
  BY <1>2, <1>3, U16Writes, Split, Zenon
<1>5. a % 65536 = b % 65536 /\ m % 65536 = n % 65536
  BY <1>4, U16Binds, SMT
<1>. QED
  BY <1>1, <1>5, SMT

\* Eight bytes are written, whatever the number.
LEMMA I64Writes ==
  ASSUME NEW n \in Int
  PROVE  I64(n) \in Seq(Byte) /\ Len(I64(n)) = 8
<1>1. PICK a \in Int : a = (n \div 65536) \div 65536
  BY SMT
<1>2. U32(a) \o U32(n) \in Seq(Byte) /\ Len(U32(a) \o U32(n)) = 4 + 4
  BY U32Writes, Joined, Zenon
<1>. QED
  BY <1>1, <1>2, SMT DEF I64

\* The numbers of 64 bits.
Fits64(n) == LET top == ((n \div 65536) \div 65536) \div 65536
             IN  -32768 <= top /\ top < 32768

\* They tell the numbers of 64 bits apart.
LEMMA I64Binds ==
  ASSUME NEW m \in Int, NEW n \in Int, Fits64(m), Fits64(n), I64(m) = I64(n)
  PROVE  m = n
<1>1. PICK a \in Int, b \in Int : a = m \div 65536 /\ b = n \div 65536
  BY SMT
<1>2. PICK c \in Int, d \in Int : c = a \div 65536 /\ d = b \div 65536
  BY SMT
<1>3. PICK e \in Int, f \in Int : e = c \div 65536 /\ f = d \div 65536
  BY SMT
<1>4. U32(c) \o U32(m) = U32(d) \o U32(n)
  BY <1>1, <1>2, SMTT(30) DEF I64
<1>5. Len(U32(c)) = Len(U32(d))
  BY U32Writes
<1>6. U32(c) = U32(d) /\ U32(m) = U32(n)
  BY <1>4, <1>5, U32Writes, Split, Zenon
<1>7. c % 65536 = d % 65536 /\ e % 65536 = f % 65536 /\ m % 65536 = n % 65536 /\ a % 65536 = b % 65536
  BY <1>1, <1>3, <1>6, U32Binds, SMT
<1>8. (-32768 <= e /\ e < 32768) /\ (-32768 <= f /\ f < 32768)
  <2>1. a \div 65536 = (m \div 65536) \div 65536 /\ b \div 65536 = (n \div 65536) \div 65536
    BY <1>1, SMT
  <2>2. c \div 65536 = ((m \div 65536) \div 65536) \div 65536
    BY <1>2, <2>1, SMT
  <2>3. d \div 65536 = ((n \div 65536) \div 65536) \div 65536
    BY <1>2, <2>1, SMT
  <2>. QED
    BY <1>3, <2>2, <2>3, SMT DEF Fits64
<1>9. e = f
  BY <1>7, <1>8, SMT
<1>10. c = d
  BY <1>3, <1>7, <1>9, SMT
<1>11. a = b
  BY <1>2, <1>7, <1>10, SMT
<1>. QED
  BY <1>1, <1>7, <1>11, SMT

\* What the encoder is given: texts that fit their length prefixes (it panics
\* on a longer table name or value; the name of a column, whose length it does
\* not check, is a literal of the source), and numbers of 64 bits.  Of a JSON
\* value and of a timestamp it is the text.
ShortTexts == { s \in Seq(Byte) : Len(s) < 65536 }
LongTexts == { s \in Seq(Byte) : Len(s) < 4294967296 }
Value == [type : SizedTypes, text : LongTexts] \cup [type : {"uuid"}, text : [1 .. 16 -> Byte]]
           \cup [type : {"i64"}, number : { n \in Int : Fits64(n) }]
           \cup [type : {"bool"}, bool : BOOLEAN] \cup [type : {"absent"}]
Field == [name : ShortTexts, value : Value]

\* Numbers that fit are told apart by what is written of them.
LEMMA SameU16 ==
  ASSUME NEW m \in Nat, NEW n \in Nat, m < 65536, n < 65536, U16(m) = U16(n)
  PROVE  m = n
<1>1. m % 65536 = n % 65536
  BY U16Binds, SMT
<1>. QED
  BY <1>1, SMT

LEMMA SameU32 ==
  ASSUME NEW m \in Nat, NEW n \in Nat, m < 4294967296, n < 4294967296, U32(m) = U32(n)
  PROVE  m = n
<1>1. PICK c \in Nat, d \in Nat : c = m \div 65536 /\ d = n \div 65536
  BY SMT
<1>2. m % 65536 = n % 65536 /\ c % 65536 = d % 65536
  BY <1>1, U32Binds, SMT
<1>3. c < 65536 /\ d < 65536
  BY <1>1, SMT
<1>4. c = d
  BY <1>2, <1>3, SMT
<1>. QED
  BY <1>1, <1>2, <1>4, SMT

-----------------------------------------------------------------------------
(* Reading a row *)

\* s stands in w behind its first p bytes.
At(w, p, s) == p + Len(s) <= Len(w) /\ \A i \in 1 .. Len(s) : w[p + i] = s[i]

\* A text stands somewhere part by part.
LEMMA AtParts ==
  ASSUME NEW w \in Seq(Byte), NEW p \in Nat, NEW s \in Seq(Byte), NEW t \in Seq(Byte),
         At(w, p, s \o t)
  PROVE  At(w, p, s) /\ At(w, p + Len(s), t)
<1>1. PICK c : c = s \o t
  OBVIOUS
<1>2. /\ Len(c) = Len(s) + Len(t)
      /\ \A i \in 1 .. Len(s) : c[i] = s[i]
      /\ \A i \in 1 .. Len(t) : c[Len(s) + i] = t[i]
  BY <1>1
<1>3. p + Len(c) <= Len(w) /\ \A i \in 1 .. Len(c) : w[p + i] = c[i]
  BY <1>1 DEF At
<1>4. Len(s) \in Nat /\ Len(t) \in Nat /\ Len(w) \in Nat
  OBVIOUS
<1>5. At(w, p, s)
  <2>1. \A i \in 1 .. Len(s) : i \in 1 .. Len(c)
    BY <1>2, <1>4
  <2>. QED
    BY <1>2, <1>3, <1>4, <2>1 DEF At
<1>6. At(w, p + Len(s), t)
  <2>1. ASSUME NEW i \in 1 .. Len(t)
        PROVE  w[(p + Len(s)) + i] = t[i]
    <3>1. Len(s) + i \in 1 .. Len(c) /\ p + (Len(s) + i) = (p + Len(s)) + i
      BY <1>2, <1>4
    <3>. QED
      BY <1>2, <1>3, <3>1
  <2>2. (p + Len(s)) + Len(t) <= Len(w)
    BY <1>2, <1>3, <1>4
  <2>. QED
    BY <2>1, <2>2 DEF At
<1>. QED
  BY <1>5, <1>6

\* Of one length, one text stands at one place.
LEMMA AtSame ==
  ASSUME NEW w \in Seq(Byte), NEW p \in Nat, NEW s \in Seq(Byte), NEW t \in Seq(Byte),
         Len(s) = Len(t), At(w, p, s), At(w, p, t)
  PROVE  s = t
<1>1. \A i \in 1 .. Len(s) : s[i] = t[i]
  BY DEF At
<1>. QED
  BY <1>1, SeqEqual

\* What has its length before it is read in one way.
LEMMA NamedBinds ==
  ASSUME NEW w \in Seq(Byte), NEW p \in Nat, NEW s \in ShortTexts, NEW t \in ShortTexts,
         At(w, p, Named(s)), At(w, p, Named(t))
  PROVE  s = t
<1>1. s \in Seq(Byte) /\ t \in Seq(Byte)
  BY SMT DEF ShortTexts
<1>2. PICK m \in Nat, n \in Nat : m = Len(s) /\ n = Len(t)
  BY <1>1
<1>3. m < 65536 /\ n < 65536
  BY <1>2, SMT DEF ShortTexts
<1>4. PICK a \in Seq(Byte), b \in Seq(Byte) : a = U16(m) /\ b = U16(n) /\ Len(a) = 2 /\ Len(b) = 2
  BY U16Writes
<1>5. At(w, p, a \o s) /\ At(w, p, b \o t)
  BY <1>2, <1>4 DEF Named
<1>6. At(w, p, a) /\ At(w, p + 2, s) /\ At(w, p, b) /\ At(w, p + 2, t)
  BY <1>1, <1>4, <1>5, AtParts
<1>7. a = b
  BY <1>4, <1>6, AtSame
<1>8. m = n
  <2>1. U16(m) = U16(n)
    BY <1>4, <1>7
  <2>. QED
    BY <1>3, <2>1, SameU16, SMT
<1>9. p + 2 \in Nat
  OBVIOUS
<1>. QED
  BY <1>1, <1>2, <1>6, <1>8, <1>9, AtSame

\* A name is written as bytes.
LEMMA NamedWrites ==
  ASSUME NEW s \in ShortTexts
  PROVE  Named(s) \in Seq(Byte)
<1>1. s \in Seq(Byte) /\ Len(s) \in Int
  BY SMT DEF ShortTexts
<1>. QED
  BY <1>1, U16Writes, Joined DEF Named

LEMMA SizedBinds ==
  ASSUME NEW w \in Seq(Byte), NEW p \in Nat, NEW s \in LongTexts, NEW t \in LongTexts,
         At(w, p, Sized(s)), At(w, p, Sized(t))
  PROVE  s = t
<1>1. s \in Seq(Byte) /\ t \in Seq(Byte)
  BY SMT DEF LongTexts
<1>2. PICK m \in Nat, n \in Nat : m = Len(s) /\ n = Len(t)
  BY <1>1
<1>3. m < 4294967296 /\ n < 4294967296
  BY <1>2, SMT DEF LongTexts
<1>4. PICK a \in Seq(Byte), b \in Seq(Byte) : a = U32(m) /\ b = U32(n) /\ Len(a) = 4 /\ Len(b) = 4
  BY U32Writes
<1>5. At(w, p, a \o s) /\ At(w, p, b \o t)
  BY <1>2, <1>4 DEF Sized
<1>6. At(w, p, a) /\ At(w, p + 4, s) /\ At(w, p, b) /\ At(w, p + 4, t)
  BY <1>1, <1>4, <1>5, AtParts
<1>7. a = b
  BY <1>4, <1>6, AtSame
<1>8. m = n
  <2>1. U32(m) = U32(n)
    BY <1>4, <1>7
  <2>. QED
    BY <1>3, <2>1, SameU32, SMT
<1>9. p + 4 \in Nat
  OBVIOUS
<1>. QED
  BY <1>1, <1>2, <1>6, <1>8, <1>9, AtSame

\* A text of any length is written as bytes.
LEMMA SizedWrites ==
  ASSUME NEW s \in LongTexts
  PROVE  Sized(s) \in Seq(Byte)
<1>1. s \in Seq(Byte) /\ Len(s) \in Int
  BY SMT DEF LongTexts
<1>. QED
  BY <1>1, U32Writes, Joined DEF Sized

\* The five ways to write a value.
LEMMA PayloadIs ==
  ASSUME NEW v \in Value
  PROVE  \/ /\ v.type \in SizedTypes /\ v.text \in LongTexts
            /\ v = [type |-> v.type, text |-> v.text] /\ Payload(v) = Sized(v.text)
         \/ /\ v.type = "uuid" /\ v.text \in [1 .. 16 -> Byte]
            /\ v = [type |-> v.type, text |-> v.text] /\ Payload(v) = v.text
         \/ /\ v.type = "i64" /\ v.number \in Int /\ Fits64(v.number)
            /\ v = [type |-> v.type, number |-> v.number] /\ Payload(v) = I64(v.number)
         \/ /\ v.type = "bool" /\ v.bool \in BOOLEAN
            /\ v = [type |-> v.type, bool |-> v.bool] /\ Payload(v) = <<IF v.bool THEN 1 ELSE 0>>
         \/ /\ v.type = "absent"
            /\ v = [type |-> v.type] /\ Payload(v) = <<>>
<1>1. CASE v \in [type : SizedTypes, text : LongTexts]
  BY <1>1 DEF Payload, SizedTypes
<1>2. CASE v \in [type : {"uuid"}, text : [1 .. 16 -> Byte]]
  BY <1>2 DEF Payload, SizedTypes
<1>3. CASE v \in [type : {"i64"}, number : { n \in Int : Fits64(n) }]
  BY <1>3 DEF Payload, SizedTypes
<1>4. CASE v \in [type : {"bool"}, bool : BOOLEAN]
  BY <1>4 DEF Payload, SizedTypes
<1>5. CASE v \in [type : {"absent"}]
  BY <1>5 DEF Payload, SizedTypes
<1>. QED
  BY <1>1, <1>2, <1>3, <1>4, <1>5 DEF Value

\* A uuid is a text of 16 bytes.
LEMMA ArrayWrites ==
  ASSUME NEW s \in [1 .. 16 -> Byte]
  PROVE  s \in Seq(Byte) /\ Len(s) = 16
<1>1. PICK n \in Nat : n = 16
  OBVIOUS
<1>2. s \in [1 .. n -> Byte]
  BY <1>1
<1>3. s \in Seq(Byte)
  BY <1>2, SeqDef
<1>4. Len(s) = n
  BY <1>2, <1>3, LenProperties
<1>. QED
  BY <1>1, <1>3, <1>4

\* One byte is a text.
LEMMA ByteWrites ==
  ASSUME NEW m \in Byte
  PROVE  <<m>> \in Seq(Byte) /\ Len(<<m>>) = 1 /\ <<m>>[1] = m
  OBVIOUS

\* A value is written as bytes.
LEMMA PayloadWrites ==
  ASSUME NEW v \in Value
  PROVE  Payload(v) \in Seq(Byte)
<1>1. CASE v.text \in LongTexts /\ Payload(v) = Sized(v.text)
  BY <1>1, SizedWrites, Zenon
<1>2. CASE v.text \in [1 .. 16 -> Byte] /\ Payload(v) = v.text
  BY <1>2, ArrayWrites, Zenon
<1>3. CASE v.number \in Int /\ Payload(v) = I64(v.number)
  BY <1>3, I64Writes, Zenon
<1>4. CASE Payload(v) = <<IF v.bool THEN 1 ELSE 0>>
  BY <1>4 DEF Byte
<1>5. CASE Payload(v) = <<>>
  BY <1>5
<1>. QED
  BY <1>1, <1>2, <1>3, <1>4, <1>5, PayloadIs, Zenon

\* A value of known type can be read in one way.
LEMMA PayloadBinds ==
  ASSUME NEW w \in Seq(Byte), NEW p \in Nat, NEW v \in Value, NEW x \in Value, v.type = x.type,
         At(w, p, Payload(v)), At(w, p, Payload(x))
  PROVE  v = x
<1>1. ASSUME NEW y \in Value
      PROVE  /\ y.type \in SizedTypes => /\ y.text \in LongTexts /\ Payload(y) = Sized(y.text)
                                         /\ y = [type |-> y.type, text |-> y.text]
             /\ y.type = "uuid" => /\ y.text \in [1 .. 16 -> Byte] /\ Payload(y) = y.text
                                   /\ y = [type |-> y.type, text |-> y.text]
             /\ y.type = "i64" => /\ y.number \in Int /\ Fits64(y.number) /\ Payload(y) = I64(y.number)
                                  /\ y = [type |-> y.type, number |-> y.number]
             /\ y.type = "bool" => /\ y.bool \in BOOLEAN /\ Payload(y) = <<IF y.bool THEN 1 ELSE 0>>
                                   /\ y = [type |-> y.type, bool |-> y.bool]
             /\ y.type = "absent" => y = [type |-> y.type]
             /\ y.type \in SizedTypes \cup {"uuid", "i64", "bool", "absent"}
  BY PayloadIs DEF SizedTypes
<1>2. CASE v.type \in SizedTypes
  <2>1. v.text = x.text
    BY <1>1, <1>2, SizedBinds
  <2>. QED
    BY <1>1, <1>2, <2>1
<1>3. CASE v.type = "uuid"
  <2>1. v.text \in Seq(Byte) /\ x.text \in Seq(Byte) /\ Len(v.text) = 16 /\ Len(x.text) = 16
    BY <1>1, <1>3, ArrayWrites, Zenon
  <2>2. At(w, p, v.text) /\ At(w, p, x.text)
    BY <1>1, <1>3, Zenon
  <2>3. v.text = x.text
    BY <2>1, <2>2, AtSame
  <2>. QED
    BY <1>1, <1>3, <2>3
<1>4. CASE v.type = "i64"
  <2>1. PICK m \in Int, n \in Int : m = v.number /\ n = x.number
    BY <1>1, <1>4
  <2>2. Fits64(m) /\ Fits64(n) /\ Payload(v) = I64(m) /\ Payload(x) = I64(n)
    BY <1>1, <1>4, <2>1
  <2>3. I64(m) = I64(n)
    BY <2>2, I64Writes, AtSame
  <2>4. m = n
    BY <2>2, <2>3, I64Binds, Zenon
  <2>. QED
    BY <1>1, <1>4, <2>1, <2>4
<1>5. CASE v.type = "bool"
  <2>1. PICK m \in Byte, n \in Byte : m = (IF v.bool THEN 1 ELSE 0) /\ n = (IF x.bool THEN 1 ELSE 0)
    <3>1. \A b : (IF b THEN 1 ELSE 0) \in Byte
      <4>1. 0 \in Byte /\ 1 \in Byte
        BY DEF Byte
      <4>. QED
        BY <4>1, Zenon
    <3>. QED
      BY <3>1, Zenon
  <2>2. Payload(v) = <<m>> /\ Payload(x) = <<n>>
    BY <1>1, <1>5, <2>1
  <2>3. m = n
    <3>1. <<m>> = <<n>>
      BY <2>2, ByteWrites, AtSame
    <3>. QED
      BY <3>1, ByteWrites
  <2>4. v.bool \in BOOLEAN /\ x.bool \in BOOLEAN
    BY <1>1, <1>5
  <2>5. (v.bool = TRUE /\ x.bool = TRUE) \/ (v.bool = FALSE /\ x.bool = FALSE)
    BY <2>1, <2>3, <2>4
  <2>. QED
    BY <1>1, <1>5, <2>5
<1>6. CASE v.type = "absent"
  BY <1>1, <1>6
<1>. QED
  BY <1>1, <1>2, <1>3, <1>4, <1>5, <1>6

\* The tag tells the type.
LEMMA TagsDiffer ==
  ASSUME NEW v \in Value, NEW x \in Value
  PROVE  /\ Tag[v.type] \in Byte
         /\ Tag[v.type] = Tag[x.type] => v.type = x.type
<1>1. \A y \in Value : y.type \in SizedTypes \cup {"uuid", "i64", "bool", "absent"}
  BY PayloadIs
<1>. QED
  BY <1>1 DEF Tag, SizedTypes, Byte

\* A field is written as bytes.
LEMMA FieldWrites ==
  ASSUME NEW f \in Field
  PROVE  EncodeField(f) \in Seq(Byte)
<1>1. f.name \in ShortTexts /\ f.value \in Value
  BY DEF Field
<1>2. <<Tag[f.value.type]>> \in Seq(Byte)
  BY <1>1, TagsDiffer
<1>3. <<Tag[f.value.type]>> \o Payload(f.value) \in Seq(Byte)
  BY <1>1, <1>2, PayloadWrites, Joined, Zenon
<1>. QED
  BY <1>1, <1>3, NamedWrites, Joined DEF EncodeField

\* A field can be read in one way, wherever it stands.
LEMMA FieldBinds ==
  ASSUME NEW w \in Seq(Byte), NEW p \in Nat, NEW f \in Field, NEW g \in Field,
         At(w, p, EncodeField(f)), At(w, p, EncodeField(g))
  PROVE  f = g
<1>1. /\ f.name \in ShortTexts /\ f.value \in Value /\ f = [name |-> f.name, value |-> f.value]
      /\ g.name \in ShortTexts /\ g.value \in Value /\ g = [name |-> g.name, value |-> g.value]
  BY DEF Field
<1>2. PICK a \in Seq(Byte), b \in Seq(Byte) : a = Named(f.name) /\ b = Named(g.name)
  BY <1>1, NamedWrites
<1>3. PICK c \in Seq(Byte), d \in Seq(Byte) :
        c = <<Tag[f.value.type]>> /\ d = <<Tag[g.value.type]>> /\ Len(c) = 1 /\ Len(d) = 1
  <2>1. Tag[f.value.type] \in Byte /\ Tag[g.value.type] \in Byte
    BY <1>1, TagsDiffer
  <2>. QED
    BY <2>1, ByteWrites, Zenon
<1>4. PICK x \in Seq(Byte), y \in Seq(Byte) : x = Payload(f.value) /\ y = Payload(g.value)
  BY <1>1, PayloadWrites
<1>5. PICK s \in Seq(Byte), t \in Seq(Byte) : s = c \o x /\ t = d \o y
  BY Joined
<1>6. At(w, p, a \o s) /\ At(w, p, b \o t)
  BY <1>2, <1>3, <1>4, <1>5 DEF EncodeField
<1>7. At(w, p, a) /\ At(w, p, b) /\ At(w, p + Len(a), s) /\ At(w, p + Len(b), t)
  BY <1>6, AtParts
<1>8. f.name = g.name /\ a = b
  BY <1>1, <1>2, <1>7, NamedBinds
<1>9. PICK q \in Nat : q = p + Len(a)
  OBVIOUS
<1>10. At(w, q, c \o x) /\ At(w, q, d \o y)
  BY <1>5, <1>7, <1>8, <1>9
<1>11. At(w, q, c) /\ At(w, q, d) /\ At(w, q + 1, x) /\ At(w, q + 1, y) /\ q + 1 \in Nat
  <2>1. Len(c) = 1 /\ Len(d) = 1
    BY <1>3
  <2>2. At(w, q, c) /\ At(w, q, d) /\ At(w, q + Len(c), x) /\ At(w, q + Len(d), y)
    BY <1>10, AtParts
  <2>. QED
    BY <2>1, <2>2
<1>12. c = d
  BY <1>3, <1>11, AtSame
<1>13. f.value.type = g.value.type
  <2>1. Tag[f.value.type] = Tag[g.value.type]
    BY <1>3, <1>12
  <2>. QED
    BY <1>1, <2>1, TagsDiffer
<1>14. f.value = g.value
  BY <1>1, <1>4, <1>11, <1>13, PayloadBinds
<1>. QED
  BY <1>1, <1>8, <1>14

-----------------------------------------------------------------------------
(* The order of field names *)

\* Bytes can be compared.
LEMMA BytesAreNumbers ==
  ASSUME NEW s \in Seq(Byte), NEW i \in 1 .. Len(s)
  PROVE  s[i] \in Nat
<1>1. s[i] \in Byte
  OBVIOUS
<1>2. \A m \in Byte : m \in Nat
  BY DEF Byte
<1>. QED
  BY <1>1, <1>2, Zenon

\* Any two names are ordered, and consistently.
LEMMA TextsAreOrdered ==
  /\ \A s, t \in Seq(Byte) : s # t => TextBefore(s, t) \/ TextBefore(t, s)
  /\ \A s, t, u \in Seq(Byte) : TextBefore(s, t) /\ TextBefore(t, u) => TextBefore(s, u)
<1>1. ASSUME NEW s \in Seq(Byte), NEW t \in Seq(Byte), s # t
      PROVE  TextBefore(s, t) \/ TextBefore(t, s)
  <2> DEFINE Agree(i) == i <= Len(s) /\ i <= Len(t) /\ s[i] = t[i]
             Differ == { i \in Nat : /\ i >= 1 /\ (i <= Len(s) \/ i <= Len(t))
                                     /\ ~ Agree(i) }
  <2>1. Differ # {}
    <3>1. SUFFICES ASSUME Differ = {} PROVE FALSE
      OBVIOUS
    <3>2. Len(s) \in Nat /\ Len(t) \in Nat
      OBVIOUS
    <3>3. \A i \in Nat : i >= 1 /\ (i <= Len(s) \/ i <= Len(t)) => i <= Len(s) /\ i <= Len(t) /\ s[i] = t[i]
      BY <3>1
    <3>4. Len(s) = Len(t)
      <4>1. CASE Len(s) > Len(t)
        BY <3>2, <3>3, <4>1
      <4>2. CASE Len(t) > Len(s)
        BY <3>2, <3>3, <4>2
      <4>. QED
        BY <3>2, <4>1, <4>2
    <3>5. \A i \in 1 .. Len(s) : s[i] = t[i]
      BY <3>2, <3>3
    <3>. QED
      BY <1>1, <3>4, <3>5, SeqEqual
  <2>2. PICK i \in Differ : \A j \in Differ : i <= j
    BY <2>1, LeastNumber
  <2>3. i \in Nat /\ i >= 1 /\ (i <= Len(s) \/ i <= Len(t)) /\ Len(s) \in Nat /\ Len(t) \in Nat
    OBVIOUS
  <2>4. ~ (i <= Len(s) /\ i <= Len(t) /\ s[i] = t[i])
    OBVIOUS
  <2>5. ASSUME NEW j \in 1 .. i - 1
        PROVE  j <= Len(s) /\ j <= Len(t) /\ s[j] = t[j]
    <3>1. j \in Nat /\ j >= 1 /\ j < i /\ (j <= Len(s) \/ j <= Len(t))
      BY <2>3
    <3>2. j \notin Differ
      BY <2>2, <3>1
    <3>. QED
      BY <3>1, <3>2
  <2>6. CASE i > Len(s)
    BY <2>3, <2>5, <2>6 DEF TextBefore
  <2>7. CASE i > Len(t)
    BY <2>3, <2>5, <2>7 DEF TextBefore
  <2>8. CASE i <= Len(s) /\ i <= Len(t)
    <3>1. s[i] \in Nat /\ t[i] \in Nat /\ s[i] # t[i]
      BY <2>3, <2>4, <2>8, BytesAreNumbers
    <3>2. CASE s[i] < t[i]
      BY <2>3, <2>5, <2>8, <3>2 DEF TextBefore
    <3>3. CASE t[i] < s[i]
      BY <2>3, <2>5, <2>8, <3>3 DEF TextBefore
    <3>. QED
      BY <3>1, <3>2, <3>3
  <2>. QED
    BY <2>3, <2>6, <2>7, <2>8
<1>2. ASSUME NEW s \in Seq(Byte), NEW t \in Seq(Byte), NEW u \in Seq(Byte),
             TextBefore(s, t), TextBefore(t, u)
      PROVE  TextBefore(s, u)
  <2>1. PICK i \in 1 .. Len(t) : /\ \A j \in 1 .. i - 1 : j <= Len(s) /\ s[j] = t[j]
                                 /\ i <= Len(s) => s[i] < t[i]
    BY <1>2 DEF TextBefore
  <2>2. PICK k \in 1 .. Len(u) : /\ \A j \in 1 .. k - 1 : j <= Len(t) /\ t[j] = u[j]
                                 /\ k <= Len(t) => t[k] < u[k]
    BY <1>2 DEF TextBefore
  <2>3. /\ \A n \in 1 .. Len(s) : s[n] \in Nat
        /\ \A n \in 1 .. Len(t) : t[n] \in Nat
        /\ \A n \in 1 .. Len(u) : u[n] \in Nat
        /\ Len(s) \in Nat /\ Len(t) \in Nat /\ Len(u) \in Nat
    BY BytesAreNumbers
  <2>4. CASE i < k
    <3>1. i \in 1 .. Len(u) /\ i \in 1 .. k - 1
      BY <2>3, <2>4
    <3>2. \A j \in 1 .. i - 1 : j <= Len(s) /\ s[j] = u[j]
      BY <2>1, <2>2, <2>3, <2>4
    <3>3. i <= Len(s) => s[i] < u[i]
      BY <2>1, <2>2, <3>1
    <3>. QED
      BY <3>1, <3>2, <3>3 DEF TextBefore
  <2>5. CASE k < i
    <3>1. k \in 1 .. i - 1 /\ k <= Len(t)
      BY <2>3, <2>5
    <3>2. \A j \in 1 .. k - 1 : j <= Len(s) /\ s[j] = u[j]
      BY <2>1, <2>2, <2>3, <2>5
    <3>3. k <= Len(s) => s[k] < u[k]
      BY <2>1, <2>2, <3>1
    <3>. QED
      BY <3>2, <3>3 DEF TextBefore
  <2>6. CASE i = k
    <3>1. \A j \in 1 .. k - 1 : j <= Len(s) /\ s[j] = u[j]
      BY <2>1, <2>2, <2>6
    <3>2. k <= Len(s) => s[k] < u[k]
      <4>1. SUFFICES ASSUME k <= Len(s) PROVE s[k] < u[k]
        OBVIOUS
      <4>2. s[k] < t[k] /\ t[k] < u[k]
        BY <2>1, <2>2, <2>6, <4>1
      <4>3. s[k] \in Nat /\ t[k] \in Nat /\ u[k] \in Nat
        BY <2>3, <2>6, <4>1
      <4>. QED
        BY <4>2, <4>3
    <3>. QED
      BY <3>1, <3>2 DEF TextBefore
  <2>. QED
    BY <2>3, <2>4, <2>5, <2>6
<1>. QED
  BY <1>1, <1>2

\* What a row is made of: fields with different names, no more than fit the
\* count (the encoder panics otherwise).
Columns ==
  { fields \in SUBSET Field : /\ IsFiniteSet(fields) /\ Cardinality(fields) < 65536
                              /\ \A f, g \in fields : f.name = g.name => f = g }

\* The sorted list of the fields exists.
LEMMA FieldsAreListed ==
  ASSUME NEW fields \in Columns
  PROVE  SortedFields(fields) \in SetToSeqs(fields)
<1>1. /\ fields \in SUBSET Field /\ IsFiniteSet(fields)
      /\ \A f, g \in fields : f.name = g.name => f = g
  BY DEF Columns
<1>2. \A f \in fields : f.name \in Seq(Byte)
  BY <1>1, SMT DEF Field, ShortTexts
<1>3. PICK R : R = { p \in fields \X fields : TextBefore(p[1].name, p[2].name) }
  OBVIOUS
<1>4. \A f, g \in fields : <<f, g>> \in R <=> TextBefore(f.name, g.name)
  BY <1>3
<1>5. Orders(R, fields)
  <2>1. ASSUME NEW f \in fields, NEW g \in fields, f # g
        PROVE  <<f, g>> \in R \/ <<g, f>> \in R
    BY <1>1, <1>2, <1>4, <2>1, TextsAreOrdered
  <2>2. ASSUME NEW f \in fields, NEW g \in fields, NEW h \in fields, <<f, g>> \in R, <<g, h>> \in R
        PROVE  <<f, h>> \in R
    BY <1>2, <1>4, <2>2, TextsAreOrdered
  <2>. QED
    BY <2>1, <2>2 DEF Orders
<1>6. PICK n \in Nat : n = Cardinality(fields)
  BY <1>1, FS_CardinalityType
<1>7. PICK l \in SetToSeqs(fields) : InOrder(l, R)
  BY <1>1, <1>5, <1>6, OrderedListExists
<1>8. \A i \in DOMAIN l : l[i] \in fields
  BY <1>7 DEF SetToSeqs
<1>9. \A i, j \in DOMAIN l : i < j => TextBefore(l[i].name, l[j].name)
  BY <1>4, <1>7, <1>8 DEF InOrder
<1>. QED
  BY <1>7, <1>9 DEF SortedFields

-----------------------------------------------------------------------------
(* The fields one after the other *)

\* FlattenSeq appends the sequences one by one.
LEMMA Flattening ==
  ASSUME NEW n \in Nat, n # 0, NEW e \in [1 .. n -> Seq(Byte)]
  PROVE  \E g \in [1 .. n -> Seq(Byte)] :
           /\ g[1] = e[1]
           /\ \A i \in 1 .. n - 1 : g[i + 1] = g[i] \o e[i + 1]
           /\ FlattenSeq(e) = g[n]
<1> DEFINE Upto(k, g) == g = [i \in 1 .. k |-> IF i = 1 THEN e[i] ELSE g[i - 1] \o e[i]]
           Found == { k \in Nat : \E g : Upto(k, g) }
<1>1. 0 \in Found
  <2>1. Upto(0, [i \in 1 .. 0 |-> e[i]])
    OBVIOUS
  <2>. QED
    BY <2>1
<1>2. ASSUME NEW k \in Nat, k \in Found
      PROVE  k + 1 \in Found
  <2>1. PICK g : Upto(k, g)
    BY <1>2
  <2>2. PICK h : h = [i \in 1 .. k + 1 |-> IF i = 1 THEN e[i] ELSE g[i - 1] \o e[i]]
    OBVIOUS
  <2>3. \A i \in 1 .. k : h[i] = g[i]
    <3>1. \A i \in 1 .. k : i \in 1 .. k + 1
      OBVIOUS
    <3>. QED
      BY <2>1, <2>2, <3>1
  <2>4. \A i \in 1 .. k + 1 : i # 1 => i - 1 \in 1 .. k
    OBVIOUS
  <2>5. Upto(k + 1, h)
    BY <2>2, <2>3, <2>4
  <2>. HIDE DEF Upto
  <2>. QED
    BY <2>5
<1>3. n \in Found
  BY <1>1, <1>2, Induction
<1>4. Len(e) = n /\ Len(e) # 0
  OBVIOUS
<1>5. PICK g : g = CHOOSE f : Upto(n, f)
  OBVIOUS
<1>6. Upto(n, g)
  <2>. HIDE DEF Upto
  <2>. QED
    BY <1>3, <1>5
<1>7. FlattenSeq(e) = g[n]
  BY <1>4, <1>5, Zenon DEF FlattenSeq
<1>8. 1 \in 1 .. n /\ g[1] = e[1]
  BY <1>6
<1>9. ASSUME NEW i \in 1 .. n - 1
      PROVE  g[i + 1] = g[i] \o e[i + 1]
  <2>1. i + 1 \in 1 .. n /\ i + 1 # 1 /\ (i + 1) - 1 = i
    OBVIOUS
  <2>. QED
    BY <1>6, <2>1
<1>10. \A i \in 1 .. n : g[i] \in Seq(Byte)
  <2> DEFINE Typed == { k \in Nat : k + 1 <= n => g[k + 1] \in Seq(Byte) }
  <2>1. 0 \in Typed
    BY <1>8
  <2>2. ASSUME NEW k \in Nat, k \in Typed
        PROVE  k + 1 \in Typed
    <3>1. SUFFICES ASSUME (k + 1) + 1 <= n PROVE g[(k + 1) + 1] \in Seq(Byte)
      OBVIOUS
    <3>2. k + 1 \in 1 .. n - 1 /\ (k + 1) + 1 \in 1 .. n /\ k + 1 <= n
      BY <3>1
    <3>3. g[(k + 1) + 1] = g[k + 1] \o e[(k + 1) + 1]
      BY <1>9, <3>2
    <3>4. g[k + 1] \in Seq(Byte) /\ e[(k + 1) + 1] \in Seq(Byte)
      BY <2>2, <3>2
    <3>. QED
      BY <3>3, <3>4, Joined, Zenon
  <2>3. Nat \subseteq Typed
    <3>. HIDE DEF Typed
    <3>. QED
      BY <2>1, <2>2, Induction
  <2>4. ASSUME NEW i \in 1 .. n
        PROVE  g[i] \in Seq(Byte)
    <3>1. i - 1 \in Nat /\ (i - 1) + 1 = i /\ (i - 1) + 1 <= n
      OBVIOUS
    <3>2. i - 1 \in Typed
      BY <2>3, <3>1
    <3>. QED
      BY <3>1, <3>2
  <2>. QED
    BY <2>4
<1>11. g \in [1 .. n -> Seq(Byte)]
  BY <1>6, <1>10
<1>. QED
  BY <1>7, <1>8, <1>9, <1>11

\* What is written at a place is written there part by part.
LEMMA FlattenedParts ==
  ASSUME NEW n \in Nat, n # 0, NEW e \in [1 .. n -> Seq(Byte)], NEW g \in [1 .. n -> Seq(Byte)],
         \A i \in 1 .. n - 1 : g[i + 1] = g[i] \o e[i + 1],
         NEW w \in Seq(Byte), NEW q \in Nat, At(w, q, g[n])
  PROVE  /\ \A i \in 1 .. n : At(w, q, g[i])
         /\ \A i \in 1 .. n - 1 : At(w, q + Len(g[i]), e[i + 1])
<1>1. ASSUME NEW i \in 1 .. n - 1, At(w, q, g[i + 1])
      PROVE  At(w, q, g[i]) /\ At(w, q + Len(g[i]), e[i + 1])
  <2>1. i \in 1 .. n /\ i + 1 \in 1 .. n
    OBVIOUS
  <2>2. g[i] \in Seq(Byte) /\ e[i + 1] \in Seq(Byte) /\ At(w, q, g[i] \o e[i + 1])
    BY <1>1, <2>1
  <2>. QED
    BY <2>2, AtParts, Zenon
<1>2. \A i \in 1 .. n : At(w, q, g[i])
  <2> DEFINE Holds == { k \in Nat : k < n => At(w, q, g[n - k]) }
  <2>1. 0 \in Holds
    OBVIOUS
  <2>2. ASSUME NEW k \in Nat, k \in Holds
        PROVE  k + 1 \in Holds
    <3>1. SUFFICES ASSUME k + 1 < n PROVE At(w, q, g[n - (k + 1)])
      OBVIOUS
    <3>2. PICK i \in 1 .. n - 1 : i = n - (k + 1)
      BY <3>1
    <3>3. i + 1 = n - k /\ k < n
      BY <3>1, <3>2
    <3>4. At(w, q, g[i + 1])
      BY <2>2, <3>3
    <3>5. At(w, q, g[i])
      BY <1>1, <3>4
    <3>. QED
      BY <3>2, <3>5
  <2>3. Nat \subseteq Holds
    <3>. HIDE DEF Holds
    <3>. QED
      BY <2>1, <2>2, Induction
  <2>4. ASSUME NEW i \in 1 .. n
        PROVE  At(w, q, g[i])
    <3>1. n - i \in Nat /\ n - i < n /\ n - (n - i) = i
      OBVIOUS
    <3>2. n - i \in Holds
      BY <2>3, <3>1
    <3>. QED
      BY <3>1, <3>2
  <2>. QED
    BY <2>4
<1>3. ASSUME NEW i \in 1 .. n - 1
      PROVE  At(w, q + Len(g[i]), e[i + 1])
  <2>1. i + 1 \in 1 .. n
    OBVIOUS
  <2>. QED
    BY <1>1, <1>2, <2>1
<1>. QED
  BY <1>2, <1>3

\* Fields are written as bytes, also none.
LEMMA FieldsWrite ==
  ASSUME NEW n \in Nat, NEW l \in [1 .. n -> Field]
  PROVE  FlattenSeq([i \in 1 .. n |-> EncodeField(l[i])]) \in Seq(Byte)
<1>1. PICK c : c = [i \in 1 .. n |-> EncodeField(l[i])]
  OBVIOUS
<1>2. \A i \in 1 .. n : EncodeField(l[i]) \in Seq(Byte)
  BY FieldWrites
<1>3. c \in [1 .. n -> Seq(Byte)] /\ Len(c) = n
  BY <1>1, <1>2
<1>4. CASE n = 0
  <2>1. c = <<>> /\ c \in Seq(Byte) /\ FlattenSeq(c) = c
    BY <1>3, <1>4 DEF FlattenSeq
  <2>. QED
    BY <1>1, <2>1
<1>5. CASE n # 0
  <2>1. PICK g \in [1 .. n -> Seq(Byte)] : FlattenSeq(c) = g[n]
    BY <1>3, <1>5, Flattening
  <2>2. FlattenSeq(c) \in Seq(Byte)
    BY <1>5, <2>1
  <2>. QED
    BY <1>1, <2>2, Zenon
<1>. QED
  BY <1>4, <1>5

\* One place of the bytes is read as one list of that many fields.
LEMMA FieldListsBind ==
  ASSUME NEW n \in Nat, n # 0, NEW l \in [1 .. n -> Field], NEW m \in [1 .. n -> Field],
         NEW w \in Seq(Byte), NEW q \in Nat,
         At(w, q, FlattenSeq([i \in 1 .. n |-> EncodeField(l[i])])),
         At(w, q, FlattenSeq([i \in 1 .. n |-> EncodeField(m[i])]))
  PROVE  l = m
<1>1. PICK c \in [1 .. n -> Seq(Byte)] : c = [i \in 1 .. n |-> EncodeField(l[i])]
  <2>1. \A i \in 1 .. n : EncodeField(l[i]) \in Seq(Byte)
    BY FieldWrites
  <2>. QED
    BY <2>1
<1>2. PICK d \in [1 .. n -> Seq(Byte)] : d = [i \in 1 .. n |-> EncodeField(m[i])]
  <2>1. \A i \in 1 .. n : EncodeField(m[i]) \in Seq(Byte)
    BY FieldWrites
  <2>. QED
    BY <2>1
<1>3. PICK g \in [1 .. n -> Seq(Byte)] :
        g[1] = c[1] /\ (\A i \in 1 .. n - 1 : g[i + 1] = g[i] \o c[i + 1]) /\ FlattenSeq(c) = g[n]
  BY Flattening
<1>4. PICK h \in [1 .. n -> Seq(Byte)] :
        h[1] = d[1] /\ (\A i \in 1 .. n - 1 : h[i + 1] = h[i] \o d[i + 1]) /\ FlattenSeq(d) = h[n]
  BY Flattening
<1>5. At(w, q, g[n]) /\ At(w, q, h[n])
  BY <1>1, <1>2, <1>3, <1>4, Zenon
<1>6. /\ \A i \in 1 .. n : At(w, q, g[i])
      /\ \A i \in 1 .. n - 1 : At(w, q + Len(g[i]), c[i + 1])
  BY <1>3, <1>5, FlattenedParts
<1>7. /\ \A i \in 1 .. n : At(w, q, h[i])
      /\ \A i \in 1 .. n - 1 : At(w, q + Len(h[i]), d[i + 1])
  BY <1>4, <1>5, FlattenedParts
<1>8. ASSUME NEW i \in 1 .. n, NEW p \in Nat, At(w, p, c[i]), At(w, p, d[i])
      PROVE  l[i] = m[i] /\ c[i] = d[i]
  <2>1. l[i] \in Field /\ m[i] \in Field /\ c[i] = EncodeField(l[i]) /\ d[i] = EncodeField(m[i])
    BY <1>1, <1>2
  <2>2. l[i] = m[i]
    BY <1>8, <2>1, FieldBinds
  <2>. QED
    BY <2>1, <2>2
<1> DEFINE Same == { k \in Nat : k < n => l[k + 1] = m[k + 1] /\ g[k + 1] = h[k + 1] }
<1>9. 0 \in Same
  <2>1. 1 \in 1 .. n
    OBVIOUS
  <2>2. l[1] = m[1] /\ g[1] = h[1]
    BY <1>3, <1>4, <1>6, <1>7, <1>8, <2>1
  <2>. QED
    BY <2>2
<1>10. ASSUME NEW k \in Nat, k \in Same
       PROVE  k + 1 \in Same
  <2>1. SUFFICES ASSUME k + 1 < n
                 PROVE  l[(k + 1) + 1] = m[(k + 1) + 1] /\ g[(k + 1) + 1] = h[(k + 1) + 1]
    OBVIOUS
  <2>2. PICK i \in 1 .. n - 1 : i = k + 1
    BY <2>1
  <2>3. i \in 1 .. n /\ i + 1 \in 1 .. n /\ k < n
    BY <2>1, <2>2
  <2>4. g[i] = h[i]
    BY <1>10, <2>2, <2>3
  <2>5. PICK p \in Nat : p = q + Len(g[i])
    BY <2>3
  <2>6. At(w, p, c[i + 1]) /\ At(w, p, d[i + 1])
    BY <1>6, <1>7, <2>4, <2>5
  <2>7. l[i + 1] = m[i + 1] /\ c[i + 1] = d[i + 1]
    BY <1>8, <2>3, <2>6
  <2>8. g[i + 1] = h[i + 1]
    BY <1>3, <1>4, <2>4, <2>7
  <2>. QED
    BY <2>2, <2>7, <2>8
<1>11. Nat \subseteq Same
  <2>. HIDE DEF Same
  <2>. QED
    BY <1>9, <1>10, Induction
<1>12. ASSUME NEW i \in 1 .. n
       PROVE  l[i] = m[i]
  <2>1. i - 1 \in Nat /\ i - 1 < n /\ (i - 1) + 1 = i
    OBVIOUS
  <2>2. i - 1 \in Same
    BY <1>11, <2>1
  <2>. QED
    BY <2>1, <2>2
<1>. QED
  BY <1>12

\* canonical_row_bytes tells rows apart: the bytes settle the table, the columns
\* and the type and value of each, so no value runs into the next field, none is
\* read as another type, and a column that is null is not a column left out.
THEOREM RowBytesBindTheRow ==
  ASSUME NEW table \in ShortTexts, NEW other \in ShortTexts,
         NEW fields \in Columns, NEW others \in Columns,
         RowBytes(table, fields) = RowBytes(other, others)
  PROVE  table = other /\ fields = others
<1>1. PICK l \in SetToSeqs(fields) : l = SortedFields(fields)
  BY FieldsAreListed
<1>2. PICK m \in SetToSeqs(others) : m = SortedFields(others)
  BY FieldsAreListed
<1>3. PICK n \in Nat, k \in Nat : n = Cardinality(fields) /\ k = Cardinality(others)
  BY FS_CardinalityType DEF Columns
<1>4. IsFiniteSet(fields) /\ IsFiniteSet(others) /\ fields \subseteq Field /\ others \subseteq Field
  BY DEF Columns
<1>5. l \in [1 .. n -> fields] /\ \A f \in fields : \E i \in 1 .. n : l[i] = f
  BY <1>3, <1>4, ListsCover
<1>6. m \in [1 .. k -> others] /\ \A f \in others : \E i \in 1 .. k : m[i] = f
  BY <1>3, <1>4, ListsCover
<1>7. /\ l \in [1 .. n -> Field] /\ Len(l) = n /\ DOMAIN l = 1 .. n
      /\ m \in [1 .. k -> Field] /\ Len(m) = k /\ DOMAIN m = 1 .. k
  BY <1>4, <1>5, <1>6
<1>8. PICK c, d : /\ c = FlattenSeq([i \in 1 .. n |-> EncodeField(l[i])])
                  /\ d = FlattenSeq([i \in 1 .. k |-> EncodeField(m[i])])
  OBVIOUS
<1>9. c \in Seq(Byte) /\ d \in Seq(Byte)
  BY <1>7, <1>8, FieldsWrite
<1>10. PICK w : w = RowBytes(table, fields)
  OBVIOUS
<1>11. w = Named(table) \o (U16(n) \o c) /\ w = Named(other) \o (U16(k) \o d)
  BY <1>1, <1>2, <1>7, <1>8, <1>10 DEF RowBytes
<1>12. /\ Named(table) \in Seq(Byte) /\ Named(other) \in Seq(Byte)
       /\ U16(n) \in Seq(Byte) /\ U16(k) \in Seq(Byte) /\ Len(U16(n)) = 2 /\ Len(U16(k)) = 2
  BY NamedWrites, U16Writes
<1>13. U16(n) \o c \in Seq(Byte) /\ U16(k) \o d \in Seq(Byte)
  BY <1>9, <1>12, Joined, Zenon
<1>14. w \in Seq(Byte)
  BY <1>11, <1>12, <1>13, Joined, Zenon
<1>15. At(w, 0, w)
  BY <1>14 DEF At
<1>16. /\ At(w, 0, Named(table)) /\ At(w, Len(Named(table)), U16(n) \o c)
       /\ At(w, 0, Named(other)) /\ At(w, Len(Named(other)), U16(k) \o d)
  <2>1. 0 + Len(Named(table)) = Len(Named(table)) /\ 0 + Len(Named(other)) = Len(Named(other))
    BY <1>12
  <2>2. At(w, 0, Named(table)) /\ At(w, 0 + Len(Named(table)), U16(n) \o c)
    <3>1. At(w, 0, Named(table) \o (U16(n) \o c))
      BY <1>11, <1>15, Zenon
    <3>. QED
      BY <1>12, <1>13, <1>14, <3>1, AtParts
  <2>3. At(w, 0, Named(other)) /\ At(w, 0 + Len(Named(other)), U16(k) \o d)
    <3>1. At(w, 0, Named(other) \o (U16(k) \o d))
      BY <1>11, <1>15, Zenon
    <3>. QED
      BY <1>12, <1>13, <1>14, <3>1, AtParts
  <2>. QED
    BY <2>1, <2>2, <2>3
<1>17. table = other
  BY <1>14, <1>16, NamedBinds
<1>18. PICK p \in Nat : p = Len(Named(table))
  BY <1>12
<1>19. At(w, p, U16(n)) /\ At(w, p + 2, c) /\ At(w, p, U16(k)) /\ At(w, p + 2, d)
  <2>1. At(w, p, U16(n) \o c) /\ At(w, p, U16(k) \o d)
    BY <1>16, <1>17, <1>18
  <2>2. At(w, p, U16(n)) /\ At(w, p + Len(U16(n)), c)
    BY <1>9, <1>12, <1>14, <2>1, AtParts
  <2>3. At(w, p, U16(k)) /\ At(w, p + Len(U16(k)), d)
    BY <1>9, <1>12, <1>14, <2>1, AtParts
  <2>. QED
    BY <1>12, <2>2, <2>3
<1>20. n = k
  <2>1. U16(n) = U16(k)
    BY <1>12, <1>14, <1>19, AtSame
  <2>2. n < 65536 /\ k < 65536
    BY <1>3, SMT DEF Columns
  <2>. QED
    BY <2>1, <2>2, SameU16, SMT
<1>21. l = m
  <2>1. CASE n = 0
    BY <1>7, <1>20, <2>1
  <2>2. CASE n # 0
    <3>1. p + 2 \in Nat /\ m \in [1 .. n -> Field]
      BY <1>7, <1>20
    <3>2. /\ At(w, p + 2, FlattenSeq([i \in 1 .. n |-> EncodeField(l[i])]))
          /\ At(w, p + 2, FlattenSeq([i \in 1 .. n |-> EncodeField(m[i])]))
      BY <1>8, <1>19, <1>20, Zenon
    <3>. QED
      BY <1>7, <1>14, <2>2, <3>1, <3>2, FieldListsBind
  <2>. QED
    BY <2>1, <2>2
<1>22. fields = others
  BY <1>5, <1>6, <1>20, <1>21
<1>. QED
  BY <1>17, <1>22

=============================================================================
