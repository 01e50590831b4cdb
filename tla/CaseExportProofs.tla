-------------------------- MODULE CaseExportProofs --------------------------
(***************************************************************************)
(* Proofs about CaseExport, for any number of replicas, requests, keys and *)
(* pieces of evidence.                                                     *)
(***************************************************************************)
EXTENDS CaseExport, FiniteSetTheorems, WellFoundedInduction, TLAPS

-----------------------------------------------------------------------------
(* The inductive invariant *)

\* What production signs with was configured.
KeysAreKnown ==
  /\ secret \in Keys => secret \in configured
  /\ env = "production" => \A r \in Replicas : key[r] \in configured \cup {None}

\* A list without repetition, of links that are there, and of all that were
\* there at the question.
ListedAt(q) ==
  /\ \A i, j \in 1 .. Len(picked[q]) : i # j => picked[q][i] # picked[q][j]
  /\ due[q] \subseteq ToSet(picked[q]) /\ ToSet(picked[q]) \subseteq links
  /\ q \in Exports => Sorted(picked[q])

\* A dossier has gone through its list up to some place, and has found what was
\* there at the question.
ResolvedAt(d) ==
  /\ IsFiniteSet(Entries(d)) /\ Cardinality(Entries(d)) <= Len(picked[d])
  /\ Entries(d) = { picked[d][i] : i \in 1 .. Cardinality(Entries(d)) }
  /\ \A e \in due[d] : <<e, FALSE>> \notin resolved[d]

HandlerAt(q) ==
  /\ pc[q] \in Active <=> host[q] # None
  /\ host[q] # None => key[host[q]] # None
  /\ due[q] \subseteq links
  /\ pc[q] \in {"read", "inserting"} => ListedAt(q)

DossierAt(d) ==
  /\ due[d] \subseteq rows
  /\ pc[d] \notin {"read", "replied"} => resolved[d] = {}
  /\ pc[d] = "read" => ResolvedAt(d)
  /\ pc[d] = "replied" => due[d] \X {TRUE} \subseteq resolved[d]

\* Of a bundle, whether its INSERT has landed or not.
BundleAt(b) ==
  /\ pc[b.by] # "idle"
  /\ due[b.by] \subseteq ToSet(b.manifest.evidence)
  /\ ToSet(b.manifest.evidence) \subseteq links
  /\ Sorted(b.manifest.evidence)
  /\ VerifyBundle(b)
  /\ env = "production" => b.public_key \in configured

CaseInv ==
  /\ TypeOK /\ KeysAreKnown /\ IsFiniteSet(links)
  /\ \A q \in Requests : HandlerAt(q)
  /\ \A d \in Dossiers : DossierAt(d)
  /\ \A b \in inserts \cup bundles : BundleAt(b)

-----------------------------------------------------------------------------
(* Sorted lists *)

LEMMA LeastNumber ==
  ASSUME NEW T, T \subseteq Nat, T # {}
  PROVE  \E x \in T : \A y \in T : x <= y
<1>1. IsWellFoundedOn(OpToRel(<, Nat), Nat)
  BY NatLessThanWellFounded
<1>2. \E x \in T : \A y \in T : ~ (<<y, x>> \in OpToRel(<, Nat))
  BY <1>1, WFMin
<1>3. PICK x \in T : \A y \in T : ~ (<<y, x>> \in OpToRel(<, Nat))
  BY <1>2
<1>4. \A y \in T : ~ (y < x)
  BY <1>3 DEF OpToRel
<1>. QED
  BY <1>4

\* A query lists every row once.
LEMMA ListingsListAll ==
  ASSUME NEW q, NEW S, IsFiniteSet(S), NEW l \in Listings(q, S)
  PROVE  /\ l \in Seq(S) /\ ToSet(l) = S
         /\ \A i, j \in 1 .. Len(l) : i # j => l[i] # l[j]
         /\ q \in Exports => Sorted(l)
<1>1. PICK n \in Nat : n = Cardinality(S)
  BY FS_CardinalityType
<1>2. /\ l \in [1 .. n -> S] /\ \A i, j \in 1 .. n : i # j => l[i] # l[j]
      /\ q \in Exports => Sorted(l)
  BY <1>1 DEF Listings, SetToSeqs
<1>3. l \in Seq(S) /\ Len(l) = n /\ DOMAIN l = 1 .. n
  BY <1>2
<1>4. l \in Injection(1 .. n, S)
  BY <1>2 DEF Injection, IsInjective
<1>5. IsFiniteSet(1 .. n) /\ Cardinality(1 .. n) = n
  BY FS_Interval
<1>6. l \in Surjection(1 .. n, S)
  BY <1>1, <1>4, <1>5, FS_Injection
<1>7. ToSet(l) = S
  BY <1>2, <1>3, <1>6 DEF ToSet, Surjection
<1>. QED
  BY <1>2, <1>3, <1>7

\* The pairs of the elements of D with t are in R.
LEMMA PairsWithin ==
  ASSUME NEW D, NEW R, NEW t, \A e \in D : <<e, t>> \in R
  PROVE  D \X {t} \subseteq R
  OBVIOUS

\* There is one order to list a set in.
LEMMA SortedListsAgree ==
  ASSUME NEW l \in Seq(Evidence), NEW m \in Seq(Evidence), Sorted(l), Sorted(m), ToSet(l) = ToSet(m)
  PROVE  l = m
<1>1. /\ Len(l) \in Nat /\ Len(m) \in Nat
      /\ \A i \in 1 .. Len(l) : l[i] \in Nat
      /\ \A i \in 1 .. Len(m) : m[i] \in Nat
  <2>1. /\ \A i \in 1 .. Len(l) : l[i] \in Evidence
        /\ \A i \in 1 .. Len(m) : m[i] \in Evidence
    OBVIOUS
  <2>2. \A x \in Evidence : x \in Nat
    BY EvidenceAssumption
  <2>3. Len(l) \in Nat /\ Len(m) \in Nat
    OBVIOUS
  <2>. QED
    BY <2>1, <2>2, <2>3, Zenon
<1>2. /\ \A i \in 1 .. Len(l) : \E j \in 1 .. Len(m) : m[j] = l[i]
      /\ \A j \in 1 .. Len(m) : \E i \in 1 .. Len(l) : l[i] = m[j]
  <2>1. DOMAIN l = 1 .. Len(l) /\ DOMAIN m = 1 .. Len(m)
    OBVIOUS
  <2>. QED
    BY <2>1 DEF ToSet
<1> DEFINE Differ == { i \in 1 .. Len(l) : i > Len(m) \/ (i <= Len(m) /\ l[i] # m[i]) }
<1>3. Differ = {}
  <2>1. SUFFICES ASSUME Differ # {} PROVE FALSE
    OBVIOUS
  <2>2. Differ \subseteq Nat
    BY <1>1
  <2>3. PICK i \in Differ : \A k \in Differ : i <= k
    BY <2>1, <2>2, LeastNumber
  <2>4. i \in Nat /\ i \in 1 .. Len(l) /\ \A k \in 1 .. i - 1 : k <= Len(m) /\ l[k] = m[k]
    BY <1>1, <2>3
  <2>5. PICK j \in 1 .. Len(m) : m[j] = l[i]
    BY <1>2, <2>4
  <2>6. j >= i
    <3>1. SUFFICES ASSUME j < i PROVE FALSE
      BY <1>1, <2>4
    <3>2. j \in 1 .. i - 1 /\ j \in 1 .. Len(l)
      BY <1>1, <2>4, <3>1
    <3>3. l[j] = l[i] /\ l[j] < l[i]
      BY <1>1, <2>4, <2>5, <3>1, <3>2 DEF Sorted
    <3>. QED
      BY <1>1, <2>4, <3>2, <3>3
  <2>7. i <= Len(m) /\ j > i /\ m[i] < l[i]
    BY <1>1, <2>3, <2>4, <2>5, <2>6 DEF Sorted
  <2>8. PICK k \in 1 .. Len(l) : l[k] = m[i]
    BY <1>2, <2>4, <2>7
  <2>9. k < i
    BY <1>1, <2>4, <2>7, <2>8 DEF Sorted
  <2>10. m[k] = m[i] /\ m[k] < m[i]
    BY <1>1, <2>4, <2>7, <2>8, <2>9 DEF Sorted
  <2>. QED
    BY <1>1, <2>4, <2>7, <2>10
<1>4. \A i \in 1 .. Len(l) : i <= Len(m) /\ l[i] = m[i]
  BY <1>1, <1>3
<1>5. Len(m) <= Len(l)
  <2>1. SUFFICES ASSUME Len(m) > Len(l) PROVE FALSE
    BY <1>1
  <2>2. PICK i \in 1 .. Len(l) : l[i] = m[Len(m)]
    BY <1>1, <1>2, <2>1
  <2>3. m[i] < m[Len(m)]
    BY <1>1, <2>1, <2>2 DEF Sorted
  <2>. QED
    BY <1>1, <1>4, <2>2, <2>3
<1>6. Len(l) = Len(m)
  <2>1. CASE Len(l) = 0
    BY <1>1, <1>5, <2>1
  <2>2. CASE Len(l) # 0
    BY <1>1, <1>4, <1>5, <2>2
  <2>. QED
    BY <2>1, <2>2
<1>. QED
  BY <1>1, <1>4, <1>6

-----------------------------------------------------------------------------
(* What a step leaves as it is *)

LEMMA ListedKept ==
  ASSUME NEW q, ListedAt(q), picked'[q] = picked[q], due'[q] = due[q], links \subseteq links'
  PROVE  ListedAt(q)'
<1>1. PICK l, S : l = picked[q] /\ l = picked'[q] /\ S = due[q] /\ S = due'[q]
  OBVIOUS
<1>. QED
  BY <1>1 DEF ListedAt, Sorted, ToSet

LEMMA ResolvedKept ==
  ASSUME NEW d, ResolvedAt(d), picked'[d] = picked[d], due'[d] = due[d], resolved'[d] = resolved[d]
  PROVE  ResolvedAt(d)'
<1>1. PICK l, S, R : /\ l = picked[d] /\ l = picked'[d] /\ S = due[d] /\ S = due'[d]
                     /\ R = resolved[d] /\ R = resolved'[d]
  OBVIOUS
<1>2. Entries(d)' = Entries(d)
  BY <1>1 DEF Entries
<1>. QED
  BY <1>1, <1>2 DEF ResolvedAt

\* A request that takes no step, in a process that lives on.
LEMMA HandlerKept ==
  ASSUME NEW q, HandlerAt(q), pc'[q] = pc[q], host'[q] = host[q], picked'[q] = picked[q],
         due'[q] = due[q], links \subseteq links', host[q] # None => key'[host[q]] # None
  PROVE  HandlerAt(q)'
<1>1. ListedAt(q) => ListedAt(q)'
  BY ListedKept
<1>. QED
  BY <1>1 DEF HandlerAt

LEMMA DossierKept ==
  ASSUME NEW d, DossierAt(d), pc'[d] = pc[d], picked'[d] = picked[d],
         resolved'[d] = resolved[d], due'[d] = due[d], rows \subseteq rows'
  PROVE  DossierAt(d)'
<1>1. ResolvedAt(d) => ResolvedAt(d)'
  BY ResolvedKept
<1>. QED
  BY <1>1 DEF DossierAt

\* A request that has come to its end.
LEMMA HandlerIsOver ==
  ASSUME NEW q, HandlerAt(q), pc'[q] \in {"replied", "ended"}, host'[q] = None,
         due'[q] = due[q], links' = links
  PROVE  HandlerAt(q)'
  BY DEF HandlerAt, Active

LEMMA BundleKept ==
  ASSUME NEW b, BundleAt(b), pc[b.by] # "idle" => pc'[b.by] # "idle", due'[b.by] = due[b.by],
         links \subseteq links', configured \subseteq configured', env' = env
  PROVE  BundleAt(b)'
  BY DEF BundleAt

-----------------------------------------------------------------------------
(* Keys and writers *)

LEMMA KeyStepsKeep ==
  ASSUME CaseInv, (\E r \in Replicas : Start(r)) \/ Rotate
  PROVE  CaseInv'
<1>. USE DEF CaseInv
<1>1. UNCHANGED <<open, links, rows, pc, host, picked, resolved, due, inserts, bundles, env, stops>>
  BY DEF Start, Rotate, tables, handlers
<1>2. /\ configured \subseteq configured' /\ configured' \subseteq issued' /\ issued' \subseteq Keys
      /\ secret' \in Keys \cup {None, Malformed}
      /\ secret' \in Keys => secret' \in configured'
      /\ key' \in [Replicas -> issued' \cup {None}]
      /\ \A r \in Replicas : key[r] # None => key'[r] # None
      /\ env = "production" => \A r \in Replicas : key'[r] \in configured' \cup {None}
  <2>1. CASE Rotate
    <3>1. PICK s \in ((Keys \ issued) \cup {None, Malformed}) \ {secret} :
            /\ secret' = s /\ configured' = configured \cup ({s} \cap Keys)
            /\ issued' = issued \cup ({s} \cap Keys)
      BY <2>1 DEF Rotate
    <3>2. key' = key
      BY <2>1 DEF Rotate
    <3>. QED
      BY <3>1, <3>2 DEF TypeOK, KeysAreKnown
  <2>2. CASE \E r \in Replicas : Start(r)
    <3>1. PICK r \in Replicas : Start(r)
      BY <2>2
    <3>2. PICK k \in Load : key' = [key EXCEPT ![r] = k] /\ issued' = issued \cup {k}
      BY <3>1 DEF Start
    <3>3. UNCHANGED <<secret, configured>>
      BY <3>1 DEF Start
    <3>4. k \in Keys /\ (env = "production" => k \in configured)
      BY <3>2 DEF Load, KeysAreKnown
    <3>5. k # None
      BY <3>4, KeysAssumption
    <3>. QED
      BY <3>2, <3>3, <3>4, <3>5 DEF TypeOK, KeysAreKnown
  <2>. QED
    BY <2>1, <2>2
<1>3. TypeOK' /\ KeysAreKnown'
  <2>1. KeysAreKnown'
    BY <1>1, <1>2 DEF KeysAreKnown
  <2>2. TypeOK'
    BY <1>1, <1>2 DEF TypeOK
  <2>. QED
    BY <2>1, <2>2
<1>4. \A q \in Requests : HandlerAt(q)'
  <2> TAKE q \in Requests
  <2>1. host[q] \in Replicas \cup {None} /\ HandlerAt(q)
    BY DEF TypeOK
  <2>2. host[q] # None => key'[host[q]] # None
    BY <1>2, <2>1 DEF HandlerAt
  <2>. QED
    BY <1>1, <2>1, <2>2, HandlerKept
<1>5. \A d \in Dossiers : DossierAt(d)'
  BY <1>1, DossierKept
<1>6. \A b \in inserts \cup bundles : BundleAt(b)'
  BY <1>1, <1>2, BundleKept
<1>. QED
  BY <1>1, <1>3, <1>4, <1>5, <1>6

LEMMA StopKeeps ==
  ASSUME CaseInv, NEW r \in Replicas, Stop(r)
  PROVE  CaseInv'
<1>. USE DEF CaseInv
<1>1. /\ UNCHANGED <<open, links, rows, due, inserts, bundles, env, secret, configured, issued>>
      /\ key' = [key EXCEPT ![r] = None] /\ stops' = stops + 1 /\ stops < MaxStops
  BY DEF Stop, tables
<1>2. /\ pc' = [q \in Requests |-> IF host[q] = r THEN "ended" ELSE pc[q]]
      /\ host' = [q \in Requests |-> IF host[q] = r THEN None ELSE host[q]]
      /\ picked' = [q \in Requests |-> IF host[q] = r THEN <<>> ELSE picked[q]]
      /\ resolved' = [q \in Requests |-> IF host[q] = r THEN {} ELSE resolved[q]]
  BY DEF Stop
<1>3. TypeOK' /\ KeysAreKnown'
  <2>1. <<>> \in Seq(Evidence)
    OBVIOUS
  <2>2. pc' \in [Requests -> {"idle", "replied", "ended"} \cup Active]
    BY <1>2 DEF TypeOK
  <2>3. host' \in [Requests -> Replicas \cup {None}] /\ picked' \in [Requests -> Seq(Evidence)]
        /\ resolved' \in [Requests -> SUBSET (Evidence \X BOOLEAN)]
    BY <1>2, <2>1 DEF TypeOK
  <2>4. key' \in [Replicas -> issued' \cup {None}] /\ stops' \in 0 .. MaxStops
    BY <1>1, BoundsAssumption DEF TypeOK
  <2>. QED
    BY <1>1, <2>2, <2>3, <2>4 DEF TypeOK, KeysAreKnown
<1>4. \A q \in Requests : HandlerAt(q)'
  <2> TAKE q \in Requests
  <2>1. CASE host[q] = r
    BY <1>1, <1>2, <2>1, HandlerIsOver
  <2>2. CASE host[q] # r
    <3>1. host[q] # None => key'[host[q]] # None
      BY <1>1, <2>2 DEF HandlerAt, TypeOK
    <3>. QED
      BY <1>1, <1>2, <2>2, <3>1, HandlerKept
  <2>. QED
    BY <2>1, <2>2
<1>5. \A d \in Dossiers : DossierAt(d)'
  <2> TAKE d \in Dossiers
  <2>1. d \in Requests
    BY DEF Requests
  <2>2. CASE host[d] = r
    BY <1>1, <1>2, <2>1, <2>2 DEF DossierAt
  <2>3. CASE host[d] # r
    BY <1>1, <1>2, <2>1, <2>3, DossierKept
  <2>. QED
    BY <2>2, <2>3
<1>6. \A b \in inserts \cup bundles : BundleAt(b)'
  <2> TAKE b \in inserts \cup bundles
  <2>1. b.by \in Requests
    BY DEF TypeOK, Bundles, Requests
  <2>. QED
    BY <1>1, <1>2, <2>1, BundleKept
<1>. QED
  BY <1>1, <1>3, <1>4, <1>5, <1>6

LEMMA WritersKeep ==
  ASSUME CaseInv, OpenCase \/ \E e \in Evidence : CommitRow(e) \/ Link(e)
  PROVE  CaseInv'
<1>. USE DEF CaseInv
<1>1. /\ UNCHANGED signing /\ UNCHANGED handlers /\ UNCHANGED <<inserts, bundles>>
      /\ (\E e \in Evidence : /\ links' \in {links, links \cup {e}}
                              /\ rows' = rows \/ (e \in Resolvable /\ rows' = rows \cup {e}))
         \/ UNCHANGED <<links, rows>>
      /\ open' \in {open, TRUE}
  BY DEF OpenCase, CommitRow, Link
<1>2. UNCHANGED <<env, secret, configured, issued, key, stops, pc, host, picked, resolved, due, inserts, bundles>>
  BY <1>1 DEF signing, handlers
<1>3. /\ links \subseteq links' /\ links' \subseteq Evidence /\ IsFiniteSet(links')
      /\ rows \subseteq rows' /\ rows' \subseteq Resolvable
  <2>1. \A e : IsFiniteSet(links \cup {e})
    BY FS_AddElement
  <2>. QED
    BY <1>1, <2>1 DEF TypeOK
<1>4. TypeOK' /\ KeysAreKnown'
  BY <1>1, <1>2, <1>3 DEF TypeOK, KeysAreKnown
<1>5. \A q \in Requests : HandlerAt(q)'
  <2> TAKE q \in Requests
  <2>1. host[q] # None => key[host[q]] # None
    BY DEF HandlerAt
  <2>. QED
    BY <1>2, <1>3, <2>1, HandlerKept
<1>6. \A d \in Dossiers : DossierAt(d)'
  BY <1>2, <1>3, DossierKept
<1>7. \A b \in inserts \cup bundles : BundleAt(b)'
  BY <1>2, <1>3, BundleKept
<1>. QED
  BY <1>2, <1>3, <1>4, <1>5, <1>6, <1>7

-----------------------------------------------------------------------------
(* Requests *)

HandlersTyped ==
  /\ pc \in [Requests -> {"idle", "replied", "ended"} \cup Active]
  /\ host \in [Requests -> Replicas \cup {None}]
  /\ picked \in [Requests -> Seq(Evidence)]
  /\ resolved \in [Requests -> SUBSET (Evidence \X BOOLEAN)]
  /\ due \in [Requests -> SUBSET Evidence]

\* Only q takes a step.
Only(q) ==
  \A p \in Requests \ {q} :
    /\ pc'[p] = pc[p] /\ host'[p] = host[p] /\ picked'[p] = picked[p]
    /\ resolved'[p] = resolved[p] /\ due'[p] = due[p]

LEMMA RequestSteps ==
  ASSUME CaseInv, NEW q \in Requests, UNCHANGED signing, UNCHANGED tables, HandlersTyped', Only(q),
         pc'[q] # "idle", pc[q] # "idle" => due'[q] = due[q],
         HandlerAt(q)', q \in Dossiers => DossierAt(q)',
         inserts' \subseteq Bundles, bundles' \subseteq Bundles,
         \A b \in inserts' \cup bundles' : b \in inserts \cup bundles \/ BundleAt(b)'
  PROVE  CaseInv'
<1>. USE DEF CaseInv
<1>1. UNCHANGED <<env, secret, configured, issued, key, stops, open, links, rows>>
  BY DEF signing, tables
<1>2. TypeOK' /\ KeysAreKnown'
  BY <1>1 DEF TypeOK, HandlersTyped, KeysAreKnown
<1>3. \A p \in Requests : HandlerAt(p)'
  <2> TAKE p \in Requests
  <2>1. CASE p # q
    <3>1. HandlerAt(p) /\ (host[p] # None => key'[host[p]] # None)
      BY <1>1 DEF HandlerAt
    <3>. QED
      BY <1>1, <2>1, <3>1, HandlerKept DEF Only
  <2>. QED
    BY <2>1
<1>4. \A d \in Dossiers : DossierAt(d)'
  <2> TAKE d \in Dossiers
  <2>1. d \in Requests
    BY DEF Requests
  <2>2. CASE d # q
    BY <1>1, <2>1, <2>2, DossierKept DEF Only
  <2>. QED
    BY <2>2
<1>5. \A b \in inserts' \cup bundles' : BundleAt(b)'
  <2> TAKE b \in inserts' \cup bundles'
  <2>1. CASE b \in inserts \cup bundles
    <3>1. b.by \in Requests /\ BundleAt(b)
      BY <2>1 DEF TypeOK, Bundles, Requests
    <3>2. pc'[b.by] # "idle" /\ due'[b.by] = due[b.by]
      BY <3>1 DEF Only, BundleAt
    <3>. QED
      BY <1>1, <3>1, <3>2, BundleKept
  <2>. QED
    BY <2>1
<1>. QED
  BY <1>1, <1>2, <1>3, <1>4, <1>5

\* A handler returns; its locals go, and what a dossier told stays.
LEMMA ReturnKeeps ==
  ASSUME CaseInv, NEW q \in Requests, NEW place \in {"replied", "ended"}, Return(q, place),
         UNCHANGED <<signing, tables, due>>, pc[q] # "idle",
         inserts' = inserts, bundles' = bundles,
         place = "replied" /\ q \in Dossiers => due[q] \X {TRUE} \subseteq resolved[q]
  PROVE  CaseInv'
<1>. USE DEF CaseInv
<1>1. UNCHANGED signing /\ UNCHANGED tables /\ due' = due
  OBVIOUS
<1>2. HandlersTyped
  BY DEF TypeOK, HandlersTyped
<1>3. /\ pc' = [pc EXCEPT ![q] = place] /\ host' = [host EXCEPT ![q] = None]
      /\ picked' = [picked EXCEPT ![q] = <<>>]
      /\ resolved' = IF place = "replied" THEN resolved ELSE [resolved EXCEPT ![q] = {}]
  BY DEF Return, Goto
<1>4. HandlersTyped' /\ Only(q) /\ pc'[q] = place /\ host'[q] = None
      /\ resolved'[q] = IF place = "replied" THEN resolved[q] ELSE {}
  <2>1. <<>> \in Seq(Evidence)
    OBVIOUS
  <2>2. HandlersTyped'
    BY <1>1, <1>2, <1>3, <2>1 DEF HandlersTyped
  <2>3. Only(q)
    BY <1>1, <1>2, <1>3 DEF HandlersTyped, Only
  <2>. QED
    BY <1>2, <1>3, <2>2, <2>3 DEF HandlersTyped
<1>5. UNCHANGED <<links, rows>>
  BY <1>1 DEF tables
<1>6. HandlerAt(q)'
  BY <1>1, <1>4, <1>5, HandlerIsOver
<1>7. q \in Dossiers => DossierAt(q)'
  BY <1>1, <1>4, <1>5 DEF DossierAt
<1>. QED
  BY <1>1, <1>4, <1>6, <1>7, RequestSteps DEF TypeOK

LEMMA EndsKeep ==
  ASSUME CaseInv, NEW q \in Requests, CaseMissing(q) \/ HandlerFails(q)
  PROVE  CaseInv'
<1>1. Return(q, "ended") /\ pc[q] \in Active /\ inserts' = inserts /\ bundles' = bundles
  BY DEF CaseMissing, HandlerFails, Active
<1>2. UNCHANGED <<signing, tables, due>>
  BY DEF CaseMissing, HandlerFails
<1>. QED
  BY <1>1, <1>2, ReturnKeeps DEF Active

LEMMA ReplyBundleKeeps ==
  ASSUME CaseInv, NEW x \in Exports, ReplyBundle(x)
  PROVE  CaseInv'
<1>1. Return(x, "replied") /\ pc[x] # "idle" /\ inserts' = inserts /\ bundles' = bundles
  BY DEF ReplyBundle
<1>2. UNCHANGED <<signing, tables, due>>
  BY DEF ReplyBundle
<1>3. x \in Requests /\ x \notin Dossiers
  BY RoutesAssumption DEF Requests
<1>. QED
  BY <1>1, <1>2, <1>3, ReturnKeeps

\* The dossier has come to the end of its list, which has all that was due.
LEMMA ReplyDossierKeeps ==
  ASSUME CaseInv, NEW d \in Dossiers, ReplyDossier(d)
  PROVE  CaseInv'
<1>. USE DEF CaseInv
<1>1. /\ Return(d, "replied") /\ pc[d] = "read" /\ inserts' = inserts /\ bundles' = bundles
      /\ Cardinality(Entries(d)) = Len(picked[d])
  BY DEF ReplyDossier
<1>2. UNCHANGED <<signing, tables, due>>
  BY DEF ReplyDossier
<1>3. d \in Requests
  BY DEF Requests
<1>4. ListedAt(d) /\ ResolvedAt(d)
  BY <1>1, <1>3 DEF HandlerAt, DossierAt
<1>5. due[d] \subseteq Entries(d)
  <2>1. picked[d] \in Seq(Evidence)
    BY <1>3 DEF TypeOK
  <2>2. ToSet(picked[d]) = { picked[d][i] : i \in 1 .. Len(picked[d]) }
    BY <2>1 DEF ToSet
  <2>. QED
    BY <1>1, <1>4, <2>2 DEF ListedAt, ResolvedAt
<1>6. due[d] \X {TRUE} \subseteq resolved[d]
  <2>1. ASSUME NEW e \in due[d]
        PROVE  <<e, TRUE>> \in resolved[d]
    <3>1. PICK r \in resolved[d] : r[1] = e
      BY <1>5, <2>1 DEF Entries
    <3>2. r \in Evidence \X BOOLEAN
      BY <1>3 DEF TypeOK
    <3>3. PICK f \in Evidence, found \in BOOLEAN : r = <<f, found>>
      BY <3>2
    <3>4. f = e
      BY <3>1, <3>3
    <3>5. found # FALSE
      BY <1>4, <2>1, <3>3, <3>4 DEF ResolvedAt
    <3>6. found = TRUE
      BY <3>5
    <3>. QED
      BY <3>3, <3>4, <3>6
  <2>. QED
    BY <2>1, PairsWithin, Zenon
<1>. QED
  BY <1>1, <1>2, <1>3, <1>6, ReturnKeeps

LEMMA ReceiveKeeps ==
  ASSUME CaseInv, NEW q \in Requests, NEW r \in Replicas, Receive(q, r)
  PROVE  CaseInv'
<1>. USE DEF CaseInv
<1>1. UNCHANGED signing /\ UNCHANGED tables /\ UNCHANGED <<picked, resolved, inserts, bundles>>
  BY DEF Receive
<1>2. HandlersTyped /\ links \subseteq Evidence /\ rows \subseteq Evidence
  BY EvidenceAssumption DEF TypeOK, HandlersTyped
<1>3. PICK S : S = (IF q \in Exports THEN links ELSE links \cap rows)
  OBVIOUS
<1>4. /\ pc[q] = "idle" /\ key[r] # None /\ pc' = [pc EXCEPT ![q] = "asked"]
      /\ host' = [host EXCEPT ![q] = r] /\ due' = [due EXCEPT ![q] = S]
  BY <1>3 DEF Receive, Goto
<1>5. /\ HandlersTyped' /\ Only(q) /\ pc'[q] = "asked" /\ host'[q] = r /\ due'[q] = S
  <2>1. HandlersTyped'
    BY <1>1, <1>2, <1>3, <1>4 DEF HandlersTyped, Active
  <2>2. Only(q)
    BY <1>1, <1>2, <1>4 DEF HandlersTyped, Only
  <2>. QED
    BY <1>2, <1>4, <2>1, <2>2 DEF HandlersTyped
<1>6. UNCHANGED <<key, links, rows>>
  BY <1>1 DEF signing, tables
<1>7. HandlerAt(q)'
  <2>1. S \subseteq links /\ r # None
    BY <1>3, ReplicasAssumption
  <2>. QED
    BY <1>4, <1>5, <1>6, <2>1 DEF HandlerAt, Active
<1>8. q \in Dossiers => DossierAt(q)'
  <2>1. SUFFICES ASSUME q \in Dossiers PROVE DossierAt(q)'
    OBVIOUS
  <2>2. S \subseteq rows
    BY <1>3, <2>1, RoutesAssumption
  <2>3. resolved'[q] = {}
    BY <1>1, <1>4, <2>1 DEF DossierAt
  <2>. QED
    BY <1>5, <1>6, <2>2, <2>3 DEF DossierAt
<1>. QED
  BY <1>1, <1>4, <1>5, <1>7, <1>8, RequestSteps DEF TypeOK

LEMMA FindCaseKeeps ==
  ASSUME CaseInv, NEW q \in Requests, FindCase(q)
  PROVE  CaseInv'
<1>. USE DEF CaseInv
<1>1. UNCHANGED signing /\ UNCHANGED tables /\ UNCHANGED <<host, picked, resolved, due, inserts, bundles>>
  BY DEF FindCase
<1>2. HandlersTyped
  BY DEF TypeOK, HandlersTyped
<1>3. pc[q] = "asked" /\ pc' = [pc EXCEPT ![q] = "found"]
  BY DEF FindCase, Goto
<1>4. HandlersTyped' /\ Only(q) /\ pc'[q] = "found"
  BY <1>1, <1>2, <1>3 DEF HandlersTyped, Only, Active
<1>5. UNCHANGED <<key, links, rows>>
  BY <1>1 DEF signing, tables
<1>6. HandlerAt(q)'
  BY <1>1, <1>3, <1>4, <1>5 DEF HandlerAt, Active
<1>7. q \in Dossiers => DossierAt(q)'
  BY <1>1, <1>3, <1>4, <1>5 DEF DossierAt
<1>. QED
  BY <1>1, <1>3, <1>4, <1>6, <1>7, RequestSteps DEF TypeOK

LEMMA ReadLinksKeeps ==
  ASSUME CaseInv, NEW q \in Requests, ReadLinks(q)
  PROVE  CaseInv'
<1>. USE DEF CaseInv
<1>1. UNCHANGED signing /\ UNCHANGED tables /\ UNCHANGED <<host, resolved, due, inserts, bundles>>
  BY DEF ReadLinks
<1>2. HandlersTyped /\ links \subseteq Evidence
  BY DEF TypeOK, HandlersTyped
<1>3. pc[q] = "found" /\ pc' = [pc EXCEPT ![q] = "read"]
  BY DEF ReadLinks, Goto
<1>4. PICK l \in Listings(q, links) : picked' = [picked EXCEPT ![q] = l]
  BY DEF ReadLinks
<1>5. /\ l \in Seq(links) /\ ToSet(l) = links
      /\ \A i, j \in 1 .. Len(l) : i # j => l[i] # l[j]
      /\ q \in Exports => Sorted(l)
  BY <1>4, ListingsListAll
<1>6. l \in Seq(Evidence)
  BY <1>2, <1>5
<1>7. /\ HandlersTyped' /\ Only(q) /\ pc'[q] = "read" /\ picked'[q] = l
  <2>1. HandlersTyped'
    BY <1>1, <1>2, <1>3, <1>4, <1>6 DEF HandlersTyped, Active
  <2>2. Only(q)
    BY <1>1, <1>2, <1>3, <1>4 DEF HandlersTyped, Only
  <2>. QED
    BY <1>2, <1>3, <1>4, <2>1, <2>2 DEF HandlersTyped
<1>8. UNCHANGED <<key, links, rows>>
  BY <1>1 DEF signing, tables
<1>9. HandlerAt(q)'
  <2>1. ListedAt(q)'
    <3>1. due'[q] \subseteq links
      BY <1>1 DEF HandlerAt
    <3>2. PICK m : m = picked'[q] /\ m = l
      BY <1>7
    <3>. QED
      BY <1>5, <1>8, <3>1, <3>2 DEF ListedAt
  <2>. QED
    BY <1>1, <1>3, <1>7, <1>8, <2>1 DEF HandlerAt, Active
<1>10. q \in Dossiers => DossierAt(q)'
  <2>1. SUFFICES ASSUME q \in Dossiers PROVE DossierAt(q)'
    OBVIOUS
  <2>2. resolved'[q] = {} /\ due'[q] \subseteq rows
    BY <1>1, <1>3, <2>1 DEF DossierAt
  <2>3. Entries(q)' = {}
    BY <2>2 DEF Entries
  <2>4. ResolvedAt(q)'
    <3>1. IsFiniteSet({}) /\ Cardinality({}) = 0
      BY FS_EmptySet
    <3>2. PICK E : E = Entries(q)' /\ E = {}
      BY <2>3
    <3>3. Len(l) \in Nat /\ { l[i] : i \in 1 .. 0 } = {}
      BY <1>6
    <3>. QED
      BY <1>7, <2>2, <3>1, <3>2, <3>3 DEF ResolvedAt
  <2>. QED
    BY <1>7, <1>8, <2>2, <2>4 DEF DossierAt
<1>. QED
  BY <1>1, <1>3, <1>7, <1>9, <1>10, RequestSteps DEF TypeOK

LEMMA EntryIsOf ==
  ASSUME NEW e, NEW found
  PROVE  <<e, found>>[1] = e
  OBVIOUS

LEMMA ResolveKeeps ==
  ASSUME CaseInv, NEW d \in Dossiers, Resolve(d)
  PROVE  CaseInv'
<1>. USE DEF CaseInv
<1>1. UNCHANGED signing /\ UNCHANGED tables /\ UNCHANGED <<pc, host, picked, due, inserts, bundles>>
  BY DEF Resolve
<1>2. HandlersTyped /\ d \in Requests
  BY DEF TypeOK, HandlersTyped, Requests
<1>3. HandlerAt(d) /\ ListedAt(d) /\ ResolvedAt(d) /\ pc[d] = "read" /\ due[d] \subseteq rows
  BY <1>2 DEF Resolve, HandlerAt, DossierAt
<1>4. PICK n \in Nat, l \in Seq(Evidence) : n = Cardinality(Entries(d)) /\ l = picked[d] /\ n < Len(l)
  BY <1>2, <1>3, FS_CardinalityType DEF Resolve, ResolvedAt, HandlersTyped
<1>5. PICK e \in Evidence : e = l[n + 1]
  BY <1>4
<1>6. PICK found \in BOOLEAN : found = (e \in Resolvable \cap rows)
  <2>1. (e \in Resolvable \cap rows) \in BOOLEAN
    OBVIOUS
  <2>. QED
    BY <2>1, Zenon
<1>7. resolved' = [resolved EXCEPT ![d] = resolved[d] \cup {<<e, found>>}]
  BY <1>4, <1>5, <1>6 DEF Resolve
<1>8. HandlersTyped' /\ Only(d) /\ resolved'[d] = resolved[d] \cup {<<e, found>>}
  <2>1. HandlersTyped'
    BY <1>1, <1>2, <1>7 DEF HandlersTyped
  <2>2. Only(d)
    BY <1>1, <1>2, <1>7 DEF HandlersTyped, Only
  <2>. QED
    BY <1>2, <1>7, <2>1, <2>2 DEF HandlersTyped
<1>9. UNCHANGED <<key, links, rows>>
  BY <1>1 DEF signing, tables
<1>10. HandlerAt(d)'
  BY <1>1, <1>3, <1>9, HandlerKept DEF HandlerAt
<1>11. ResolvedAt(d)'
  <2>1. Entries(d)' = Entries(d) \cup {e}
    <3>1. PICK entry : entry = <<e, found>> /\ entry[1] = e
      BY EntryIsOf, Zenon
    <3>2. resolved'[d] = resolved[d] \cup {entry}
      BY <1>8, <3>1, Zenon
    <3>. QED
      BY <3>1, <3>2 DEF Entries
  <2>2. Entries(d) = { l[i] : i \in 1 .. n } /\ IsFiniteSet(Entries(d))
    BY <1>3, <1>4 DEF ResolvedAt
  <2>3. \A i, j \in 1 .. Len(l) : i # j => l[i] # l[j]
    BY <1>3, <1>4 DEF ListedAt
  <2>4. e \notin Entries(d)
    <3>1. n + 1 \in 1 .. Len(l) /\ \A i \in 1 .. n : i \in 1 .. Len(l) /\ i # n + 1
      BY <1>4
    <3>2. \A i \in 1 .. n : l[i] # e
      BY <1>5, <2>3, <3>1
    <3>. QED
      BY <2>2, <3>2
  <2>5. IsFiniteSet(Entries(d) \cup {e}) /\ Cardinality(Entries(d) \cup {e}) = Cardinality(Entries(d)) + 1
    BY <2>2, <2>4, FS_AddElement
  <2>6. PICK E : E = Entries(d) \cup {e} /\ E = Entries(d)' /\ IsFiniteSet(E) /\ Cardinality(E) = n + 1
    BY <1>4, <2>1, <2>5
  <2>7. E = { l[i] : i \in 1 .. n + 1 }
    BY <1>5, <2>2, <2>6
  <2>8. e \in due[d] => found = TRUE
    BY <1>3, <1>6 DEF TypeOK
  <2>9. \A f \in due[d] : <<f, FALSE>> \notin resolved'[d]
    BY <1>3, <1>8, <2>8 DEF ResolvedAt
  <2>10. picked'[d] = l /\ due'[d] = due[d]
    BY <1>1, <1>4
  <2>11. n + 1 <= Len(l)
    BY <1>4
  <2>12. Entries(d)' = { picked'[d][i] : i \in 1 .. Cardinality(Entries(d)') }
    BY <2>6, <2>7, <2>10
  <2>13. IsFiniteSet(Entries(d)') /\ Cardinality(Entries(d)') <= Len(picked'[d])
    BY <2>6, <2>10, <2>11
  <2>14. \A f \in due'[d] : <<f, FALSE>> \notin resolved'[d]
    BY <2>9, <2>10
  <2>. QED
    BY <2>12, <2>13, <2>14 DEF ResolvedAt
<1>12. DossierAt(d)'
  BY <1>1, <1>3, <1>9, <1>11 DEF DossierAt
<1>. QED
  BY <1>1, <1>2, <1>3, <1>8, <1>10, <1>12, RequestSteps DEF TypeOK

-----------------------------------------------------------------------------
(* Bundles *)

LEMMA SignKeeps ==
  ASSUME CaseInv, NEW x \in Exports, SignAndInsert(x)
  PROVE  CaseInv'
<1>. USE DEF CaseInv
<1>1. UNCHANGED signing /\ UNCHANGED tables /\ UNCHANGED <<host, picked, resolved, due, bundles>>
  BY DEF SignAndInsert
<1>2. HandlersTyped /\ x \in Requests /\ x \notin Dossiers
  BY RoutesAssumption DEF TypeOK, HandlersTyped, Requests
<1>3. pc[x] = "read" /\ pc' = [pc EXCEPT ![x] = "inserting"]
  BY DEF SignAndInsert, Goto
<1>4. HandlersTyped' /\ Only(x) /\ pc'[x] = "inserting"
  BY <1>1, <1>2, <1>3 DEF HandlersTyped, Only, Active
<1>5. UNCHANGED <<env, configured, key, links, rows>>
  BY <1>1 DEF signing, tables
<1>6. HandlerAt(x) /\ ListedAt(x) /\ host[x] \in Replicas /\ key[host[x]] # None
  BY <1>2, <1>3 DEF HandlerAt, HandlersTyped, Active
<1>7. HandlerAt(x)'
  <2>1. ListedAt(x)'
    BY <1>1, <1>5, <1>6, ListedKept
  <2>. QED
    BY <1>1, <1>3, <1>4, <1>5, <1>6, <2>1 DEF HandlerAt, Active
<1>8. PICK k : k = key[host[x]]
  OBVIOUS
<1>9. k \in Keys /\ (env = "production" => k \in configured)
  BY <1>6, <1>8 DEF TypeOK, KeysAreKnown
<1>10. PICK t \in Times :
         inserts' = inserts \cup {Bundle(x, [signed_at |-> t, evidence |-> picked[x]], k)}
  BY <1>8 DEF SignAndInsert
<1>11. PICK m \in Manifests : m = [signed_at |-> t, evidence |-> picked[x]]
  BY <1>2 DEF Manifests, HandlersTyped
<1>12. PICK b \in Bundles : /\ b = Bundle(x, m, k) /\ b.by = x /\ b.manifest = m
                            /\ b.manifest_sha256 = m /\ b.signature = <<k, m>> /\ b.public_key = k
  <2>1. <<k, m>> \in Keys \X Manifests
    BY <1>9
  <2>2. Bundle(x, m, k) \in Bundles
    BY <1>9, <2>1 DEF Bundle, Bundles
  <2>. QED
    BY <2>2 DEF Bundle
<1>13. inserts' = inserts \cup {b}
  BY <1>10, <1>11, <1>12
<1>14. BundleAt(b)'
  <2>1. VerifyBundle(b)
    BY <1>12 DEF VerifyBundle
  <2>2. b.manifest.evidence = picked[x]
    BY <1>11, <1>12
  <2>. QED
    BY <1>1, <1>4, <1>5, <1>6, <1>9, <1>12, <2>1, <2>2 DEF BundleAt, ListedAt
<1>15. inserts' \subseteq Bundles /\ bundles' \subseteq Bundles
  BY <1>1, <1>13 DEF TypeOK
<1>16. \A c \in inserts' \cup bundles' : c \in inserts \cup bundles \/ BundleAt(c)'
  BY <1>1, <1>13, <1>14
<1>. QED
  BY <1>1, <1>2, <1>4, <1>7, <1>15, <1>16, RequestSteps

\* An INSERT lands, or is lost.
LEMMA InsertsKeep ==
  ASSUME CaseInv, NEW b \in inserts, InsertLands(b) \/ InsertLost(b)
  PROVE  CaseInv'
<1>. USE DEF CaseInv
<1>1. UNCHANGED signing /\ UNCHANGED tables /\ UNCHANGED handlers
      /\ inserts' \cup bundles' \subseteq inserts \cup bundles
  BY DEF InsertLands, InsertLost
<1>2. UNCHANGED <<env, secret, configured, issued, key, stops, open, links, rows, pc, host, picked, resolved, due>>
  BY <1>1 DEF signing, tables, handlers
<1>3. TypeOK' /\ KeysAreKnown'
  BY <1>1, <1>2 DEF TypeOK, KeysAreKnown
<1>4. \A q \in Requests : HandlerAt(q)'
  <2> TAKE q \in Requests
  <2>1. HandlerAt(q) /\ (host[q] # None => key'[host[q]] # None)
    BY <1>2 DEF HandlerAt
  <2>. QED
    BY <1>2, <2>1, HandlerKept
<1>5. \A d \in Dossiers : DossierAt(d)'
  BY <1>2, DossierKept
<1>6. \A c \in inserts' \cup bundles' : BundleAt(c)'
  BY <1>1, <1>2, BundleKept
<1>. QED
  BY <1>2, <1>3, <1>4, <1>5, <1>6

-----------------------------------------------------------------------------
(* The theorems *)

LEMMA CaseInitInv == Init => CaseInv
<1> SUFFICES ASSUME Init
             PROVE  CaseInv
  OBVIOUS
<1>. USE DEF Init
<1>1. TypeOK
  <2>1. <<>> \in Seq(Evidence)
    OBVIOUS
  <2>2. secret \in Keys \cup {None} /\ configured = {secret} \ {None} /\ issued = configured
    OBVIOUS
  <2>3. configured \subseteq issued /\ issued \subseteq Keys
    BY <2>2
  <2>4. /\ pc \in [Requests -> {"idle", "replied", "ended"} \cup Active]
        /\ host \in [Requests -> Replicas \cup {None}]
        /\ picked \in [Requests -> Seq(Evidence)]
        /\ resolved \in [Requests -> SUBSET (Evidence \X BOOLEAN)]
        /\ due \in [Requests -> SUBSET Evidence]
    BY <2>1
  <2>5. key \in [Replicas -> issued \cup {None}] /\ stops \in 0 .. MaxStops
    BY BoundsAssumption
  <2>. QED
    BY <2>2, <2>3, <2>4, <2>5 DEF TypeOK
<1>2. KeysAreKnown
  BY KeysAssumption DEF KeysAreKnown
<1>3. IsFiniteSet(links)
  BY FS_EmptySet
<1>4. \A q \in Requests : HandlerAt(q)
  BY DEF HandlerAt, Active
<1>5. \A d \in Dossiers : DossierAt(d)
  BY DEF DossierAt, Requests
<1>. QED
  BY <1>1, <1>2, <1>3, <1>4, <1>5 DEF CaseInv

LEMMA CaseNextInv == CaseInv /\ [Next]_vars => CaseInv'
<1> SUFFICES ASSUME CaseInv, [Next]_vars
             PROVE  CaseInv'
  OBVIOUS
<1>1. CASE (\E r \in Replicas : Start(r)) \/ Rotate
  BY <1>1, KeyStepsKeep
<1>2. CASE \E r \in Replicas : Stop(r)
  BY <1>2, StopKeeps
<1>3. CASE OpenCase \/ \E e \in Evidence : CommitRow(e) \/ Link(e)
  BY <1>3, WritersKeep
<1>4. ASSUME NEW q \in Requests,
             \/ \E r \in Replicas : Receive(q, r)
             \/ FindCase(q) \/ CaseMissing(q) \/ ReadLinks(q) \/ HandlerFails(q)
      PROVE  CaseInv'
  BY <1>4, ReceiveKeeps, FindCaseKeeps, EndsKeep, ReadLinksKeeps
<1>5. ASSUME NEW x \in Exports, SignAndInsert(x) \/ ReplyBundle(x)
      PROVE  CaseInv'
  BY <1>5, SignKeeps, ReplyBundleKeeps
<1>6. CASE \E b \in inserts : InsertLands(b) \/ InsertLost(b)
  BY <1>6, InsertsKeep
<1>7. ASSUME NEW d \in Dossiers, Resolve(d) \/ ReplyDossier(d)
      PROVE  CaseInv'
  BY <1>7, ResolveKeeps, ReplyDossierKeeps
<1>8. CASE UNCHANGED vars
  <2>1. UNCHANGED signing /\ UNCHANGED tables /\ UNCHANGED handlers /\ UNCHANGED <<inserts, bundles>>
    BY <1>8 DEF vars
  <2>2. UNCHANGED <<env, secret, configured, issued, key, stops, open, links, rows, pc, host, picked,
                    resolved, due, inserts, bundles>>
    BY <2>1 DEF signing, tables, handlers
  <2>3. TypeOK' /\ KeysAreKnown' /\ IsFiniteSet(links')
    BY <2>2 DEF CaseInv, TypeOK, KeysAreKnown
  <2>4. \A q \in Requests : HandlerAt(q)'
    <3> TAKE q \in Requests
    <3>1. HandlerAt(q) /\ (host[q] # None => key'[host[q]] # None)
      BY <2>2 DEF CaseInv, HandlerAt
    <3>. QED
      BY <2>2, <3>1, HandlerKept
  <2>5. \A d \in Dossiers : DossierAt(d)'
    BY <2>2, DossierKept DEF CaseInv
  <2>6. \A b \in inserts' \cup bundles' : BundleAt(b)'
    BY <2>2, BundleKept DEF CaseInv
  <2>. QED
    BY <2>3, <2>4, <2>5, <2>6 DEF CaseInv
<1>. QED
  BY <1>1, <1>2, <1>3, <1>4, <1>5, <1>6, <1>7, <1>8 DEF Next

LEMMA CaseInvariant == Spec => []CaseInv
  BY CaseInitInv, CaseNextInv, PTL DEF Spec

\* Keys, links, handlers and bundles keep their types, whoever stops and
\* whatever the operator does to the secret.
THEOREM CaseTypeCorrect == Spec => []TypeOK
<1>1. CaseInv => TypeOK
  BY DEF CaseInv
<1>. QED
  BY <1>1, CaseInvariant, PTL

\* A bundle holds every link that was there when it was asked for, and none
\* that is not there now, although create reads case and links in statements of
\* their own and the INSERT may land late.
THEOREM BundlesAreBracketed == Spec => []ExportIsBracketed
<1>1. CaseInv => ExportIsBracketed
  BY DEF CaseInv, BundleAt, ExportIsBracketed
<1>. QED
  BY <1>1, CaseInvariant, PTL

\* Bundles of the same time, evidence and key have the same manifest and the
\* same signature; every bundle verifies; and in production the key is one the
\* operator configured.
THEOREM EqualExportsAreEqual == Spec => []BundlesAreReproducible
<1>1. CaseInv => BundlesAreReproducible
  <2> SUFFICES ASSUME CaseInv, NEW b \in bundles
               PROVE  /\ VerifyBundle(b) /\ (env = "production" => b.public_key \in configured)
                      /\ \A c \in bundles :
                           /\ b.manifest.signed_at = c.manifest.signed_at
                           /\ ToSet(b.manifest.evidence) = ToSet(c.manifest.evidence)
                           /\ b.public_key = c.public_key
                           => b.manifest = c.manifest /\ b.signature = c.signature
    BY DEF BundlesAreReproducible
  <2>1. BundleAt(b) /\ b \in Bundles
    BY DEF CaseInv, TypeOK
  <2>2. ASSUME NEW c \in bundles, b.manifest.signed_at = c.manifest.signed_at,
               ToSet(b.manifest.evidence) = ToSet(c.manifest.evidence), b.public_key = c.public_key
        PROVE  b.manifest = c.manifest /\ b.signature = c.signature
    <3>1. BundleAt(c) /\ c \in Bundles
      BY DEF CaseInv, TypeOK
    <3>2. b.manifest \in Manifests /\ c.manifest \in Manifests
      BY <2>1, <3>1 DEF Bundles
    <3>3. b.manifest.evidence \in Seq(Evidence) /\ c.manifest.evidence \in Seq(Evidence)
      BY <3>2 DEF Manifests
    <3>4. b.manifest.evidence = c.manifest.evidence
      BY <2>1, <2>2, <3>1, <3>3, SortedListsAgree DEF BundleAt
    <3>5. b.manifest = c.manifest
      BY <2>2, <3>2, <3>4 DEF Manifests
    <3>. QED
      BY <2>1, <2>2, <3>1, <3>5 DEF BundleAt, VerifyBundle
  <2>. QED
    BY <2>1, <2>2 DEF BundleAt
<1>. QED
  BY <1>1, CaseInvariant, PTL

\* No link and no row that was there when a dossier was asked for is missing
\* from it, although it looks its rows up one by one.
THEOREM DossiersResolveWhatIsOlder == Spec => []DossierResolvesOlder
<1>1. CaseInv => DossierResolvesOlder
  BY DEF CaseInv, DossierAt, DossierResolvesOlder
<1>. QED
  BY <1>1, CaseInvariant, PTL

=============================================================================
