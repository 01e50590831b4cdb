--------------------------- MODULE HashChainProofs --------------------------
(***************************************************************************)
(* Proofs about HashChain, for every set of requests, runs, tables and     *)
(* ids, every assignment of lock keys (collisions included) and every      *)
(* number of legacy rows.                                                  *)
(***************************************************************************)
EXTENDS HashChain, TLAPS

-----------------------------------------------------------------------------
(* The inductive invariant *)

\* An advisory lock has one holder.
OneHolder ==
  \A h, g \in holders : h[1] = g[1] => h[2] = g[2]

\* Only the events handler takes the run lock and numbers its row, and a
\* handler past its locks holds them until it ends.
HoldsLocks ==
  \A r \in Requests :
    /\ pc[r] \in {"runlocked", "numbered"} => target[r] \in Numbered
    /\ target[r] \notin Numbered => row[r].seq = 0
    /\ pc[r] \in {"chainlocked", "linked", "inserted"}
         => <<ChainKey[target[r]], r>> \in holders
    /\ pc[r] \in {"runlocked", "numbered", "chainlocked", "linked", "inserted"}
       /\ target[r] \in Numbered
         => <<RunKey[target[r][2]], r>> \in holders

\* The tail lookup has an answer on a non-empty chain.
HasNewest ==
  \A c \in Chains : log[c] # <<>> => \E a \in RowsOf(log[c]) : IsNewest(a, RowsOf(log[c]))

\* PRIMARY KEY, within a chain and against the row about to be committed.
UniqueIds ==
  /\ \A c \in Chains : \A i, j \in 1 .. Len(log[c]) :
       log[c][i].id = log[c][j].id => i = j
  /\ \A r \in Requests : pc[r] = "inserted" =>
       \A b \in RowsOf(log[target[r]]) : b.id # row[r].id

IInv == /\ TypeOK /\ OneHolder /\ HoldsLocks /\ HasNewest /\ UniqueIds
        /\ SeqConsecutive /\ SeqNotStale /\ LinkNotStale
        /\ RootedTree /\ LinearUnlessOvertaken

-----------------------------------------------------------------------------
(* The operators of ChainOrder *)

\* The rows of a log after an append are the old rows and the new one.
LEMMA RowsOfAppend ==
  ASSUME NEW s \in Seq(RowType), NEW a \in RowType
  PROVE  /\ RowsOf(Append(s, a)) = RowsOf(s) \cup {a}
         /\ Append(s, a) \in Seq(RowType)
         /\ Len(Append(s, a)) = Len(s) + 1
         /\ \A i \in 1 .. Len(s) : Append(s, a)[i] = s[i]
         /\ Append(s, a)[Len(s) + 1] = a
  BY DEF RowsOf

\* A row of a log is a row.
LEMMA RowsOfType ==
  ASSUME NEW s \in Seq(RowType)
  PROVE  /\ RowsOf(s) \subseteq RowType
         /\ s # <<>> => s[1] \in RowsOf(s) /\ Len(s) > 0
         /\ s = <<>> => RowsOf(s) = {} /\ Len(s) = 0
  BY DEF RowsOf

\* An append to a log whose tail lookup has an answer leaves it one.
LEMMA NewestAfterAppend ==
  ASSUME NEW s \in Seq(RowType), NEW a \in RowType,
         s # <<>> => \E b \in RowsOf(s) : IsNewest(b, RowsOf(s))
  PROVE  \E b \in RowsOf(Append(s, a)) : IsNewest(b, RowsOf(Append(s, a)))
<1> DEFINE R == RowsOf(s)
<1>1. RowsOf(Append(s, a)) = R \cup {a}
  BY RowsOfAppend
<1>2. R \subseteq RowType
  BY RowsOfType
<1>3. CASE s = <<>>
  <2>1. R = {}
    BY <1>3, RowsOfType
  <2>2. IsNewest(a, {a})
    BY DEF IsNewest, Later, RowType
  <2>. QED
    BY <1>1, <2>1, <2>2
<1>4. CASE s # <<>>
  <2>1. PICK b \in R : IsNewest(b, R)
    BY <1>4
  <2>2. CASE Later(a, b)
    <3>1. \A x \in R : ~ Later(x, a)
      BY <1>2, <2>1, <2>2 DEF IsNewest, Later, RowType
    <3>2. IsNewest(a, R \cup {a})
      BY <3>1 DEF IsNewest, Later, RowType
    <3>. QED
      BY <1>1, <3>2
  <2>3. CASE ~ Later(a, b)
    <3>1. IsNewest(b, R \cup {a})
      BY <2>1, <2>3 DEF IsNewest
    <3>. QED
      BY <1>1, <2>1, <3>1
  <2>. QED
    BY <2>2, <2>3
<1>. QED
  BY <1>3, <1>4

\* On a log whose tail lookup has an answer, TailId is the id of that row.
LEMMA TailIdOf ==
  ASSUME NEW s \in Seq(RowType),
         s # <<>> => \E b \in RowsOf(s) : IsNewest(b, RowsOf(s))
  PROVE  /\ TailId(s) \in Nat
         /\ s = <<>> => TailId(s) = Genesis
         /\ s # <<>> => \E b \in RowsOf(s) : IsNewest(b, RowsOf(s)) /\ TailId(s) = b.id
<1>1. CASE s = <<>>
  BY <1>1 DEF TailId, Genesis
<1>2. CASE s # <<>>
  <2> DEFINE t == CHOOSE a \in RowsOf(s) : IsNewest(a, RowsOf(s))
  <2>1. t \in RowsOf(s) /\ IsNewest(t, RowsOf(s))
    BY <1>2
  <2>2. TailId(s) = t.id
    BY <1>2 DEF TailId
  <2>3. t \in RowType
    BY <2>1, RowsOfType
  <2>. QED
    BY <1>2, <2>1, <2>2, <2>3 DEF RowType
<1>. QED
  BY <1>1, <1>2

\* MAX(seq) of rows numbered consecutively is the last number given.
LEMMA MaxSeqOf ==
  ASSUME NEW s \in Seq(RowType), NEW legacy \in Nat,
         \A i \in 1 .. Len(s) : s[i].seq = legacy + i
  PROVE  MaxSeq(s, legacy) = legacy + Len(s)
<1> DEFINE seqs == { a.seq : a \in RowsOf(s) } \cup {legacy}
<1>1. \A n \in seqs : n \in Nat /\ n <= legacy + Len(s)
  BY DEF RowsOf
<1>2. legacy + Len(s) \in seqs
  <2>1. CASE Len(s) = 0
    BY <2>1
  <2>2. CASE Len(s) # 0
    <3>1. Len(s) \in 1 .. Len(s)
      BY <2>2
    <3>2. s[Len(s)] \in RowsOf(s) /\ s[Len(s)].seq = legacy + Len(s)
      BY <3>1 DEF RowsOf
    <3>. QED
      BY <3>2
  <2>. QED
    BY <2>1, <2>2
<1>3. legacy + Len(s) \in Nat
  OBVIOUS
<1> HIDE DEF seqs
<1>4. (CHOOSE m \in seqs : \A n \in seqs : n <= m) = legacy + Len(s)
  <2> DEFINE m == CHOOSE m \in seqs : \A n \in seqs : n <= m
  <2>1. m \in seqs /\ \A n \in seqs : n <= m
    BY <1>1, <1>2
  <2>2. m \in Nat /\ m <= legacy + Len(s) /\ legacy + Len(s) <= m
    BY <1>1, <1>2, <2>1
  <2>. QED
    BY <1>3, <2>2
<1>. QED
  BY <1>4 DEF MaxSeq, seqs

-----------------------------------------------------------------------------
(* The invariant is inductive *)

\* The initial states satisfy the invariant.
LEMMA InitIInv == Init => IInv
<1> SUFFICES ASSUME Init PROVE IInv
  OBVIOUS
<1>1. TypeOK
  BY IdsAssumption, ClockAssumption DEF Init, TypeOK, RowType, Genesis
<1>2. OneHolder /\ HoldsLocks /\ UniqueIds
  BY DEF Init, OneHolder, HoldsLocks, UniqueIds
<1>3. HasNewest /\ SeqConsecutive /\ RootedTree /\ LinearUnlessOvertaken
  <2>1. \A c \in Chains : log[c] = <<>> /\ Len(log[c]) = 0
    BY DEF Init
  <2>2. Numbered \subseteq Chains
    BY TablesAssumption DEF Numbered, Chains
  <2>. QED
    BY <2>1, <2>2 DEF HasNewest, SeqConsecutive, RootedTree, LinearUnlessOvertaken
<1>4. SeqNotStale /\ LinkNotStale
  BY DEF Init, SeqNotStale, LinkNotStale
<1>. QED
  BY <1>1, <1>2, <1>3, <1>4 DEF IInv

\* Ending a transaction without effect keeps the invariant.
LEMMA RollbackIInv ==
  ASSUME IInv, NEW r \in Requests, Rollback(r)
  PROVE  IInv'
<1> USE DEF IInv, Rollback, ReleaseAll
<1>1. TypeOK'
  BY DEF TypeOK, Ended
<1>2. OneHolder'
  BY DEF OneHolder
<1>3. HoldsLocks'
  BY DEF HoldsLocks, TypeOK
<1>4. (HasNewest /\ SeqConsecutive /\ RootedTree /\ LinearUnlessOvertaken)'
  BY DEF HasNewest, SeqConsecutive, RootedTree, LinearUnlessOvertaken
<1>5. (UniqueIds /\ SeqNotStale /\ LinkNotStale)'
  BY DEF UniqueIds, SeqNotStale, LinkNotStale, TypeOK
<1>. QED
  BY <1>1, <1>2, <1>3, <1>4, <1>5

\* The clock disturbs nothing.
LEMMA TickIInv == IInv /\ Tick => IInv'
  BY ClockAssumption DEF IInv, Tick, TypeOK, OneHolder, HoldsLocks, HasNewest, UniqueIds,
     SeqConsecutive, SeqNotStale, LinkNotStale, RootedTree, LinearUnlessOvertaken

\* A new run disturbs nothing.
LEMMA CreateRunIInv == ASSUME IInv, NEW u \in Runs, CreateRun(u) PROVE IInv'
  BY DEF IInv, CreateRun, TypeOK, OneHolder, HoldsLocks, HasNewest, UniqueIds,
     SeqConsecutive, SeqNotStale, LinkNotStale, RootedTree, LinearUnlessOvertaken

\* BEGIN gives the row its created_at and keeps the invariant.
LEMMA BeginIInv == ASSUME IInv, NEW r \in Requests, Begin(r) PROVE IInv'
<1> USE DEF IInv, Begin
<1>1. TypeOK'
  BY DEF TypeOK, Open
<1>2. (OneHolder /\ HoldsLocks)'
  BY DEF OneHolder, HoldsLocks, TypeOK
<1>3. (HasNewest /\ SeqConsecutive /\ RootedTree /\ LinearUnlessOvertaken)'
  BY DEF HasNewest, SeqConsecutive, RootedTree, LinearUnlessOvertaken
<1>4. (UniqueIds /\ SeqNotStale /\ LinkNotStale)'
  BY DEF UniqueIds, SeqNotStale, LinkNotStale, TypeOK
<1>. QED
  BY <1>1, <1>2, <1>3, <1>4

\* Taking a lock keeps one holder per key.
LEMMA AcquireOneHolder ==
  ASSUME TypeOK, OneHolder, NEW r \in Requests, NEW k, Acquire(k, r)
  PROVE  OneHolder'
  BY DEF TypeOK, OneHolder, Acquire, Free

\* Taking the run lock keeps the invariant: the lock it needs is the lock it gets.
LEMMA LockRunIInv == ASSUME IInv, NEW r \in Requests, LockRun(r) PROVE IInv'
<1> USE DEF IInv, LockRun
<1>1. TypeOK'
  <2>1. RunKey[target[r][2]] \in Keys
    BY KeysAssumption DEF TypeOK, Numbered, Chains
  <2>. QED
    BY <2>1 DEF TypeOK, Open, Acquire
<1>2. OneHolder'
  BY AcquireOneHolder
<1>3. HoldsLocks'
  BY DEF HoldsLocks, TypeOK, Acquire
<1>4. (HasNewest /\ SeqConsecutive /\ RootedTree /\ LinearUnlessOvertaken)'
  BY DEF HasNewest, SeqConsecutive, RootedTree, LinearUnlessOvertaken
<1>5. (UniqueIds /\ SeqNotStale /\ LinkNotStale)'
  BY DEF UniqueIds, SeqNotStale, LinkNotStale, TypeOK
<1>. QED
  BY <1>1, <1>2, <1>3, <1>4, <1>5

\* Numbering a row keeps the invariant: no other append of the run is past its lock.
LEMMA AssignSeqIInv == ASSUME IInv, NEW r \in Requests, AssignSeq(r) PROVE IInv'
<1> USE DEF IInv, AssignSeq
<1> DEFINE c == target[r]
           m == MaxSeq(log[c], LegacyRows[c])
<1>1. m \in Nat
  <2>1. log[c] \in Seq(RowType) /\ LegacyRows[c] \in Nat
    BY LegacyAssumption DEF TypeOK
  <2>2. \A i \in 1 .. Len(log[c]) : log[c][i].seq = LegacyRows[c] + i
    BY DEF SeqConsecutive, HoldsLocks
  <2>3. m = LegacyRows[c] + Len(log[c])
    BY <2>1, <2>2, MaxSeqOf
  <2>. QED
    BY <2>1, <2>3
<1> HIDE DEF m
<1>2. row' = [row EXCEPT ![r].seq = m + 1]
  BY DEF m
<1>3. TypeOK'
  <2>1. m + 1 \in Nat
    BY <1>1
  <2>. QED
    BY <1>2, <2>1 DEF TypeOK, Open
<1>4. (OneHolder /\ HoldsLocks)'
  BY DEF OneHolder, HoldsLocks, TypeOK
<1>5. (HasNewest /\ SeqConsecutive /\ RootedTree /\ LinearUnlessOvertaken)'
  BY DEF HasNewest, SeqConsecutive, RootedTree, LinearUnlessOvertaken
<1>6. (UniqueIds /\ LinkNotStale)'
  BY DEF UniqueIds, LinkNotStale, TypeOK
<1>7. SeqNotStale'
  <2> SUFFICES ASSUME NEW q \in Requests,
                      pc'[q] \in {"numbered", "chainlocked", "linked", "inserted"},
                      target'[q] \in Numbered
               PROVE  row'[q].seq = MaxSeq(log'[target'[q]], LegacyRows[target'[q]]) + 1
    BY DEF SeqNotStale
  <2>1. CASE q = r
    BY <1>2, <2>1 DEF m, TypeOK
  <2>2. CASE q # r
    BY <2>2 DEF SeqNotStale, TypeOK
  <2>. QED
    BY <2>1, <2>2
<1>. QED
  BY <1>3, <1>4, <1>5, <1>6, <1>7

\* Taking the chain lock keeps the invariant.
LEMMA LockChainIInv == ASSUME IInv, NEW r \in Requests, LockChain(r) PROVE IInv'
<1> USE DEF IInv, LockChain
<1>1. TypeOK'
  <2>1. ChainKey[target[r]] \in Keys
    BY KeysAssumption DEF TypeOK
  <2>. QED
    BY <2>1 DEF TypeOK, Open, Acquire
<1>2. OneHolder'
  BY AcquireOneHolder
<1>3. HoldsLocks'
  BY DEF HoldsLocks, TypeOK, Acquire
<1>4. (HasNewest /\ SeqConsecutive /\ RootedTree /\ LinearUnlessOvertaken)'
  BY DEF HasNewest, SeqConsecutive, RootedTree, LinearUnlessOvertaken
<1>5. (UniqueIds /\ SeqNotStale /\ LinkNotStale)'
  BY DEF UniqueIds, SeqNotStale, LinkNotStale, TypeOK
<1>. QED
  BY <1>1, <1>2, <1>3, <1>4, <1>5

\* Linking a row keeps the invariant: the link is to the tail of this moment.
LEMMA ReadTailIInv == ASSUME IInv, NEW r \in Requests, ReadTail(r) PROVE IInv'
<1> USE DEF IInv, ReadTail
<1> DEFINE t == TailId(log[target[r]])
<1>1. t \in Nat
  BY TailIdOf DEF TypeOK, HasNewest
<1> HIDE DEF t
<1>2. row' = [row EXCEPT ![r].prev = t]
  BY DEF t
<1>3. TypeOK'
  BY <1>1, <1>2 DEF TypeOK, Open
<1>4. (OneHolder /\ HoldsLocks)'
  BY DEF OneHolder, HoldsLocks, TypeOK
<1>5. (HasNewest /\ SeqConsecutive /\ RootedTree /\ LinearUnlessOvertaken)'
  BY DEF HasNewest, SeqConsecutive, RootedTree, LinearUnlessOvertaken
<1>6. (UniqueIds /\ SeqNotStale)'
  BY DEF UniqueIds, SeqNotStale, TypeOK
<1>7. LinkNotStale'
  <2> SUFFICES ASSUME NEW q \in Requests, pc'[q] \in {"linked", "inserted"}
               PROVE  row'[q].prev = TailId(log'[target'[q]])
    BY DEF LinkNotStale
  <2>1. CASE q = r
    BY <1>2, <2>1 DEF t, TypeOK
  <2>2. CASE q # r
    BY <2>2 DEF LinkNotStale, TypeOK
  <2>. QED
    BY <2>1, <2>2
<1>. QED
  BY <1>3, <1>4, <1>5, <1>6, <1>7

\* INSERT keeps the invariant: the row's id is new to its chain.
LEMMA InsertIInv == ASSUME IInv, NEW r \in Requests, Insert(r) PROVE IInv'
<1> USE DEF IInv, Insert
<1>1. TypeOK'
  BY DEF TypeOK, Open
<1>2. (OneHolder /\ HoldsLocks)'
  BY DEF OneHolder, HoldsLocks, TypeOK
<1>3. (HasNewest /\ SeqConsecutive /\ RootedTree /\ LinearUnlessOvertaken)'
  BY DEF HasNewest, SeqConsecutive, RootedTree, LinearUnlessOvertaken
<1>4. (SeqNotStale /\ LinkNotStale)'
  BY DEF SeqNotStale, LinkNotStale, TypeOK
<1>5. UniqueIds'
  <2>1. \A b \in RowsOf(log[target[r]]) : b.id # row[r].id
    BY DEF ClashesCommitted, Clashes, TypeOK
  <2>. QED
    BY <2>1 DEF UniqueIds, TypeOK
<1>. QED
  BY <1>1, <1>2, <1>3, <1>4, <1>5

\* While a transaction that has its chain lock is open, no other transaction on
\* the same chain is past that lock, nor, on an events chain, past the numbering.
LEMMA ChainExclusive ==
  ASSUME IInv, NEW q \in Requests, NEW r \in Requests, q # r, target[q] = target[r],
         pc[r] \in {"chainlocked", "linked", "inserted"}
  PROVE  /\ pc[q] \notin {"chainlocked", "linked", "inserted"}
         /\ target[q] \in Numbered => pc[q] \notin {"numbered", "chainlocked", "linked", "inserted"}
  BY DEF IInv, OneHolder, HoldsLocks

\* COMMIT keeps the invariant: the one step that extends a chain.
LEMMA CommitIInv == ASSUME IInv, NEW r \in Requests, Commit(r) PROVE IInv'
<1> USE DEF IInv
<1> DEFINE c == target[r]
           s == log[c]
           a == row[r]
           n == Len(s)
           t == Append(s, a)
<1>1. /\ pc[r] = "inserted" /\ pc' = [pc EXCEPT ![r] = "committed"]
      /\ c \in Chains /\ s \in Seq(RowType) /\ a \in RowType /\ n \in Nat
      /\ log' = [log EXCEPT ![c] = t]
      /\ UNCHANGED <<clock, runs, target, row>>
      /\ holders' = { h \in holders : h[2] # r }
  <2>1. /\ pc[r] = "inserted" /\ pc' = [pc EXCEPT ![r] = "committed"]
        /\ log' = [log EXCEPT ![c] = t]
        /\ UNCHANGED <<clock, runs, target, row>>
        /\ holders' = { h \in holders : h[2] # r }
    BY DEF Commit, ReleaseAll
  <2>2. c \in Chains /\ s \in Seq(RowType) /\ n \in Nat
    BY DEF TypeOK
  <2>3. a \in RowType
    <3>1. a \in [id : Ids, created : 0 .. MaxClock, seq : Nat, prev : Nat]
      BY DEF TypeOK
    <3>2. \A k \in 0 .. MaxClock : k \in Nat
      BY ClockAssumption
    <3>. QED
      BY <3>1, <3>2, IdsAssumption DEF RowType
  <2>. QED
    BY <2>1, <2>2, <2>3
<1>2. /\ RowsOf(t) = RowsOf(s) \cup {a}
      /\ t \in Seq(RowType) /\ Len(t) = n + 1
      /\ \A i \in 1 .. n : t[i] = s[i]
      /\ t[n + 1] = a
  BY <1>1, RowsOfAppend
<1>3. a.prev = TailId(s)
  BY <1>1 DEF LinkNotStale
<1>4. log'[c] = t /\ \A d \in Chains : d # c => log'[d] = log[d]
  BY <1>1 DEF TypeOK
<1> HIDE DEF s, a, n, t
<1>5. TypeOK'
  BY <1>1, <1>2 DEF TypeOK, Ended
<1>6. OneHolder'
  BY <1>1 DEF OneHolder
<1>7. HoldsLocks'
  BY <1>1 DEF HoldsLocks, TypeOK
<1>8. HasNewest'
  <2>1. \E b \in RowsOf(t) : IsNewest(b, RowsOf(t))
    BY <1>1, NewestAfterAppend DEF HasNewest, s, t
  <2>. QED
    BY <1>4, <2>1 DEF HasNewest
<1>9. UniqueIds'
  <2>1. \A i \in 1 .. n : s[i].id # a.id
    BY <1>1 DEF UniqueIds, RowsOf, s, a, n
  <2>2. \A i, j \in 1 .. n : s[i].id = s[j].id => i = j
    BY <1>1 DEF UniqueIds, s, n
  <2>3. \A i, j \in 1 .. n + 1 : t[i].id = t[j].id => i = j
    <3>1. \A i \in 1 .. n + 1 : i \in 1 .. n \/ i = n + 1
      BY <1>1
    <3>. QED
      BY <1>2, <2>1, <2>2, <3>1
  <2>4. \A d \in Chains : \A i, j \in 1 .. Len(log'[d]) :
          log'[d][i].id = log'[d][j].id => i = j
    BY <1>2, <1>4, <2>3 DEF UniqueIds
  <2>5. ASSUME NEW q \in Requests, pc'[q] = "inserted"
        PROVE  \A b \in RowsOf(log'[target'[q]]) : b.id # row'[q].id
    <3>1. q # r /\ pc[q] = "inserted" /\ target[q] \in Chains
      BY <1>1, <2>5 DEF TypeOK
    <3>2. target[q] # c
      BY <1>1, <3>1, ChainExclusive
    <3>3. log'[target'[q]] = log[target[q]] /\ row'[q] = row[q]
      BY <1>1, <1>4, <3>1, <3>2
    <3>. QED
      BY <3>1, <3>3 DEF UniqueIds
  <2>. QED
    BY <2>4, <2>5 DEF UniqueIds
<1>10. SeqConsecutive'
  <2>1. ASSUME c \in Numbered
        PROVE  a.seq = LegacyRows[c] + (n + 1)
    <3>1. a.seq = MaxSeq(s, LegacyRows[c]) + 1
      BY <1>1, <2>1 DEF SeqNotStale, s, a
    <3>2. LegacyRows[c] \in Nat
      BY <1>1, LegacyAssumption
    <3>3. \A i \in 1 .. Len(s) : s[i].seq = LegacyRows[c] + i
      BY <2>1 DEF SeqConsecutive, s
    <3>4. MaxSeq(s, LegacyRows[c]) = LegacyRows[c] + Len(s)
      BY <1>1, <3>2, <3>3, MaxSeqOf
    <3>5. n \in Nat /\ Len(s) = n
      BY <1>1 DEF n
    <3>. QED
      BY <3>1, <3>2, <3>4, <3>5
  <2>2. SUFFICES ASSUME NEW d \in Numbered, NEW i \in 1 .. Len(log'[d])
                 PROVE  log'[d][i].seq = LegacyRows[d] + i
    BY DEF SeqConsecutive
  <2>3. d \in Chains
    BY TablesAssumption DEF Numbered, Chains
  <2>4. CASE d # c
    BY <1>4, <2>3, <2>4 DEF SeqConsecutive
  <2>5. CASE d = c
    <3>1. i \in 1 .. n \/ i = n + 1
      BY <1>1, <1>2, <1>4, <2>5
    <3>2. CASE i \in 1 .. n
      BY <1>2, <1>4, <2>5, <3>2 DEF SeqConsecutive, s, n
    <3>3. CASE i = n + 1
      BY <1>2, <1>4, <2>1, <2>5, <3>3
    <3>. QED
      BY <3>1, <3>2, <3>3
  <2>. QED
    BY <2>4, <2>5
<1>11. (SeqNotStale /\ LinkNotStale)'
  <2>1. ASSUME NEW q \in Requests,
               pc'[q] \in {"numbered", "chainlocked", "linked", "inserted"},
               target'[q] \in Numbered
        PROVE  row'[q].seq = MaxSeq(log'[target'[q]], LegacyRows[target'[q]]) + 1
    <3>1. q # r /\ pc[q] = pc'[q] /\ target[q] \in Chains
      BY <1>1, <2>1 DEF TypeOK
    <3>2. target[q] # c
      BY <1>1, <2>1, <3>1, ChainExclusive
    <3>. QED
      BY <1>1, <1>4, <2>1, <3>1, <3>2 DEF SeqNotStale
  <2>2. ASSUME NEW q \in Requests, pc'[q] \in {"linked", "inserted"}
        PROVE  row'[q].prev = TailId(log'[target'[q]])
    <3>1. q # r /\ pc[q] = pc'[q] /\ target[q] \in Chains
      BY <1>1, <2>2 DEF TypeOK
    <3>2. target[q] # c
      BY <1>1, <2>2, <3>1, ChainExclusive
    <3>. QED
      BY <1>1, <1>4, <2>2, <3>1, <3>2 DEF LinkNotStale
  <2>. QED
    BY <2>1, <2>2 DEF SeqNotStale, LinkNotStale
<1>12. /\ s = <<>> => TailId(s) = Genesis
       /\ s # <<>> => \E b \in RowsOf(s) : IsNewest(b, RowsOf(s)) /\ TailId(s) = b.id
  BY <1>1, TailIdOf DEF HasNewest, s
<1>13. RootedTree'
  <2>1. IF n + 1 = 1 THEN a.prev = Genesis
        ELSE \E j \in 1 .. n : a.prev = s[j].id
    <3>1. CASE n = 0
      BY <1>1, <1>3, <1>12, <3>1 DEF n
    <3>2. CASE n # 0
      <4>1. PICK b \in RowsOf(s) : TailId(s) = b.id
        BY <1>1, <1>12, <3>2 DEF n
      <4>2. PICK j \in 1 .. n : b = s[j]
        BY <4>1 DEF RowsOf, n
      <4>. QED
        BY <1>1, <1>3, <3>2, <4>1, <4>2
    <3>. QED
      BY <3>1, <3>2
  <2>2. SUFFICES ASSUME NEW d \in Chains, NEW i \in 1 .. Len(log'[d])
                 PROVE  IF i = 1 THEN log'[d][i].prev = Genesis
                        ELSE \E j \in 1 .. i - 1 : log'[d][i].prev = log'[d][j].id
    BY DEF RootedTree
  <2>3. CASE d # c
    BY <1>4, <2>3 DEF RootedTree
  <2>4. CASE d = c
    <3>1. i \in 1 .. n \/ i = n + 1
      BY <1>1, <1>2, <1>4, <2>4
    <3>2. CASE i \in 1 .. n
      <4>1. IF i = 1 THEN s[i].prev = Genesis
            ELSE \E j \in 1 .. i - 1 : s[i].prev = s[j].id
        BY <1>1, <3>2 DEF RootedTree, s, n
      <4>2. \A j \in 1 .. i - 1 : j \in 1 .. n
        BY <1>1, <3>2
      <4>. QED
        BY <1>2, <1>4, <2>4, <3>2, <4>1, <4>2
    <3>3. CASE i = n + 1
      <4>1. i - 1 = n
        BY <1>1, <3>3
      <4>. QED
        BY <1>2, <1>4, <2>1, <2>4, <3>3, <4>1
    <3>. QED
      BY <3>1, <3>2, <3>3
  <2>. QED
    BY <2>3, <2>4
<1>14. LinearUnlessOvertaken'
  <2>1. n > 0 => (a.prev = s[n].id <=> IsNewest(s[n], RowsOf(s)))
    <3> SUFFICES ASSUME n > 0
                 PROVE  a.prev = s[n].id <=> IsNewest(s[n], RowsOf(s))
      OBVIOUS
    <3>1. s # <<>> /\ n \in 1 .. n /\ s[n] \in RowsOf(s)
      BY <1>1 DEF n, RowsOf
    <3>2. PICK b \in RowsOf(s) : IsNewest(b, RowsOf(s)) /\ TailId(s) = b.id
      BY <1>12, <3>1
    <3>3. PICK j \in 1 .. n : b = s[j]
      BY <3>2 DEF RowsOf, n
    <3>4. ASSUME a.prev = s[n].id
          PROVE  IsNewest(s[n], RowsOf(s))
      <4>1. j = n
        BY <1>1, <1>3, <3>1, <3>2, <3>3, <3>4 DEF UniqueIds, s, n
      <4>. QED
        BY <3>2, <3>3, <4>1
    <3>5. ASSUME IsNewest(s[n], RowsOf(s))
          PROVE  a.prev = s[n].id
      <4>1. ~ Later(b, s[n]) /\ ~ Later(s[n], b)
        BY <3>1, <3>2, <3>5 DEF IsNewest
      <4>2. b \in RowType /\ s[n] \in RowType
        BY <1>1, <3>1, <3>2, RowsOfType
      <4>3. b.id = s[n].id
        BY <4>1, <4>2 DEF Later, RowType
      <4>. QED
        BY <1>3, <3>2, <4>3
    <3>. QED
      BY <3>4, <3>5
  <2>2. \A i \in 1 .. n : RowsUpTo(t, i) = RowsUpTo(s, i)
    BY <1>1, <1>2 DEF RowsUpTo
  <2>3. RowsUpTo(s, n) = RowsOf(s)
    BY DEF RowsUpTo, RowsOf, n
  <2>4. SUFFICES ASSUME NEW d \in Chains, NEW i \in 1 .. Len(log'[d]) - 1
                 PROVE  log'[d][i + 1].prev = log'[d][i].id <=>
                          IsNewest(log'[d][i], RowsUpTo(log'[d], i))
    BY DEF LinearUnlessOvertaken
  <2>5. CASE d # c
    BY <1>4, <2>5 DEF LinearUnlessOvertaken
  <2>6. CASE d = c
    <3>1. i \in 1 .. n
      BY <1>1, <1>2, <1>4, <2>6
    <3>2. CASE i = n
      <4>1. log'[d][i + 1] = a /\ log'[d][i] = s[n] /\ RowsUpTo(log'[d], i) = RowsOf(s)
        BY <1>2, <1>4, <2>2, <2>3, <2>6, <3>1, <3>2
      <4>2. n > 0
        BY <1>1, <3>1
      <4>. QED
        BY <2>1, <4>1, <4>2
    <3>3. CASE i # n
      <4>1. i \in 1 .. n - 1 /\ i + 1 \in 1 .. n
        BY <1>1, <3>1, <3>3
      <4>2. s[i + 1].prev = s[i].id <=> IsNewest(s[i], RowsUpTo(s, i))
        BY <1>1, <4>1 DEF LinearUnlessOvertaken, s, n
      <4>. QED
        BY <1>2, <1>4, <2>2, <2>6, <3>1, <4>1, <4>2
    <3>. QED
      BY <3>2, <3>3
  <2>. QED
    BY <2>5, <2>6
<1>. QED
  BY <1>5, <1>6, <1>7, <1>8, <1>9, <1>10, <1>11, <1>13, <1>14

\* Every step keeps the invariant.
LEMMA NextIInv == IInv /\ [Next]_vars => IInv'
<1> SUFFICES ASSUME IInv, [Next]_vars PROVE IInv'
  OBVIOUS
<1>1. CASE Tick
  BY <1>1, TickIInv
<1>2. ASSUME NEW u \in Runs, CreateRun(u) PROVE IInv'
  BY <1>2, CreateRunIInv
<1>3. ASSUME NEW r \in Requests, Begin(r) PROVE IInv'
  BY <1>3, BeginIInv
<1>4. ASSUME NEW r \in Requests, Step(r) PROVE IInv'
  <2>1. CASE LockRun(r)
    BY <2>1, LockRunIInv
  <2>2. CASE AssignSeq(r)
    BY <2>2, AssignSeqIInv
  <2>3. CASE RunMissing(r) \/ InsertRejected(r) \/ DeadlockVictim(r)
    BY <2>3, RollbackIInv DEF RunMissing, InsertRejected, DeadlockVictim
  <2>4. CASE LockChain(r)
    BY <2>4, LockChainIInv
  <2>5. CASE ReadTail(r)
    BY <2>5, ReadTailIInv
  <2>6. CASE Insert(r)
    BY <2>6, InsertIInv
  <2>7. CASE Commit(r)
    BY <2>7, CommitIInv
  <2>. QED
    BY <1>4, <2>1, <2>2, <2>3, <2>4, <2>5, <2>6, <2>7 DEF Step
<1>5. ASSUME NEW r \in Requests, Abort(r) PROVE IInv'
  BY <1>5, RollbackIInv DEF Abort
<1>6. CASE UNCHANGED vars
  BY <1>6 DEF vars, IInv, TypeOK, OneHolder, HoldsLocks, HasNewest, UniqueIds,
     SeqConsecutive, SeqNotStale, LinkNotStale, RootedTree, LinearUnlessOvertaken
<1>. QED
  BY <1>1, <1>2, <1>3, <1>4, <1>5, <1>6 DEF Next

\* The inductive invariant holds in every reachable state.
LEMMA Invariant == Spec => []IInv
<1>. QED
  BY InitIInv, NextIInv, PTL DEF Spec

-----------------------------------------------------------------------------
(* The properties *)

\* Type correctness.
THEOREM TypeCorrect == Spec => []TypeOK
<1>1. IInv => TypeOK
  BY DEF IInv
<1>. QED
  BY <1>1, Invariant, PTL

\* compute_chain's link is to the current tail until its transaction ends,
\* whatever the other handlers do and however lock keys collide.
THEOREM LinksAreCurrent == Spec => []LinkNotStale
<1>1. IInv => LinkNotStale
  BY DEF IInv
<1>. QED
  BY <1>1, Invariant, PTL

\* A seq read under the run lock is free until its transaction ends, and the
\* committed events of a run are numbered without a gap.
THEOREM EventsAreNumbered == Spec => [](SeqNotStale /\ SeqConsecutive)
<1>1. IInv => SeqNotStale /\ SeqConsecutive
  BY DEF IInv
<1>. QED
  BY <1>1, Invariant, PTL

\* Every chain is one tree rooted in its first row.
THEOREM ChainsAreTrees == Spec => []RootedTree
<1>1. IInv => RootedTree
  BY DEF IInv
<1>. QED
  BY <1>1, Invariant, PTL

\* A chain continues from its newest commit exactly when that row was not
\* overtaken in created_at order.
THEOREM ForksNeedOvertaking == Spec => []LinearUnlessOvertaken
<1>1. IInv => LinearUnlessOvertaken
  BY DEF IInv
<1>. QED
  BY <1>1, Invariant, PTL

\* A step of the write path is an atomic append of ChainLog, or invisible to it.
LEMMA StepRefines == IInv /\ [Next]_vars => [Atomic!Next]_log
<1> SUFFICES ASSUME IInv, [Next]_vars PROVE [Atomic!Next]_log
  OBVIOUS
<1>1. ASSUME NEW r \in Requests, Commit(r) PROVE Atomic!Next
  <2> DEFINE c == target[r]
             a == row[r]
  <2>1. /\ c \in Chains /\ a.id \in Ids /\ a.created \in 0 .. MaxClock
        /\ a = [id |-> a.id, created |-> a.created, seq |-> a.seq, prev |-> a.prev]
    BY DEF IInv, TypeOK
  <2>2. a.prev = TailId(log[c])
    BY <1>1 DEF IInv, LinkNotStale, Commit
  <2>3. a.seq = IF c \in Numbered THEN MaxSeq(log[c], LegacyRows[c]) + 1 ELSE 0
    BY <1>1 DEF IInv, SeqNotStale, HoldsLocks, Commit
  <2>4. log' = [log EXCEPT ![c] = Append(@, a)]
    BY <1>1 DEF Commit
  <2> HIDE DEF a
  <2>5. a = [id |-> a.id, created |-> a.created,
             seq |-> IF c \in Numbered THEN MaxSeq(log[c], LegacyRows[c]) + 1 ELSE 0,
             prev |-> TailId(log[c])]
    BY <2>1, <2>2, <2>3
  <2>6. Atomic!TailId(log[c]) = TailId(log[c])
    BY DEF TailId, Atomic!TailId, RowsOf, Atomic!RowsOf, IsNewest, Atomic!IsNewest,
       Later, Atomic!Later, Genesis, Atomic!Genesis
  <2>7. Atomic!MaxSeq(log[c], LegacyRows[c]) = MaxSeq(log[c], LegacyRows[c])
    BY DEF MaxSeq, Atomic!MaxSeq, RowsOf, Atomic!RowsOf
  <2>8. Atomic!AppendRow(c, a.id, a.created)
    BY <2>4, <2>5, <2>6, <2>7 DEF Atomic!AppendRow
  <2>. QED
    BY <2>1, <2>8 DEF Atomic!Next
<1>2. CASE \A r \in Requests : ~ Commit(r)
  <2>1. UNCHANGED log
    BY <1>2 DEF Next, vars, Tick, CreateRun, Begin, Step, LockRun, AssignSeq,
       RunMissing, LockChain, ReadTail, Insert, InsertRejected, DeadlockVictim, Abort, Rollback
  <2>. QED
    BY <2>1
<1>. QED
  BY <1>1, <1>2

\* The locked transactions implement atomic appends: their interleaving shows
\* in no chain.
THEOREM ImplementsChainLog == Spec => AppendsAtomically
<1>1. Init => Atomic!Init
  BY DEF Init, Atomic!Init
<1>. QED
  BY <1>1, Invariant, StepRefines, PTL DEF Spec, AppendsAtomically, Atomic!Spec

=============================================================================
