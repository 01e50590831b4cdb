--------------------------- MODULE AnchoringProofs ---------------------------
(***************************************************************************)
(* Proofs about Anchoring, for every set of rows, runs, loops and callers  *)
(* of POST /anchors, every skew of the hosts' clocks and every `until`.    *)
(***************************************************************************)
EXTENDS Anchoring, ChainCoreProofs, FiniteSetTheorems, TLAPS

-----------------------------------------------------------------------------
(* The inductive invariant *)

UnderWay == {"windowed", "collected", "shipped"}

\* ORDER BY anchored_to DESC LIMIT 1 has an answer for a scope with anchors.
HasLast ==
  \A s \in Scopes : (\E a \in anchors : a.scope = s) =>
    \E a \in anchors : a.scope = s /\ \A b \in anchors : b.scope = s => b.to <= a.to

\* created_at is a reading of the clock, which is past the epoch.
CreatedAfterEpoch == \A r \in Rows : phase[r] # "idle" => created[r] > Epoch

\* A tick that has collected holds a receiptable manifest, and after the upload
\* that manifest is in the sink.
TickIsReceiptable ==
  \A t \in Tickers :
    /\ tick[t].pc \in {"collected", "shipped"} =>
         /\ tick[t].leaves # {}
         /\ \A r \in tick[t].leaves :
              /\ phase[r] = "committed" /\ InScope(r, tick[t].scope)
              /\ created[r] > tick[t].from /\ created[r] <= tick[t].until
    /\ tick[t].pc = "shipped" => ManifestOf(t) \in sink

\* A window starts where a recorded one ended.
StartsAtAnEnd ==
  \A t \in Tickers : tick[t].pc \in UnderWay =>
    tick[t].from = Epoch \/ \E a \in anchors : a.scope = tick[t].scope /\ a.to = tick[t].from

\* What a tick has not collected of its window came late.
CollectedOrLate ==
  \A t \in Tickers, r \in Rows :
    /\ tick[t].pc \in {"collected", "shipped"}
    /\ phase[r] = "committed" /\ InScope(r, tick[t].scope)
    /\ created[r] > tick[t].from /\ created[r] <= tick[t].until
    => r \in tick[t].leaves \/ <<r, tick[t].scope>> \in late

\* Unless ticks of its scope overlapped, a tick is the only one of its scope
\* that is under way, and it starts behind every recorded window.
AloneAndAhead ==
  \A t \in Tickers : tick[t].pc \in UnderWay /\ tick[t].scope \notin overlapped =>
    /\ \A u \in Tickers : tick[u].pc \in UnderWay /\ tick[u].scope = tick[t].scope => u = t
    /\ \A a \in anchors : a.scope = tick[t].scope => a.to <= tick[t].from

\* A receipt in flight is what its tick held when it failed: receiptable, with
\* all of its window but what came late.
FlightsAreReceiptable ==
  \A m \in inFlight :
    /\ m \in sink /\ m.leaves # {}
    /\ \A r \in m.leaves : /\ phase[r] = "committed" /\ InScope(r, m.scope)
                           /\ created[r] > m.from /\ created[r] <= m.to
    /\ \A r \in Rows :
         /\ phase[r] = "committed" /\ InScope(r, m.scope)
         /\ created[r] > m.from /\ created[r] <= m.to
         => r \in m.leaves \/ <<r, m.scope>> \in late

\* Its window, too, starts where a recorded one ended; and unless another window
\* of the scope was begun beside it, it is the only one that is not settled, and
\* behind every recorded window.
FlightsAreAlone ==
  \A m \in inFlight :
    /\ m.from = Epoch \/ \E a \in anchors : a.scope = m.scope /\ a.to = m.from
    /\ m.scope \notin overlapped =>
         /\ \A n \in inFlight : n.scope = m.scope => n = m
         /\ \A u \in Tickers : ~ (tick[u].pc \in UnderWay /\ tick[u].scope = m.scope)
         /\ \A a \in anchors : a.scope = m.scope => a.to <= m.from

IInv == /\ TypeOK /\ HasLast /\ CreatedAfterEpoch
        /\ TickIsReceiptable /\ StartsAtAnEnd /\ CollectedOrLate /\ AloneAndAhead
        /\ FlightsAreReceiptable /\ FlightsAreAlone
        /\ AnchorIsReceipt /\ MissedRowsAreLate /\ AnchoredOnceUnlessOverlapped /\ WindowsAbut

-----------------------------------------------------------------------------
(* Lemmas *)

\* The window start is the epoch, or the last end of the scope's windows.
LEMMA WindowStartIsLast ==
  ASSUME TypeOK, HasLast, NEW s \in Scopes
  PROVE  /\ WindowStart(s) \in Int
         /\ \A a \in anchors : a.scope = s => a.to <= WindowStart(s)
         /\ WindowStart(s) = Epoch \/ \E a \in anchors : a.scope = s /\ a.to = WindowStart(s)
<1> DEFINE ends == { a.to : a \in { b \in anchors : b.scope = s } }
<1>1. CASE ends = {}
  <2>1. \A a \in anchors : a.scope # s
    BY <1>1
  <2>. QED
    BY <1>1, <2>1 DEF WindowStart, Epoch
<1>2. CASE ends # {}
  <2>1. \A e \in ends : e \in Int
    BY DEF TypeOK, Manifest
  <2>2. \E e \in ends : \A f \in ends : f <= e
    BY <1>2 DEF HasLast
  <2>3. WindowStart(s) = CHOOSE e \in ends : \A f \in ends : f <= e
    BY <1>2 DEF WindowStart
  <2>4. WindowStart(s) \in ends /\ \A f \in ends : f <= WindowStart(s)
    BY <2>2, <2>3
  <2>. QED
    BY <2>1, <2>4
<1>. QED
  BY <1>1, <1>2

LEMMA InitIInv == Init => IInv
  BY BoundAssumption
     DEF Init, IInv, TypeOK, HasLast, CreatedAfterEpoch, TickIsReceiptable, StartsAtAnEnd,
         CollectedOrLate, AloneAndAhead, FlightsAreReceiptable, FlightsAreAlone,
         AnchorIsReceipt, MissedRowsAreLate,
         AnchoredOnceUnlessOverlapped, WindowsAbut, NoTick, Epoch, UnderWay, Scopes, Covered

-----------------------------------------------------------------------------
(* Writers *)

LEMMA AdvanceClockIInv == IInv /\ AdvanceClock => IInv'
  BY BoundAssumption
     DEF AdvanceClock, IInv, TypeOK, HasLast, CreatedAfterEpoch, TickIsReceiptable,
         StartsAtAnEnd, CollectedOrLate, AloneAndAhead, FlightsAreReceiptable, FlightsAreAlone,
         AnchorIsReceipt, MissedRowsAreLate,
         AnchoredOnceUnlessOverlapped, WindowsAbut, Covered, InScope, ManifestOf

\* A row that has not committed is under no anchor and in no tick, so its
\* created_at is free.
LEMMA BeginWriteIInv ==
  ASSUME IInv, NEW r \in Rows, BeginWrite(r)
  PROVE  IInv'
<1>. USE DEF IInv
<1>1. /\ \A q \in Rows : phase'[q] = "committed" <=> phase[q] = "committed"
      /\ \A q \in Rows : phase[q] = "committed" => created'[q] = created[q]
  BY DEF BeginWrite, TypeOK
<1>2. UNCHANGED <<clock, runOf, tick, sink, anchors, inFlight, late, overlapped>>
  BY DEF BeginWrite
<1>3. \A s \in Scopes, q \in Rows : InScope(q, s)' <=> InScope(q, s)
  BY <1>2 DEF InScope
<1>4. TypeOK'
  BY DEF BeginWrite, TypeOK
<1>5. CreatedAfterEpoch'
  BY DEF BeginWrite, TypeOK, CreatedAfterEpoch, Epoch
<1>6. TickIsReceiptable'
  BY <1>1, <1>2 DEF TickIsReceiptable, ManifestOf, TypeOK, InScope
<1>7. CollectedOrLate'
  BY <1>1, <1>2 DEF CollectedOrLate, InScope
<1>8. AnchorIsReceipt'
  BY <1>1, <1>2 DEF AnchorIsReceipt, TypeOK, Manifest, InScope
<1>9. MissedRowsAreLate'
  BY <1>1, <1>2 DEF MissedRowsAreLate, Covered, InScope
<1>10. HasLast' /\ StartsAtAnEnd' /\ AloneAndAhead' /\ AnchoredOnceUnlessOverlapped' /\ WindowsAbut'
  BY <1>2 DEF HasLast, StartsAtAnEnd, AloneAndAhead, AnchoredOnceUnlessOverlapped, WindowsAbut
<1>11. FlightsAreReceiptable'
  BY <1>1, <1>2 DEF FlightsAreReceiptable, TypeOK, Manifest, InScope
<1>12. FlightsAreAlone'
  BY <1>2 DEF FlightsAreAlone
<1>. QED
  BY <1>4, <1>5, <1>6, <1>7, <1>8, <1>9, <1>10, <1>11, <1>12

\* A row that a tick or an anchor has looked for when it commits is late.
LEMMA CommitWriteIInv ==
  ASSUME IInv, NEW r \in Rows, CommitWrite(r)
  PROVE  IInv'
<1>. USE DEF IInv
<1>1. UNCHANGED <<clock, created, runOf, tick, sink, anchors, inFlight, overlapped>>
  BY DEF CommitWrite
<1>2. /\ phase[r] = "open" /\ phase'[r] = "committed"
      /\ \A q \in Rows \ {r} : phase'[q] = phase[q]
  BY DEF CommitWrite, TypeOK
<1>3. /\ late \subseteq late'
      /\ \A s \in Scopes : InScope(r, s) /\ Passed(s, created[r]) => <<r, s>> \in late'
  BY DEF CommitWrite
<1>4. TypeOK'
  BY DEF CommitWrite, TypeOK
<1>5. CreatedAfterEpoch'
  BY <1>1, <1>2 DEF CreatedAfterEpoch
<1>6. TickIsReceiptable'
  BY <1>1, <1>2 DEF TickIsReceiptable, ManifestOf, TypeOK, InScope
<1>7. CollectedOrLate'
  <2> SUFFICES ASSUME NEW t \in Tickers, NEW q \in Rows,
                      tick[t].pc \in {"collected", "shipped"},
                      phase'[q] = "committed", InScope(q, tick[t].scope),
                      created[q] > tick[t].from, created[q] <= tick[t].until
               PROVE  q \in tick[t].leaves \/ <<q, tick[t].scope>> \in late'
    BY <1>1 DEF CollectedOrLate, InScope
  <2>1. CASE q = r
    <3>1. Passed(tick[t].scope, created[r])
      BY <2>1 DEF Passed, TypeOK
    <3>. QED
      BY <2>1, <3>1, <1>3 DEF TypeOK
  <2>2. CASE q # r
    BY <2>2, <1>2, <1>3 DEF CollectedOrLate
  <2>. QED
    BY <2>1, <2>2
<1>8. AnchorIsReceipt'
  BY <1>1, <1>2 DEF AnchorIsReceipt, TypeOK, Manifest, InScope
<1>9. MissedRowsAreLate'
  <2> SUFFICES ASSUME NEW q \in Rows, NEW s \in Scopes, phase'[q] = "committed", InScope(q, s),
                      NEW a \in anchors, a.scope = s, a.to >= created[q]
               PROVE  Covered(q, s) \/ <<q, s>> \in late'
    BY <1>1 DEF MissedRowsAreLate, InScope, Covered
  <2>1. CASE q = r
    BY <2>1, <1>3 DEF Passed
  <2>2. CASE q # r
    BY <2>2, <1>2, <1>3 DEF MissedRowsAreLate
  <2>. QED
    BY <2>1, <2>2
<1>10. HasLast' /\ StartsAtAnEnd' /\ AloneAndAhead' /\ AnchoredOnceUnlessOverlapped' /\ WindowsAbut'
  BY <1>1 DEF HasLast, StartsAtAnEnd, AloneAndAhead, AnchoredOnceUnlessOverlapped, WindowsAbut
<1>11. FlightsAreReceiptable'
  <2> SUFFICES ASSUME NEW m \in inFlight, NEW q \in Rows,
                      phase'[q] = "committed", InScope(q, m.scope),
                      created[q] > m.from, created[q] <= m.to
               PROVE  q \in m.leaves \/ <<q, m.scope>> \in late'
    BY <1>1, <1>2 DEF FlightsAreReceiptable, TypeOK, Manifest, InScope
  <2>1. CASE q = r
    <3>1. Passed(m.scope, created[r])
      BY <2>1 DEF Passed, TypeOK, Manifest
    <3>. QED
      BY <2>1, <3>1, <1>3 DEF TypeOK, Manifest
  <2>2. CASE q # r
    BY <2>2, <1>2, <1>3 DEF FlightsAreReceiptable
  <2>. QED
    BY <2>1, <2>2
<1>12. FlightsAreAlone'
  BY <1>1 DEF FlightsAreAlone
<1>. QED
  BY <1>4, <1>5, <1>6, <1>7, <1>8, <1>9, <1>10, <1>11, <1>12

LEMMA AbortWriteIInv ==
  ASSUME IInv, NEW r \in Rows, AbortWrite(r)
  PROVE  IInv'
<1>. USE DEF IInv
<1>1. /\ \A q \in Rows : phase'[q] = "committed" <=> phase[q] = "committed"
      /\ \A q \in Rows : phase[q] = "committed" => created'[q] = created[q]
  BY DEF AbortWrite, TypeOK
<1>2. UNCHANGED <<clock, runOf, tick, sink, anchors, inFlight, late, overlapped>>
  BY DEF AbortWrite
<1>3. TypeOK' /\ CreatedAfterEpoch'
  BY BoundAssumption DEF AbortWrite, TypeOK, CreatedAfterEpoch
<1>4. TickIsReceiptable'
  BY <1>1, <1>2 DEF TickIsReceiptable, ManifestOf, TypeOK, InScope
<1>5. CollectedOrLate'
  BY <1>1, <1>2 DEF CollectedOrLate, InScope
<1>6. AnchorIsReceipt'
  BY <1>1, <1>2 DEF AnchorIsReceipt, TypeOK, Manifest, InScope
<1>7. MissedRowsAreLate'
  BY <1>1, <1>2 DEF MissedRowsAreLate, Covered, InScope
<1>8. FlightsAreReceiptable'
  BY <1>1, <1>2 DEF FlightsAreReceiptable, TypeOK, Manifest, InScope
<1>9. HasLast' /\ StartsAtAnEnd' /\ AloneAndAhead' /\ AnchoredOnceUnlessOverlapped' /\ WindowsAbut'
  BY <1>2 DEF HasLast, StartsAtAnEnd, AloneAndAhead, AnchoredOnceUnlessOverlapped, WindowsAbut
<1>10. FlightsAreAlone'
  BY <1>2 DEF FlightsAreAlone
<1>. QED
  BY <1>3, <1>4, <1>5, <1>6, <1>7, <1>8, <1>9, <1>10

-----------------------------------------------------------------------------
(* anchor_tick *)

\* What a step of tick t leaves of the other ticks.
LEMMA OtherTicks ==
  ASSUME TypeOK, NEW t \in Tickers, NEW k, tick' = [tick EXCEPT ![t] = k]
  PROVE  tick'[t] = k /\ \A u \in Tickers \ {t} : tick'[u] = tick[u]
  BY DEF TypeOK

\* A tick that ends, or begins, leaves no window behind, whatever it uploaded.
LEMMA TickAsideIInv ==
  ASSUME IInv, NEW t \in Tickers, NEW k,
         k \in [pc : {"idle", "started"}, scope : Scopes, from : Int, until : Int, leaves : SUBSET Rows],
         tick' = [tick EXCEPT ![t] = k], sink \subseteq sink', sink' \subseteq Manifest,
         UNCHANGED <<writerVars, anchors, inFlight, overlapped>>
  PROVE  IInv'
<1>. USE DEF IInv, writerVars
<1>1. tick'[t] = k /\ \A u \in Tickers \ {t} : tick'[u] = tick[u]
  BY OtherTicks
<1>2. k.pc \notin UnderWay /\ k.pc \notin {"collected", "shipped"}
  BY DEF UnderWay
<1>3. TypeOK'
  BY <1>1 DEF TypeOK
<1>4. TickIsReceiptable'
  BY <1>1, <1>2 DEF TickIsReceiptable, ManifestOf, InScope
<1>5. StartsAtAnEnd' /\ AloneAndAhead'
  BY <1>1, <1>2 DEF StartsAtAnEnd, AloneAndAhead
<1>8. CollectedOrLate'
  BY <1>1, <1>2 DEF CollectedOrLate, InScope
<1>6. HasLast' /\ CreatedAfterEpoch' /\ AnchorIsReceipt'
  BY DEF HasLast, CreatedAfterEpoch, AnchorIsReceipt, InScope
<1>7. MissedRowsAreLate' /\ AnchoredOnceUnlessOverlapped' /\ WindowsAbut'
  BY DEF MissedRowsAreLate, AnchoredOnceUnlessOverlapped, WindowsAbut, Covered, InScope
<1>9. FlightsAreReceiptable'
  BY DEF FlightsAreReceiptable, InScope
<1>10. FlightsAreAlone'
  BY <1>1, <1>2 DEF FlightsAreAlone
<1>. QED
  BY <1>3, <1>4, <1>5, <1>6, <1>7, <1>8, <1>9, <1>10

LEMMA StartTickIInv ==
  ASSUME IInv, NEW t \in Tickers, NEW s \in Scopes, NEW until \in Int, StartTick(t, s, until)
  PROVE  IInv'
<1> DEFINE k0 == [NoTick EXCEPT !.pc = "started"]
           k1 == [k0 EXCEPT !.scope = s]
           k == [k1 EXCEPT !.until = until]
<1>1. k \in [pc : {"idle", "started"}, scope : Scopes, from : Int, until : Int, leaves : SUBSET Rows]
  <2>1. k0 = [pc |-> "started", scope |-> Global, from |-> 0, until |-> 0, leaves |-> {}]
    BY DEF NoTick, Epoch
  <2> HIDE DEF k0
  <2>2. k1 = [pc |-> "started", scope |-> s, from |-> 0, until |-> 0, leaves |-> {}]
    BY <2>1
  <2> HIDE DEF k1
  <2>3. k = [pc |-> "started", scope |-> s, from |-> 0, until |-> until, leaves |-> {}]
    BY <2>2
  <2> HIDE DEF k
  <2>. QED
    BY <2>3
<1>2. /\ tick' = [tick EXCEPT ![t] = k] /\ sink' = sink
      /\ UNCHANGED <<writerVars, anchors, inFlight, overlapped>>
  BY DEF StartTick
<1>3. sink \subseteq Manifest
  BY DEF IInv, TypeOK
<1>. QED
  BY <1>1, <1>2, <1>3, TickAsideIInv

LEMMA EndTickIInv ==
  ASSUME IInv, NEW t \in Tickers, EndTick(t), sink \subseteq sink', sink' \subseteq Manifest,
         UNCHANGED <<writerVars, anchors, inFlight, overlapped>>
  PROVE  IInv'
<1>1. NoTick \in [pc : {"idle", "started"}, scope : Scopes, from : Int, until : Int, leaves : SUBSET Rows]
  BY DEF NoTick, Epoch, Scopes
<1>. QED
  BY <1>1, TickAsideIInv DEF EndTick

\* The windows of a scope are claimed one after the other, or they overlap.
LEMMA ReadWindowStartIInv ==
  ASSUME IInv, NEW t \in Tickers, ReadWindowStart(t)
  PROVE  IInv'
<1>. USE DEF IInv, writerVars
<1> DEFINE s == tick[t].scope
           k == [tick[t] EXCEPT !.pc = "windowed", !.from = WindowStart(s)]
<1>1. /\ tick[t].pc = "started" /\ s \in Scopes
      /\ overlapped' = overlapped \cup Rivals(t)
      /\ UNCHANGED <<writerVars, sink, anchors, inFlight>>
  BY DEF ReadWindowStart, TypeOK
<1>2. /\ WindowStart(s) \in Int
      /\ \A a \in anchors : a.scope = s => a.to <= WindowStart(s)
      /\ WindowStart(s) = Epoch \/ \E a \in anchors : a.scope = s /\ a.to = WindowStart(s)
  BY <1>1, WindowStartIsLast
<1>3. /\ tick' = [tick EXCEPT ![t] = k]
      /\ tick'[t] = k /\ \A u \in Tickers \ {t} : tick'[u] = tick[u]
  BY DEF ReadWindowStart, TypeOK
<1>4. /\ k.pc = "windowed" /\ k.scope = s /\ k.from = WindowStart(s)
      /\ k.leaves = tick[t].leaves /\ k.until = tick[t].until
  BY <1>3 DEF TypeOK
<1>5. TypeOK'
  <2>1. Rivals(t) \subseteq Scopes
    BY DEF Rivals, TypeOK
  <2>2. k \in [pc : {"idle", "started", "windowed", "collected", "shipped"},
               scope : Scopes, from : Int, until : Int, leaves : SUBSET Rows]
    BY <1>2 DEF TypeOK
  <2>. QED
    BY <1>1, <1>3, <2>1, <2>2 DEF TypeOK
<1>6. TickIsReceiptable'
  BY <1>1, <1>3, <1>4 DEF TickIsReceiptable, ManifestOf, InScope
<1>7. StartsAtAnEnd'
  BY <1>1, <1>2, <1>3, <1>4 DEF StartsAtAnEnd
<1>8. CollectedOrLate'
  BY <1>1, <1>3, <1>4 DEF CollectedOrLate, InScope
<1>9. AloneAndAhead'
  <2> SUFFICES ASSUME NEW u \in Tickers, tick'[u].pc \in UnderWay, tick'[u].scope \notin overlapped'
               PROVE  /\ \A v \in Tickers :
                           tick'[v].pc \in UnderWay /\ tick'[v].scope = tick'[u].scope => v = u
                      /\ \A a \in anchors : a.scope = tick'[u].scope => a.to <= tick'[u].from
    BY <1>1 DEF AloneAndAhead
  <2>1. \A v \in Tickers \ {t} : tick[v].pc \in UnderWay /\ tick[v].scope = s => s \in overlapped'
    BY <1>1 DEF Rivals, UnderWay
  <2>2. CASE u = t
    BY <2>1, <2>2, <1>2, <1>3, <1>4
  <2>3. CASE u # t
    BY <2>1, <2>3, <1>1, <1>3, <1>4 DEF AloneAndAhead
  <2>. QED
    BY <2>2, <2>3
<1>10. HasLast' /\ CreatedAfterEpoch' /\ AnchorIsReceipt'
  BY <1>1 DEF HasLast, CreatedAfterEpoch, AnchorIsReceipt, InScope
<1>11. MissedRowsAreLate' /\ AnchoredOnceUnlessOverlapped' /\ WindowsAbut'
  BY <1>1 DEF MissedRowsAreLate, AnchoredOnceUnlessOverlapped, WindowsAbut, Covered, InScope
<1>12. FlightsAreReceiptable'
  BY <1>1 DEF FlightsAreReceiptable, InScope
<1>13. FlightsAreAlone'
  <2> SUFFICES ASSUME NEW m \in inFlight, m.scope \notin overlapped', NEW u \in Tickers,
                      tick'[u].pc \in UnderWay, tick'[u].scope = m.scope
               PROVE  FALSE
    BY <1>1 DEF FlightsAreAlone
  <2>1. CASE u = t
    <3>1. m.scope = s
      BY <2>1, <1>3, <1>4
    <3>. QED
      BY <3>1, <1>1 DEF Rivals
  <2>2. CASE u # t
    BY <2>2, <1>1, <1>3 DEF FlightsAreAlone
  <2>. QED
    BY <2>1, <2>2
<1>. QED
  BY <1>5, <1>6, <1>7, <1>8, <1>9, <1>10, <1>11, <1>12, <1>13

LEMMA CollectIInv ==
  ASSUME IInv, NEW t \in Tickers, Collect(t)
  PROVE  IInv'
<1>. USE DEF IInv, writerVars
<1> DEFINE leaves == CollectLeaves(tick[t].scope, tick[t].from, tick[t].until)
           k == [tick[t] EXCEPT !.pc = "collected", !.leaves = leaves]
<1>1. /\ tick[t].pc = "windowed" /\ leaves # {}
      /\ UNCHANGED <<writerVars, sink, anchors, inFlight, overlapped>>
  BY DEF Collect
<1>2. tick'[t] = k /\ \A u \in Tickers \ {t} : tick'[u] = tick[u]
  BY DEF Collect, TypeOK
<1>3. /\ k.pc = "collected" /\ k.leaves = leaves
      /\ k.scope = tick[t].scope /\ k.from = tick[t].from /\ k.until = tick[t].until
  BY DEF TypeOK
<1>4. TypeOK'
  <2>1. k \in [pc : {"idle", "started", "windowed", "collected", "shipped"},
               scope : Scopes, from : Int, until : Int, leaves : SUBSET Rows]
    BY DEF TypeOK, CollectLeaves
  <2>. QED
    BY <1>1, <2>1 DEF Collect, TypeOK
<1>5. \A r \in Rows : r \in leaves <=>
        /\ phase[r] = "committed" /\ InScope(r, tick[t].scope)
        /\ created[r] > tick[t].from /\ created[r] <= tick[t].until
  BY DEF CollectLeaves
<1>6. leaves \subseteq Rows
  BY DEF CollectLeaves
<1>7. TickIsReceiptable'
  <2> SUFFICES ASSUME NEW u \in Tickers
               PROVE  /\ tick'[u].pc \in {"collected", "shipped"} =>
                           /\ tick'[u].leaves # {}
                           /\ \A r \in tick'[u].leaves :
                                /\ phase[r] = "committed" /\ InScope(r, tick'[u].scope)
                                /\ created[r] > tick'[u].from /\ created[r] <= tick'[u].until
                      /\ tick'[u].pc = "shipped" => ManifestOf(u)' \in sink
    BY <1>1 DEF TickIsReceiptable, InScope
  <2>1. CASE u = t
    BY <2>1, <1>1, <1>2, <1>3, <1>5, <1>6
  <2>2. CASE u # t
    BY <2>2, <1>2 DEF TickIsReceiptable, ManifestOf
  <2>. QED
    BY <2>1, <2>2
<1>8. \A u \in Tickers : /\ tick'[u].pc \in UnderWay <=> tick[u].pc \in UnderWay
                         /\ tick'[u].scope = tick[u].scope /\ tick'[u].from = tick[u].from
                         /\ tick'[u].until = tick[u].until
  BY <1>1, <1>2, <1>3 DEF UnderWay
<1>9. StartsAtAnEnd'
  BY <1>1, <1>8 DEF StartsAtAnEnd
<1>12. AloneAndAhead'
  BY <1>1, <1>8 DEF AloneAndAhead
<1>13. CollectedOrLate'
  <2> SUFFICES ASSUME NEW u \in Tickers, NEW r \in Rows,
                      tick'[u].pc \in {"collected", "shipped"},
                      phase[r] = "committed", InScope(r, tick[u].scope),
                      created[r] > tick[u].from, created[r] <= tick[u].until
               PROVE  r \in tick'[u].leaves \/ <<r, tick[u].scope>> \in late
    BY <1>1, <1>8 DEF CollectedOrLate, InScope
  <2>1. CASE u = t
    BY <2>1, <1>2, <1>3, <1>5
  <2>2. CASE u # t
    BY <2>2, <1>2 DEF CollectedOrLate
  <2>. QED
    BY <2>1, <2>2
<1>10. HasLast' /\ CreatedAfterEpoch' /\ AnchorIsReceipt'
  BY <1>1 DEF HasLast, CreatedAfterEpoch, AnchorIsReceipt, InScope
<1>11. MissedRowsAreLate' /\ AnchoredOnceUnlessOverlapped' /\ WindowsAbut'
  BY <1>1 DEF MissedRowsAreLate, AnchoredOnceUnlessOverlapped, WindowsAbut, Covered, InScope
<1>14. FlightsAreReceiptable'
  BY <1>1 DEF FlightsAreReceiptable, InScope
<1>15. FlightsAreAlone'
  BY <1>1, <1>8 DEF FlightsAreAlone
<1>. QED
  BY <1>4, <1>7, <1>9, <1>10, <1>11, <1>12, <1>13, <1>14, <1>15

LEMMA ShipIInv ==
  ASSUME IInv, NEW t \in Tickers, Ship(t)
  PROVE  IInv'
<1>. USE DEF IInv, writerVars
<1> DEFINE k == [tick[t] EXCEPT !.pc = "shipped"]
<1>1. /\ tick[t].pc = "collected" /\ sink' = sink \cup {ManifestOf(t)}
      /\ UNCHANGED <<writerVars, anchors, inFlight, overlapped>>
  BY DEF Ship
<1>2. tick'[t] = k /\ \A u \in Tickers \ {t} : tick'[u] = tick[u]
  BY DEF Ship, TypeOK
<1>3. /\ k.pc = "shipped" /\ k.leaves = tick[t].leaves
      /\ k.scope = tick[t].scope /\ k.from = tick[t].from /\ k.until = tick[t].until
  BY DEF TypeOK
<1>4. \A u \in Tickers :
        /\ tick'[u].pc \in UnderWay <=> tick[u].pc \in UnderWay
        /\ tick'[u].pc \in {"collected", "shipped"} <=> tick[u].pc \in {"collected", "shipped"}
        /\ tick'[u].scope = tick[u].scope /\ tick'[u].from = tick[u].from
        /\ tick'[u].until = tick[u].until /\ tick'[u].leaves = tick[u].leaves
        /\ ManifestOf(u)' = ManifestOf(u)
  BY <1>1, <1>2, <1>3 DEF UnderWay, ManifestOf
<1>5. TypeOK'
  <2>1. ManifestOf(t) \in Manifest
    BY DEF ManifestOf, Manifest, TypeOK
  <2>2. k \in [pc : {"idle", "started", "windowed", "collected", "shipped"},
               scope : Scopes, from : Int, until : Int, leaves : SUBSET Rows]
    BY DEF TypeOK
  <2>. QED
    BY <1>1, <2>1, <2>2 DEF Ship, TypeOK
<1>6. TickIsReceiptable'
  BY <1>1, <1>2, <1>4 DEF TickIsReceiptable, InScope
<1>7. StartsAtAnEnd'
  BY <1>1, <1>4 DEF StartsAtAnEnd
<1>8. AloneAndAhead'
  BY <1>1, <1>4 DEF AloneAndAhead
<1>9. CollectedOrLate'
  BY <1>1, <1>4 DEF CollectedOrLate, InScope
<1>10. HasLast' /\ CreatedAfterEpoch' /\ AnchorIsReceipt'
  BY <1>1 DEF HasLast, CreatedAfterEpoch, AnchorIsReceipt, InScope
<1>11. MissedRowsAreLate' /\ AnchoredOnceUnlessOverlapped' /\ WindowsAbut'
  BY <1>1 DEF MissedRowsAreLate, AnchoredOnceUnlessOverlapped, WindowsAbut, Covered, InScope
<1>12. FlightsAreReceiptable'
  BY <1>1 DEF FlightsAreReceiptable, InScope
<1>13. FlightsAreAlone'
  BY <1>1, <1>4 DEF FlightsAreAlone
<1>. QED
  BY <1>5, <1>6, <1>7, <1>8, <1>9, <1>10, <1>11, <1>12, <1>13

\* The step that matters: a new window begins where all others of its scope
\* end, or was begun beside an unsettled one, and holds what is in it but for
\* late rows.
LEMMA NewReceipt ==
  ASSUME IInv, NEW new \in Manifest, anchors' = anchors \cup {new},
         UNCHANGED <<writerVars, sink, overlapped>>,
         new \in sink, new.leaves # {},
         \A r \in new.leaves : /\ phase[r] = "committed" /\ InScope(r, new.scope)
                               /\ created[r] > new.from /\ created[r] <= new.to,
         \A r \in Rows : /\ phase[r] = "committed" /\ InScope(r, new.scope)
                         /\ created[r] > new.from /\ created[r] <= new.to
                         => r \in new.leaves \/ <<r, new.scope>> \in late,
         new.from = Epoch \/ \E a \in anchors : a.scope = new.scope /\ a.to = new.from,
         new.scope \notin overlapped => \A a \in anchors : a.scope = new.scope => a.to <= new.from
  PROVE  /\ HasLast' /\ CreatedAfterEpoch' /\ AnchorIsReceipt' /\ MissedRowsAreLate'
         /\ AnchoredOnceUnlessOverlapped' /\ WindowsAbut'
<1>. USE DEF IInv, writerVars
<1>1. AnchorIsReceipt'
  BY DEF AnchorIsReceipt, InScope
<1>2. HasLast'
  <2> SUFFICES ASSUME NEW s \in Scopes, \E a \in anchors' : a.scope = s
               PROVE  \E a \in anchors' : a.scope = s /\ \A b \in anchors' : b.scope = s => b.to <= a.to
    BY DEF HasLast
  <2>1. \A a \in anchors' : a.to \in Int
    BY DEF TypeOK, Manifest
  <2>2. CASE \E a \in anchors : a.scope = s
    <3>1. PICK a \in anchors : a.scope = s /\ \A b \in anchors : b.scope = s => b.to <= a.to
      BY <2>2 DEF HasLast
    <3>2. CASE new.scope = s /\ new.to > a.to
      BY <2>1, <3>1, <3>2
    <3>3. CASE ~ (new.scope = s /\ new.to > a.to)
      BY <2>1, <3>1, <3>3
    <3>. QED
      BY <3>2, <3>3
  <2>3. CASE ~ \E a \in anchors : a.scope = s
    BY <2>1, <2>3
  <2>. QED
    BY <2>2, <2>3
<1>3. CreatedAfterEpoch'
  BY DEF CreatedAfterEpoch
<1>4. MissedRowsAreLate'
  <2> SUFFICES ASSUME NEW r \in Rows, NEW s \in Scopes, phase[r] = "committed", InScope(r, s),
                      NEW a \in anchors', a.scope = s, a.to >= created[r]
               PROVE  Covered(r, s)' \/ <<r, s>> \in late
    BY DEF MissedRowsAreLate, InScope
  <2>1. Covered(r, s) => Covered(r, s)'
    BY DEF Covered
  <2>2. CASE a \in anchors
    BY <2>1, <2>2 DEF MissedRowsAreLate
  <2>3. CASE a = new /\ created[r] > new.from
    <3>1. created[r] <= new.to
      BY <2>3 DEF TypeOK, Manifest
    <3>2. r \in new.leaves \/ <<r, s>> \in late
      BY <2>3, <3>1
    <3>. QED
      BY <3>2, <2>3 DEF Covered
  <2>4. CASE a = new /\ ~ (created[r] > new.from)
    <3>1. created[r] > Epoch /\ created[r] \in Int /\ new.from \in Int
      BY DEF CreatedAfterEpoch, TypeOK, Manifest
    <3>2. PICK b \in anchors : b.scope = new.scope /\ b.to = new.from
      BY <3>1, <2>4 DEF Epoch
    <3>3. b.scope = s /\ b.to >= created[r]
      BY <3>1, <3>2, <2>4
    <3>. QED
      BY <3>3, <2>1 DEF MissedRowsAreLate
  <2>. QED
    BY <2>2, <2>3, <2>4
<1>5. ASSUME NEW a \in anchors, a.scope = new.scope, a.scope \notin overlapped
      PROVE  a.to <= new.from /\ a.leaves \cap new.leaves = {}
  <2>1. a.to <= new.from
    BY <1>5
  <2>2. /\ \A r \in a.leaves : r \in Rows /\ created[r] <= a.to
        /\ \A r \in new.leaves : r \in Rows /\ created[r] > new.from
    BY DEF AnchorIsReceipt, TypeOK, Manifest
  <2>3. /\ a.to \in Int /\ new.from \in Int
        /\ \A r \in Rows : created[r] \in Int
    BY DEF TypeOK, Manifest
  <2>. QED
    BY <2>1, <2>2, <2>3
<1>6. AnchoredOnceUnlessOverlapped'
  BY <1>5 DEF AnchoredOnceUnlessOverlapped
<1>7. WindowsAbut'
  <2> SUFFICES ASSUME NEW a \in anchors', a.scope \notin overlapped
               PROVE  /\ a.from = Epoch \/ \E b \in anchors' : b.scope = a.scope /\ b.to = a.from
                      /\ \A b \in anchors' : a # b /\ a.scope = b.scope => a.to <= b.from \/ b.to <= a.from
    BY DEF WindowsAbut
  <2>1. a.from = Epoch \/ \E b \in anchors' : b.scope = a.scope /\ b.to = a.from
    BY DEF WindowsAbut
  <2>2. ASSUME NEW b \in anchors', a # b, a.scope = b.scope
        PROVE  a.to <= b.from \/ b.to <= a.from
    BY <2>2, <1>5 DEF WindowsAbut
  <2>. QED
    BY <2>1, <2>2
<1>. QED
  BY <1>1, <1>2, <1>3, <1>4, <1>6, <1>7

\* The manifest of a tick is that of its locals.
LEMMA ManifestType ==
  ASSUME TypeOK, NEW t \in Tickers
  PROVE  /\ ManifestOf(t) \in Manifest /\ ManifestOf(t).scope = tick[t].scope
         /\ ManifestOf(t).from = tick[t].from /\ ManifestOf(t).to = tick[t].until
         /\ ManifestOf(t).leaves = tick[t].leaves
  BY DEF ManifestOf, Manifest, TypeOK

LEMMA NoTickType ==
  /\ NoTick.pc = "idle" /\ NoTick.pc \notin UnderWay
  /\ NoTick \in [pc : {"idle", "started", "windowed", "collected", "shipped"},
                 scope : Scopes, from : Int, until : Int, leaves : SUBSET Rows]
  BY DEF NoTick, UnderWay, Epoch, Scopes

LEMMA RecordIInv ==
  ASSUME IInv, NEW t \in Tickers, Record(t)
  PROVE  IInv'
<1>. USE DEF IInv
<1>1. PICK new : new = ManifestOf(t)
  OBVIOUS
<1>2. /\ tick[t].pc = "shipped" /\ anchors' = anchors \cup {new}
      /\ tick' = [tick EXCEPT ![t] = NoTick]
      /\ UNCHANGED <<writerVars, sink, inFlight, overlapped>>
  BY <1>1 DEF Record, EndTick
<1>3. tick'[t] = NoTick /\ \A u \in Tickers \ {t} : tick'[u] = tick[u]
  BY <1>2, OtherTicks
<1>4. /\ new \in Manifest /\ new.scope = tick[t].scope /\ new.from = tick[t].from
      /\ new.to = tick[t].until /\ new.leaves = tick[t].leaves
  BY <1>1, ManifestType
<1>5. tick[t].pc \in UnderWay
  BY <1>2 DEF UnderWay
<1>6. /\ new \in sink /\ new.leaves # {}
      /\ \A r \in new.leaves : /\ phase[r] = "committed" /\ InScope(r, new.scope)
                               /\ created[r] > new.from /\ created[r] <= new.to
  BY <1>1, <1>2, <1>4 DEF TickIsReceiptable
<1>7. \A r \in Rows : /\ phase[r] = "committed" /\ InScope(r, new.scope)
                      /\ created[r] > new.from /\ created[r] <= new.to
                      => r \in new.leaves \/ <<r, new.scope>> \in late
  BY <1>2, <1>4 DEF CollectedOrLate
<1>8. /\ new.from = Epoch \/ \E a \in anchors : a.scope = new.scope /\ a.to = new.from
      /\ new.scope \notin overlapped => \A a \in anchors : a.scope = new.scope => a.to <= new.from
  BY <1>4, <1>5 DEF StartsAtAnEnd, AloneAndAhead
<1>9. /\ HasLast' /\ CreatedAfterEpoch' /\ AnchorIsReceipt' /\ MissedRowsAreLate'
      /\ AnchoredOnceUnlessOverlapped' /\ WindowsAbut'
  BY <1>2, <1>4, <1>6, <1>7, <1>8, NewReceipt
<1>10. TypeOK'
  BY <1>2, <1>4, NoTickType DEF TypeOK, writerVars
<1>11. TickIsReceiptable'
  BY <1>2, <1>3, NoTickType DEF TickIsReceiptable, ManifestOf, InScope, writerVars
<1>12. StartsAtAnEnd'
  BY <1>2, <1>3, NoTickType DEF StartsAtAnEnd
<1>13. CollectedOrLate'
  BY <1>2, <1>3, NoTickType DEF CollectedOrLate, InScope, writerVars
<1>14. AloneAndAhead'
  <2> SUFFICES ASSUME NEW u \in Tickers, tick'[u].pc \in UnderWay, tick'[u].scope \notin overlapped
               PROVE  /\ \A v \in Tickers :
                           tick'[v].pc \in UnderWay /\ tick'[v].scope = tick'[u].scope => v = u
                      /\ \A a \in anchors' : a.scope = tick'[u].scope => a.to <= tick'[u].from
    BY <1>2 DEF AloneAndAhead
  <2>1. u # t /\ tick'[u] = tick[u]
    BY <1>3, NoTickType
  <2>2. tick[u].scope # tick[t].scope
    BY <2>1, <1>5 DEF AloneAndAhead
  <2>. QED
    BY <2>1, <2>2, <1>2, <1>3, <1>4, NoTickType DEF AloneAndAhead
<1>15. FlightsAreReceiptable'
  BY <1>2 DEF FlightsAreReceiptable, InScope, writerVars
<1>16. FlightsAreAlone'
  <2>1. \A m \in inFlight : m.scope = new.scope => m.scope \in overlapped
    BY <1>4, <1>5 DEF FlightsAreAlone
  <2>2. \A u \in Tickers : tick'[u].pc \in UnderWay => tick'[u] = tick[u]
    BY <1>3, NoTickType
  <2>. QED
    BY <2>1, <2>2, <1>2 DEF FlightsAreAlone
<1>. QED
  BY <1>9, <1>10, <1>11, <1>12, <1>13, <1>14, <1>15, <1>16

\* A tick that fails with its INSERT on the way hands its window over.
LEMMA LeftInFlightIInv ==
  ASSUME IInv, NEW t \in Tickers, tick[t].pc = "shipped", EndTick(t),
         inFlight' = inFlight \cup {ManifestOf(t)},
         UNCHANGED <<writerVars, sink, anchors, overlapped>>
  PROVE  IInv'
<1>. USE DEF IInv
<1>1. PICK new : new = ManifestOf(t)
  OBVIOUS
<1>2. tick' = [tick EXCEPT ![t] = NoTick]
  BY DEF EndTick
<1>3. tick'[t] = NoTick /\ \A u \in Tickers \ {t} : tick'[u] = tick[u]
  BY <1>2, OtherTicks
<1>4. /\ new \in Manifest /\ new.scope = tick[t].scope /\ new.from = tick[t].from
      /\ new.to = tick[t].until /\ new.leaves = tick[t].leaves
  BY <1>1, ManifestType
<1>5. tick[t].pc \in UnderWay
  BY DEF UnderWay
<1>6. TypeOK'
  BY <1>1, <1>2, <1>4, NoTickType DEF TypeOK, writerVars
<1>7. TickIsReceiptable'
  BY <1>3, NoTickType DEF TickIsReceiptable, ManifestOf, InScope, writerVars
<1>8. StartsAtAnEnd' /\ AloneAndAhead'
  BY <1>3, NoTickType DEF StartsAtAnEnd, AloneAndAhead
<1>9. CollectedOrLate'
  BY <1>3, NoTickType DEF CollectedOrLate, InScope, writerVars
<1>10. FlightsAreReceiptable'
  <2>1. /\ new \in sink /\ new.leaves # {}
        /\ \A r \in new.leaves : /\ phase[r] = "committed" /\ InScope(r, new.scope)
                                 /\ created[r] > new.from /\ created[r] <= new.to
    BY <1>1, <1>4 DEF TickIsReceiptable
  <2>2. \A r \in Rows : /\ phase[r] = "committed" /\ InScope(r, new.scope)
                        /\ created[r] > new.from /\ created[r] <= new.to
                        => r \in new.leaves \/ <<r, new.scope>> \in late
    BY <1>4 DEF CollectedOrLate
  <2>. QED
    BY <2>1, <2>2, <1>1 DEF FlightsAreReceiptable, InScope, writerVars
<1>11. FlightsAreAlone'
  <2>1. \A m \in inFlight : m.scope = new.scope => m.scope \in overlapped
    BY <1>4, <1>5 DEF FlightsAreAlone
  <2>2. \A u \in Tickers : tick'[u].pc \in UnderWay => u # t /\ tick'[u] = tick[u]
    BY <1>3, NoTickType
  <2>3. new.from = Epoch \/ \E a \in anchors : a.scope = new.scope /\ a.to = new.from
    BY <1>4, <1>5 DEF StartsAtAnEnd
  <2>4. new.scope \notin overlapped =>
          /\ \A u \in Tickers : ~ (tick'[u].pc \in UnderWay /\ tick'[u].scope = new.scope)
          /\ \A a \in anchors : a.scope = new.scope => a.to <= new.from
    BY <2>2, <1>4, <1>5 DEF AloneAndAhead
  <2>. QED
    BY <2>1, <2>2, <2>3, <2>4, <1>1 DEF FlightsAreAlone
<1>12. HasLast' /\ CreatedAfterEpoch' /\ AnchorIsReceipt'
  BY DEF HasLast, CreatedAfterEpoch, AnchorIsReceipt, InScope, writerVars
<1>13. MissedRowsAreLate' /\ AnchoredOnceUnlessOverlapped' /\ WindowsAbut'
  BY DEF MissedRowsAreLate, AnchoredOnceUnlessOverlapped, WindowsAbut, Covered, InScope, writerVars
<1>. QED
  BY <1>6, <1>7, <1>8, <1>9, <1>10, <1>11, <1>12, <1>13

\* A receipt that lands late lands behind all others of its scope, or in a scope
\* in which a window was begun meanwhile.
LEMMA ReceiptLandsIInv ==
  ASSUME IInv, NEW m \in inFlight, ReceiptLands(m)
  PROVE  IInv'
<1>. USE DEF IInv
<1>1. /\ anchors' = anchors \cup {m} /\ inFlight' = inFlight \ {m}
      /\ UNCHANGED <<writerVars, tick, sink, overlapped>>
  BY DEF ReceiptLands
<1>2. m \in Manifest
  BY DEF TypeOK
<1>3. /\ HasLast' /\ CreatedAfterEpoch' /\ AnchorIsReceipt' /\ MissedRowsAreLate'
      /\ AnchoredOnceUnlessOverlapped' /\ WindowsAbut'
  <2>1. /\ m \in sink /\ m.leaves # {}
        /\ \A r \in m.leaves : /\ phase[r] = "committed" /\ InScope(r, m.scope)
                               /\ created[r] > m.from /\ created[r] <= m.to
        /\ \A r \in Rows : /\ phase[r] = "committed" /\ InScope(r, m.scope)
                           /\ created[r] > m.from /\ created[r] <= m.to
                           => r \in m.leaves \/ <<r, m.scope>> \in late
    BY DEF FlightsAreReceiptable
  <2>2. /\ m.from = Epoch \/ \E a \in anchors : a.scope = m.scope /\ a.to = m.from
        /\ m.scope \notin overlapped => \A a \in anchors : a.scope = m.scope => a.to <= m.from
    BY DEF FlightsAreAlone
  <2>. QED
    BY <1>1, <1>2, <2>1, <2>2, NewReceipt
<1>4. TypeOK'
  BY <1>1, <1>2 DEF TypeOK, writerVars
<1>5. TickIsReceiptable' /\ CollectedOrLate'
  BY <1>1 DEF TickIsReceiptable, CollectedOrLate, ManifestOf, InScope, writerVars
<1>6. StartsAtAnEnd'
  BY <1>1 DEF StartsAtAnEnd
<1>7. AloneAndAhead'
  <2>1. \A u \in Tickers : tick[u].pc \in UnderWay /\ tick[u].scope = m.scope =>
                             m.scope \in overlapped
    BY DEF FlightsAreAlone
  <2>. QED
    BY <2>1, <1>1 DEF AloneAndAhead
<1>8. FlightsAreReceiptable'
  BY <1>1 DEF FlightsAreReceiptable, InScope, writerVars
<1>9. FlightsAreAlone'
  <2>1. \A n \in inFlight : n.scope = m.scope /\ n # m => m.scope \in overlapped
    BY DEF FlightsAreAlone
  <2>. QED
    BY <2>1, <1>1 DEF FlightsAreAlone
<1>. QED
  BY <1>3, <1>4, <1>5, <1>6, <1>7, <1>8, <1>9

-----------------------------------------------------------------------------
(* The invariant, and what follows *)

LEMMA NextIInv == IInv /\ [Next]_vars => IInv'
<1> SUFFICES ASSUME IInv, [Next]_vars
             PROVE  IInv'
  OBVIOUS
<1>1. CASE AdvanceClock
  BY <1>1, AdvanceClockIInv
<1>2. ASSUME NEW r \in Rows, BeginWrite(r) \/ CommitWrite(r) \/ AbortWrite(r)
      PROVE  IInv'
  BY <1>2, BeginWriteIInv, CommitWriteIInv, AbortWriteIInv
<1>3. ASSUME NEW t \in Tickers, LoopTick(t) \/ Trigger(t)
      PROVE  IInv'
  <2>1. clock \in Int /\ \A d \in Skews : clock + d \in Int
    BY TimeAssumption DEF IInv, TypeOK
  <2>2. CASE LoopTick(t)
    <3>1. PICK d \in Skews : StartTick(t, Global, clock + d)
      BY <2>2 DEF LoopTick
    <3>2. Global \in Scopes
      BY DEF Scopes
    <3>. QED
      BY <2>1, <3>1, <3>2, StartTickIInv
  <2>3. CASE Trigger(t)
    <3>1. PICK s \in Scopes : \E until \in Untils \cup { clock + d : d \in Skews } : StartTick(t, s, until)
      BY <2>3 DEF Trigger
    <3>2. PICK until \in Untils \cup { clock + d : d \in Skews } : StartTick(t, s, until)
      BY <3>1
    <3>3. until \in Int
      BY <2>1, TimeAssumption
    <3>. QED
      BY <3>2, <3>3, StartTickIInv
  <2>. QED
    BY <1>3, <2>2, <2>3
<1>4. ASSUME NEW t \in Tickers, TickStep(t)
      PROVE  IInv'
  <2>1. CASE ReadWindowStart(t)
    BY <2>1, ReadWindowStartIInv
  <2>2. CASE WindowPassed(t) \/ WindowEmpty(t)
    BY <2>2, EndTickIInv DEF WindowPassed, WindowEmpty, IInv, TypeOK
  <2>3. CASE Collect(t)
    BY <2>3, CollectIInv
  <2>4. CASE Ship(t)
    BY <2>4, ShipIInv
  <2>5. CASE Record(t)
    BY <2>5, RecordIInv
  <2>. QED
    BY <1>4, <2>1, <2>2, <2>3, <2>4, <2>5 DEF TickStep
<1>5. ASSUME NEW t \in Tickers, FailTick(t)
      PROVE  IInv'
  <2>1. ManifestOf(t) \in Manifest /\ sink \subseteq Manifest
    BY ManifestType DEF IInv, TypeOK
  <2>2. CASE inFlight' = inFlight
    <3>1. sink \subseteq sink' /\ sink' \subseteq Manifest
      BY <1>5, <2>1 DEF FailTick
    <3>. QED
      BY <1>5, <2>2, <3>1, EndTickIInv DEF FailTick
  <2>3. CASE inFlight' # inFlight
    <3>1. tick[t].pc = "shipped" /\ inFlight' = inFlight \cup {ManifestOf(t)} /\ sink' = sink
      BY <1>5, <2>3 DEF FailTick
    <3>. QED
      BY <1>5, <3>1, LeftInFlightIInv DEF FailTick
  <2>. QED
    BY <2>2, <2>3
<1>7. ASSUME NEW m \in inFlight, ReceiptLands(m)
      PROVE  IInv'
  BY <1>7, ReceiptLandsIInv
<1>6. CASE UNCHANGED vars
  BY <1>6
     DEF vars, IInv, TypeOK, HasLast, CreatedAfterEpoch, TickIsReceiptable,
         StartsAtAnEnd, CollectedOrLate, AloneAndAhead, FlightsAreReceiptable, FlightsAreAlone,
         AnchorIsReceipt, MissedRowsAreLate,
         AnchoredOnceUnlessOverlapped, WindowsAbut, Covered, InScope, ManifestOf
<1>. QED
  BY <1>1, <1>2, <1>3, <1>4, <1>5, <1>6, <1>7 DEF Next

LEMMA Invariant == Spec => []IInv
  BY InitIInv, NextIInv, PTL DEF Spec

\* Every variable of Anchoring keeps its type, whatever the constants.
THEOREM AnchoringTypeCorrect == Spec => []TypeOK
<1>1. IInv => TypeOK
  BY DEF IInv
<1>. QED
  BY <1>1, Invariant, PTL

\* Whatever ticks fail and however they interleave, an anchors row is the
\* receipt of an uploaded manifest over committed rows of its scope and window.
THEOREM AnchorsAreReceipts == Spec => []AnchorIsReceipt
<1>1. IInv => AnchorIsReceipt
  BY DEF IInv
<1>. QED
  BY <1>1, Invariant, PTL

\* collect_leaves misses no row of a window but those that commit after it.
THEOREM OnlyLateRowsAreMissed == Spec => []MissedRowsAreLate
<1>1. IInv => MissedRowsAreLate
  BY DEF IInv
<1>. QED
  BY <1>1, Invariant, PTL

\* Rows are under two anchors of a scope only if a window of that scope was begun
\* while another was not settled: its tick under way, or its receipt in flight.
THEOREM RowsAreAnchoredOnce == Spec => []AnchoredOnceUnlessOverlapped
<1>1. IInv => AnchoredOnceUnlessOverlapped
  BY DEF IInv
<1>. QED
  BY <1>1, Invariant, PTL

\* Windows that are each begun when the last one is settled tile time from the
\* epoch, whatever ticks fail and whenever the receipts they leave behind land.
THEOREM WindowsTileTime == Spec => []WindowsAbut
<1>1. IInv => WindowsAbut
  BY DEF IInv
<1>. QED
  BY <1>1, Invariant, PTL

-----------------------------------------------------------------------------
(* What a manifest binds *)

\* Rows have ids, different rows different ones.
LEMMA IdsDiffer ==
  /\ \A r \in Rows : Id(r) \in Nat
  /\ \A r, q \in Rows : r # q => Id(r) # Id(q)
<1>1. PICK n \in Nat : n = Cardinality(Rows)
  BY RowsAssumption, FS_CardinalityType
<1>2. PICK f : f \in Bijection(1 .. n, Rows)
  BY <1>1, RowsAssumption, FS_CardinalityType DEF ExistsBijection
<1>3. f \in [1 .. n -> Rows] /\ IsInjective(f)
  BY <1>2 DEF Bijection, Injection
<1>4. RowOrder \in [1 .. n -> Rows] /\ IsInjective(RowOrder)
  BY <1>1, <1>3 DEF RowOrder, SetToSeq
<1>5. RowOrder \in Injection(1 .. n, Rows)
  BY <1>4 DEF Injection
<1>6. IsFiniteSet(1 .. n) /\ Cardinality(1 .. n) = n
  BY FS_Interval
<1>7. RowOrder \in Surjection(1 .. n, Rows)
  BY <1>1, <1>5, <1>6, FS_Injection, RowsAssumption
<1>8. ASSUME NEW r \in Rows
      PROVE  Id(r) \in 1 .. n /\ RowOrder[Id(r)] = r
  <2>1. \E i \in DOMAIN RowOrder : RowOrder[i] = r
    BY <1>7 DEF Surjection
  <2>2. DOMAIN RowOrder = 1 .. n
    BY <1>4
  <2>. QED
    BY <2>1, <2>2 DEF Id
<1>9. \A r \in Rows : Id(r) \in Nat
  BY <1>8
<1>. QED
  BY <1>8, <1>9

\* created_at and id order the rows.
LEMMA RowsAreOrdered ==
  ASSUME TypeOK
  PROVE  /\ \A r, q \in Rows : r # q => Precedes(r, q) \/ Precedes(q, r)
         /\ \A r, q, x \in Rows : Precedes(r, q) /\ Precedes(q, x) => Precedes(r, x)
<1>1. \A r \in Rows : created[r] \in Nat
  BY BoundAssumption DEF TypeOK
<1>2. PICK id : id = [r \in Rows |-> Id(r)]
  OBVIOUS
<1>3. /\ \A r \in Rows : id[r] = Id(r) /\ id[r] \in Nat
      /\ \A r, q \in Rows : r # q => id[r] # id[q]
  BY <1>2, IdsDiffer
<1>4. \A r, q \in Rows : Precedes(r, q) <=>
        (created[r] < created[q] \/ (created[r] = created[q] /\ id[r] < id[q]))
  BY <1>3 DEF Precedes
<1>. QED
  BY <1>1, <1>3, <1>4

\* What is collected has a leaf list.
LEMMA LeafListLists ==
  ASSUME TypeOK, NEW m \in Manifest, m.leaves # {}
  PROVE  LeafList(m) \in Seq(Rows) /\ LeafList(m) # <<>>
<1>1. m.leaves \in SUBSET Rows /\ IsFiniteSet(m.leaves)
  BY RowsAssumption, FS_Subset DEF Manifest
<1>2. PICK n \in Nat : n = Cardinality(m.leaves)
  BY <1>1, FS_CardinalityType
<1>3. \E l \in SetToSeqs(m.leaves) : \A i, j \in DOMAIN l : i < j => Precedes(l[i], l[j])
  <2>1. PICK R : R = { p \in Rows \X Rows : Precedes(p[1], p[2]) }
    OBVIOUS
  <2>2. \A r, q \in Rows : <<r, q>> \in R <=> Precedes(r, q)
    BY <2>1
  <2>3. Orders(R, Rows)
    BY <2>2, RowsAreOrdered DEF Orders
  <2>4. PICK l \in SetToSeqs(m.leaves) : InOrder(l, R)
    BY <1>1, <1>2, <2>3, RowsAssumption, OrderedListExists
  <2>5. \A i \in DOMAIN l : l[i] \in Rows
    BY <1>1, <2>4 DEF SetToSeqs
  <2>6. \A i, j \in DOMAIN l : i < j => Precedes(l[i], l[j])
    BY <2>2, <2>4, <2>5 DEF InOrder
  <2>. QED
    BY <2>4, <2>6
<1>4. LeafList(m) \in SetToSeqs(m.leaves)
  BY <1>3 DEF LeafList
<1>5. LeafList(m) \in [1 .. n -> m.leaves] /\ n # 0
  BY <1>1, <1>2, <1>4, FS_EmptySet DEF SetToSeqs
<1>. QED
  BY <1>1, <1>5

\* What a step uploads is the manifest of a tick that has collected.
LEMMA UploadsAreManifests ==
  ASSUME IInv, [Next]_vars, NEW m \in sink' \ sink
  PROVE  m \in Manifest /\ m.leaves # {}
<1>1. \E t \in Tickers : tick[t].pc = "collected" /\ m = ManifestOf(t)
  <2>1. \E t \in Tickers : Ship(t) \/ FailTick(t)
    BY DEF Next, TickStep, vars, AdvanceClock, BeginWrite, CommitWrite, AbortWrite, LoopTick,
           Trigger, StartTick, ReadWindowStart, WindowPassed, Collect, WindowEmpty, Record,
           ReceiptLands
  <2>2. PICK t \in Tickers : Ship(t) \/ FailTick(t)
    BY <2>1
  <2>3. tick[t].pc = "collected" /\ m = ManifestOf(t)
    BY <2>2 DEF Ship, FailTick
  <2>. QED
    BY <2>3
<1>2. PICK t \in Tickers : tick[t].pc = "collected" /\ m = ManifestOf(t)
  BY <1>1
<1>3. tick[t].leaves # {}
  BY <1>2 DEF IInv, TickIsReceiptable
<1>4. ManifestOf(t) \in Manifest /\ ManifestOf(t).leaves = tick[t].leaves
  BY DEF ManifestOf, Manifest, IInv, TypeOK
<1>. QED
  BY <1>2, <1>3, <1>4

\* The offline verifier accepts an uploaded manifest for the leaves that were
\* collected, in the order of the query, and for no other list, however many
\* leaves there are.
THEOREM AnchorsBindTheirLeaves == Spec => AnchorBindsItsLeaves
<1> DEFINE Binds(m) == LET list == LeafList(m) IN
             \A claim \in LeafLists \cup {list} : VerifyAnchor(SignedManifest(list), claim) <=> claim = list
<1>1. IInv /\ [Next]_vars => [\A m \in sink' \ sink : Binds(m)]_vars
  <2>1. SUFFICES ASSUME IInv, [Next]_vars, NEW m \in sink' \ sink
                 PROVE  Binds(m)
    OBVIOUS
  <2>2. LeafList(m) \in Seq(Rows) /\ LeafList(m) # <<>>
    BY <2>1, UploadsAreManifests, LeafListLists DEF IInv
  <2>3. LeafLists \subseteq Seq(Rows)
    BY MaxLeavesAssumption DEF LeafLists, BoundedSeq, SeqOf
  <2>. QED
    BY <2>2, <2>3, ManifestBindsLeaves
<1>. QED
  BY <1>1, Invariant, PTL DEF Spec, AnchorBindsItsLeaves

=============================================================================
