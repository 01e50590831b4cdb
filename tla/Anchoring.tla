----------------------------- MODULE Anchoring ------------------------------
(***************************************************************************)
(* Merkle anchors over the chained rows: ticks of the background loops     *)
(* (one per ledger replica) and of POST /anchors, interleaved with the     *)
(* write transactions whose rows they collect.                             *)
(*                                                                         *)
(* A tick is not one transaction: it reads the end of the last window,     *)
(* collects the rows of the new window, uploads a signed manifest to the   *)
(* WORM sink and inserts the anchors row, each on its own.  A tick that    *)
(* fails may leave its INSERT behind, for Postgres to apply when the next  *)
(* tick is long under way.  Of a write transaction only what anchoring     *)
(* sees is kept: created_at is fixed when it begins, its row is visible    *)
(* when it commits (see HashChain).                                        *)
(*                                                                         *)
(* The leaves of a window are ordered by (created_at, id), so the set of   *)
(* rows determines the leaf sequence; root and leaf count, which bind the  *)
(* sequence (AnchorBindsItsLeaves), are represented by it.                 *)
(***************************************************************************)
EXTENDS MerkleTree, Integers, FiniteSets

CONSTANTS
  Runs,       \* run ids
  Global,     \* the scope that covers every run
  Loops,      \* background loops, one per ledger process
  Triggers,   \* callers of POST /anchors
  Skews,      \* ledger host clock minus database clock
  Untils,     \* explicit `until` values of POST /anchors
  MaxClock,   \* bound on the database clock
  MaxOrphans  \* bound on uploaded manifests that have no anchors row

Scopes == {Global} \cup Runs
Tickers == Loops \cup Triggers
Epoch == 0

ASSUME RowsAssumption == IsFiniteSet(Rows)
ASSUME ScopeAssumption == Global \notin Runs
ASSUME TickerAssumption == Loops \cap Triggers = {}
ASSUME TimeAssumption == Skews \subseteq Int /\ Untils \subseteq Int
ASSUME BoundAssumption == MaxClock \in Nat \ {0} /\ MaxOrphans \in Nat

VARIABLES
  clock,      \* database clock
  phase,      \* write transaction of each row
  created,    \* created_at of each row
  runOf,      \* run_id of each row
  tick,       \* per ticker, its place in anchor_tick and its locals
  sink,       \* signed manifests in the WORM bucket
  anchors,    \* the anchors table
  inFlight,   \* receipts whose INSERT outlives the tick that sent it
  late,       \* history: <<row, scope>> where the row committed after a tick
              \*   whose window reaches its created_at had collected its leaves
  overlapped  \* history: scopes in which a tick read its window's start while
              \*   the end of another's window was not settled: that tick was
              \*   under way too, or had left its receipt in flight

vars == <<clock, phase, created, runOf, tick, sink, anchors, inFlight, late,
          overlapped>>
writerVars == <<clock, phase, created, runOf, late>>

\* What is signed and uploaded, and what the anchors row repeats; `by` stands
\* for the fresh UUID of key and row.  Manifests of one ticker that agree in all
\* else are taken as one: only overlapping windows can give two such receipts.
Manifest == [scope : Scopes, from : Int, to : Int, leaves : SUBSET Rows, by : Tickers]

NoTick == [pc |-> "idle", scope |-> Global, from |-> Epoch, until |-> Epoch, leaves |-> {}]

TypeOK ==
  /\ clock \in 1 .. MaxClock
  /\ phase \in [Rows -> {"idle", "open", "committed"}]
  /\ created \in [Rows -> 0 .. MaxClock]
  /\ runOf \in [Rows -> Runs]
  /\ tick \in [Tickers -> [pc : {"idle", "started", "windowed", "collected", "shipped"},
                           scope : Scopes, from : Int, until : Int, leaves : SUBSET Rows]]
  /\ sink \subseteq Manifest
  /\ anchors \subseteq Manifest
  /\ inFlight \subseteq Manifest
  /\ late \subseteq Rows \X Scopes
  /\ overlapped \subseteq Scopes

Init ==
  /\ clock = 1
  /\ phase = [r \in Rows |-> "idle"]
  /\ created = [r \in Rows |-> 0]
  /\ runOf \in [Rows -> Runs]
  /\ tick = [t \in Tickers |-> NoTick]
  /\ sink = {}
  /\ anchors = {}
  /\ inFlight = {}
  /\ late = {}
  /\ overlapped = {}

-----------------------------------------------------------------------------
(* Queries *)

InScope(r, s) == s = Global \/ runOf[r] = s

\* Mutant of WindowStart: the column anchored_from of the last anchor.
WindowStartFrom(s) ==
  LET starts == { a.from : a \in { b \in anchors : b.scope = s } }
  IN  IF starts = {} THEN Epoch ELSE CHOOSE e \in starts : \A f \in starts : f <= e

\* anchor_window_start: ORDER BY anchored_to DESC LIMIT 1, or the epoch.
WindowStart(s) ==
  LET ends == { a.to : a \in { b \in anchors : b.scope = s } }
  IN  IF ends = {} THEN Epoch ELSE CHOOSE e \in ends : \A f \in ends : f <= e

\* Mutant of CollectLeaves: the window is open at its end.
CollectLeavesBefore(s, from, until) ==
  { r \in Rows : /\ phase[r] = "committed" /\ InScope(r, s)
                 /\ created[r] > from /\ created[r] < until }

\* collect_leaves: one SELECT over the seven tables, the window (from, until].
CollectLeaves(s, from, until) ==
  { r \in Rows : /\ phase[r] = "committed" /\ InScope(r, s)
                 /\ created[r] > from /\ created[r] <= until }

\* ORDER BY created_at, id; RowOrder is the order of the ids.
RowOrder == SetToSeq(Rows)
Id(r) == CHOOSE i \in DOMAIN RowOrder : RowOrder[i] = r
Precedes(r, q) == created[r] < created[q] \/ (created[r] = created[q] /\ Id(r) < Id(q))
LeafList(m) ==
  CHOOSE l \in SetToSeqs(m.leaves) : \A i, j \in DOMAIN l : i < j => Precedes(l[i], l[j])

ManifestOf(t) == [scope |-> tick[t].scope, from |-> tick[t].from, to |-> tick[t].until,
                  leaves |-> tick[t].leaves, by |-> t]

\* A tick of scope s has looked for rows up to `ts` and will not look again.
Passed(s, ts) ==
  \/ \E a \in anchors \cup inFlight : a.scope = s /\ a.to >= ts
  \/ \E t \in Tickers : /\ tick[t].pc \in {"collected", "shipped"}
                        /\ tick[t].scope = s /\ tick[t].until >= ts

-----------------------------------------------------------------------------
(* Writers *)

AdvanceClock == /\ clock < MaxClock
                /\ clock' = clock + 1
                /\ UNCHANGED <<phase, created, runOf, tick, sink, anchors, inFlight, late, overlapped>>

\* Mutant of BeginWrite: created_at comes from a writer whose clock is ahead.
BeginWriteAhead(r) ==
  /\ phase[r] = "idle"
  /\ phase' = [phase EXCEPT ![r] = "open"]
  /\ created' = [created EXCEPT ![r] = clock + 1]
  /\ UNCHANGED <<clock, runOf, tick, sink, anchors, inFlight, late, overlapped>>

BeginWrite(r) ==
  /\ phase[r] = "idle"
  /\ phase' = [phase EXCEPT ![r] = "open"]
  /\ created' = [created EXCEPT ![r] = clock]
  /\ UNCHANGED <<clock, runOf, tick, sink, anchors, inFlight, late, overlapped>>

CommitWrite(r) ==
  /\ phase[r] = "open"
  /\ phase' = [phase EXCEPT ![r] = "committed"]
  /\ late' = late \cup { <<r, s>> : s \in { x \in Scopes :
                                    InScope(r, x) /\ Passed(x, created[r]) } }
  /\ UNCHANGED <<clock, created, runOf, tick, sink, anchors, inFlight, overlapped>>

\* A write that is rolled back leaves nothing; its name serves for another row.
AbortWrite(r) ==
  /\ phase[r] = "open"
  /\ phase' = [phase EXCEPT ![r] = "idle"]
  /\ created' = [created EXCEPT ![r] = 0]
  /\ UNCHANGED <<clock, runOf, tick, sink, anchors, inFlight, late, overlapped>>

-----------------------------------------------------------------------------
(* anchor_tick *)

StartTick(t, s, until) ==
  /\ tick[t].pc = "idle"
  /\ tick' = [tick EXCEPT ![t] = [NoTick EXCEPT !.pc = "started", !.scope = s,
                                                !.until = until]]
  /\ UNCHANGED <<writerVars, sink, anchors, inFlight, overlapped>>

\* Mutant of LoopTick: the loop stops after the first anchor.
LoopTickOnce(t) ==
  t \in Loops /\ anchors = {} /\ \E d \in Skews : StartTick(t, Global, clock + d)

\* spawn_global_loop: the interval fired; until is the host's Utc::now().
LoopTick(t) == t \in Loops /\ \E d \in Skews : StartTick(t, Global, clock + d)

\* POST /anchors for either scope; until defaults to the host's Utc::now().
Trigger(t) ==
  /\ t \in Triggers
  /\ \E s \in Scopes : \E until \in Untils \cup { clock + d : d \in Skews } :
       StartTick(t, s, until)

\* The tick ends: Ok(None), Ok(Some), or Err that the caller logs or returns.
EndTick(t) == tick' = [tick EXCEPT ![t] = NoTick]

\* The scope of t, if another tick of it is past its own ReadWindowStart, or a
\* receipt of it is in flight.
Rivals(t) ==
  { s \in {tick[t].scope} :
      \/ \E v \in Tickers \ {t} :
           tick[v].scope = s /\ tick[v].pc \in {"windowed", "collected", "shipped"}
      \/ \E m \in inFlight : m.scope = s }

\* Mutant of ReadWindowStart: the window starts one past the last one's end.
ReadWindowStartPast(t) ==
  /\ tick[t].pc = "started" /\ tick[t].until > WindowStart(tick[t].scope)
  /\ tick' = [tick EXCEPT ![t].pc = "windowed", ![t].from = WindowStart(tick[t].scope) + 1]
  /\ overlapped' = overlapped \cup Rivals(t)
  /\ UNCHANGED <<writerVars, sink, anchors, inFlight>>

\* The window starts where the last one ended.
ReadWindowStart(t) ==
  /\ tick[t].pc = "started" /\ tick[t].until > WindowStart(tick[t].scope)
  /\ tick' = [tick EXCEPT ![t].pc = "windowed", ![t].from = WindowStart(tick[t].scope)]
  /\ overlapped' = overlapped \cup Rivals(t)
  /\ UNCHANGED <<writerVars, sink, anchors, inFlight>>

WindowPassed(t) ==
  /\ tick[t].pc = "started" /\ tick[t].until <= WindowStart(tick[t].scope)
  /\ EndTick(t)
  /\ UNCHANGED <<writerVars, sink, anchors, inFlight, overlapped>>

Collect(t) ==
  LET leaves == CollectLeaves(tick[t].scope, tick[t].from, tick[t].until) IN
  /\ tick[t].pc = "windowed" /\ leaves # {}
  /\ tick' = [tick EXCEPT ![t].pc = "collected", ![t].leaves = leaves]
  /\ UNCHANGED <<writerVars, sink, anchors, inFlight, overlapped>>

WindowEmpty(t) ==
  /\ tick[t].pc = "windowed"
  /\ CollectLeaves(tick[t].scope, tick[t].from, tick[t].until) = {}
  /\ EndTick(t)
  /\ UNCHANGED <<writerVars, sink, anchors, inFlight, overlapped>>

\* sink.put under a fresh key.
Ship(t) ==
  /\ tick[t].pc = "collected"
  /\ sink' = sink \cup {ManifestOf(t)}
  /\ tick' = [tick EXCEPT ![t].pc = "shipped"]
  /\ UNCHANGED <<writerVars, anchors, inFlight, overlapped>>

\* Mutant of Record: the receipt is written without waiting for the upload.
RecordEarly(t) ==
  /\ tick[t].pc \in {"collected", "shipped"}
  /\ anchors' = anchors \cup {ManifestOf(t)}
  /\ EndTick(t)
  /\ UNCHANGED <<writerVars, sink, inFlight, overlapped>>

\* INSERT INTO anchors: the receipt.
Record(t) ==
  /\ tick[t].pc = "shipped"
  /\ anchors' = anchors \cup {ManifestOf(t)}
  /\ EndTick(t)
  /\ UNCHANGED <<writerVars, sink, inFlight, overlapped>>

\* Any statement fails, the process dies, or the handler of POST /anchors is
\* dropped.  An upload whose answer is lost has reached the bucket all the same
\* (when it does is nothing to anybody: no part of the system reads it); a
\* receipt's INSERT, one statement on the pool, may still be on its way.
FailTick(t) ==
  /\ tick[t].pc # "idle"
  /\ sink' \in {sink} \cup (IF tick[t].pc = "collected" THEN {sink \cup {ManifestOf(t)}}
                            ELSE {})
  /\ inFlight' \in {inFlight} \cup (IF tick[t].pc = "shipped" THEN {inFlight \cup {ManifestOf(t)}}
                                    ELSE {})
  /\ Cardinality(sink' \ anchors) <= MaxOrphans
  /\ EndTick(t)
  /\ UNCHANGED <<writerVars, anchors, overlapped>>

\* Postgres applies an INSERT that nobody waits for any more.
ReceiptLands(m) ==
  /\ m \in inFlight
  /\ anchors' = anchors \cup {m}
  /\ inFlight' = inFlight \ {m}
  /\ UNCHANGED <<writerVars, tick, sink, overlapped>>

-----------------------------------------------------------------------------
(* Specification *)

TickStep(t) == \/ ReadWindowStart(t) \/ WindowPassed(t) \/ Collect(t) \/ WindowEmpty(t)
               \/ Ship(t) \/ Record(t)

Next == \/ AdvanceClock
        \/ \E r \in Rows : BeginWrite(r) \/ CommitWrite(r) \/ AbortWrite(r)
        \/ \E t \in Tickers : LoopTick(t) \/ Trigger(t) \/ TickStep(t) \/ FailTick(t)
        \/ \E m \in inFlight : ReceiptLands(m)

Spec == Init /\ [][Next]_vars

\* The interval keeps firing, a tick that does not fail advances, and the
\* database and the bucket do not fail for ever: a step that is possible again
\* and again is taken at last.
FairSpec ==
  /\ Spec
  /\ \A t \in Loops : WF_vars(LoopTick(t)) /\ WF_vars(TickStep(t))
                      /\ SF_vars(ReadWindowStart(t)) /\ SF_vars(Collect(t))
                      /\ SF_vars(Ship(t)) /\ SF_vars(Record(t))

-----------------------------------------------------------------------------
(* Properties *)

Covered(r, s) == \E a \in anchors : a.scope = s /\ r \in a.leaves

\* An anchors row is the receipt of a manifest that did reach the sink, over
\* rows that are committed and belong to its scope and window.
AnchorIsReceipt ==
  \A a \in anchors :
    /\ a \in sink
    /\ a.leaves # {}
    /\ \A r \in a.leaves : /\ phase[r] = "committed" /\ InScope(r, a.scope)
                           /\ created[r] > a.from /\ created[r] <= a.to

\* The offline verifier accepts an uploaded manifest for the leaves it was made
\* of, in their order, and for no other list: although a duplicated sibling
\* gives two lists one root, none passes for another.
AnchorBindsItsLeaves ==
  [][\A m \in sink' \ sink :
       LET list == LeafList(m) IN
       \A claim \in LeafLists \cup {list} : VerifyAnchor(SignedManifest(list), claim) <=> claim = list]_vars

\* Windows that touch lose no boundary row: once the anchors of a scope have
\* moved past a row's created_at the row is in one of them, unless it
\* committed after the tick that should have seen it had looked.
MissedRowsAreLate ==
  \A r \in Rows, s \in Scopes :
    /\ phase[r] = "committed" /\ InScope(r, s)
    /\ \E a \in anchors : a.scope = s /\ a.to >= created[r]
    => Covered(r, s) \/ <<r, s>> \in late

\* The anchors of a scope cover every row at most once, unless a tick read its
\* window's start while another's end was not settled: nothing serialises a
\* loop with the loop of another replica or with POST /anchors, nor a tick with
\* the INSERT that a failed one left in flight.  Ticks that follow each other
\* otherwise never double a row, whoever ran them, wherever they failed, when a
\* lost receipt landed between them, and wherever their windows end.
AnchoredOnceUnlessOverlapped ==
  \A a, b \in anchors : a # b /\ a.scope = b.scope /\ a.scope \notin overlapped =>
                           a.leaves \cap b.leaves = {}

\* The windows of a scope form one gapless line from the epoch, whatever ticks
\* failed and whichever receipts landed late, again unless a window was begun
\* before the end of another was settled.
WindowsAbut ==
  \A a \in { m \in anchors : m.scope \notin overlapped } :
    /\ a.from = Epoch \/ \E b \in anchors : b.scope = a.scope /\ b.to = a.from
    /\ \A b \in anchors : a # b /\ a.scope = b.scope => a.to <= b.from \/ b.to <= a.from

\* Migration 0011: an anchor "collects every `row_hash` generated since the
\* previous anchor for a scope", so a row behind the last window is covered.
NoRowMissed ==
  \A r \in Rows, s \in Scopes :
    phase[r] = "committed" /\ InScope(r, s) /\ created[r] <= WindowStart(s) => Covered(r, s)

\* Every row that commits in time is eventually under a global anchor.
RowsGetAnchored ==
  \A r \in Rows : phase[r] = "committed" /\ <<r, Global>> \notin late ~> Covered(r, Global)

=============================================================================
