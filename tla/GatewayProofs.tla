---------------------------- MODULE GatewayProofs ----------------------------
(***************************************************************************)
(* Proofs about Gateway: any number of approvals, tool calls, retrievals   *)
(* and replicas over one ledger link, and a reader of a dossier.           *)
(*                                                                         *)
(* The invariant is stated handler by handler.  A handler is at rest, or   *)
(* takes a step of its own, or has an entry committed; the three kinds of  *)
(* step are treated once, and the components share them.                   *)
(***************************************************************************)
EXTENDS Gateway, ApprovalProofs

-----------------------------------------------------------------------------
(* The inductive invariant *)

States == {"idle"} \cup ApprovalActive \cup ToolActive \cup RetrievalActive \cup Ended

PcOK == pc \in [Handlers -> States]

\* Each handler records what its component records.
Own(h, e) ==
  \/ h \in Approvals /\ e \in ApprovalEntries
  \/ h \in ToolCalls /\ e \in ToolEntries
  \/ h \in Retrievals /\ e \in RetrievalEntries

OwnEntries == \A h \in Handlers : \A e : Sent(h, e) => Own(h, e)

\* As in ApprovalProofs, without what only the gate's own theorems need.
ApprovalAt(a) ==
  /\ \A g \in Gateways : a \in pending[g] => g = home[a] /\ channel[a] = "open"
  /\ pc[a] \in {"recording", "evidencing"} => channel[a] \in Decisions
  /\ \A s \in Decisions : <<a, Evidence(s)>> \in calls => Committed(a, Event(s))

EvidenceAt(a) ==
  \A s \in Decisions : \A i \in 1 .. Len(ledger[a]) :
    ledger[a][i] = Evidence(s) => \E j \in 1 .. i - 1 : ledger[a][j] = Event(s)

BeforeForward == {"idle", "minting", "stamping", "ready", "calling"}

\* A call is forwarded once, behind its event, and answered once.
CallAt(t) ==
  /\ pc[t] \in BeforeForward => t \notin forwarded /\ backend[t] = "unseen"
  /\ t \in forwarded => backend[t] = "unseen"
  /\ t \in forwarded \/ backend[t] \in Statuses => Committed(t, Call)
  /\ pc[t] \in {"logging", "mirroring", "confirming", "replied"} => backend[t] \in Statuses
  /\ pc[t] \in {"mirroring", "confirming", "replied"} => Committed(t, Outcome(backend[t]))
  /\ \A s \in Statuses : Sent(t, Outcome(s)) => backend[t] = s

\* Behind the outcome come the invocation and the effects, the latter one by
\* one and all with the same link.
MirrorAt(t) ==
  /\ backend[t] = "unseen" => item[t] = 0
  /\ invocation[t] => Committed(t, Invocation)
  /\ Sent(t, Invocation) => backend[t] \in Statuses /\ Committed(t, Outcome(backend[t]))
  /\ \A i \in Nat, linked \in BOOLEAN : Sent(t, Effect(i, linked)) =>
       /\ pc[t] \in {"confirming"} \cup Ended
       /\ backend[t] = "ok" /\ Committed(t, Outcome("ok"))
       /\ i <= item[t] /\ linked = invocation[t]
  /\ \A i \in Nat, linked \in BOOLEAN : <<t, Effect(i, linked)>> \in calls => ~ Committed(t, Effect(i, linked))

RowOf(L, b, n, i) ==
  /\ L[i] = Invocation => \E j \in 1 .. i - 1 : L[j] = Outcome(b)
  /\ L[i].kind = "side_effect" =>
       /\ \E j \in 1 .. i - 1 : L[j] = Outcome("ok")
       /\ L[i].item <= n
       /\ L[i].linked => \E j \in 1 .. i - 1 : L[j] = Invocation
       /\ \A linked \in BOOLEAN : \A j \in 1 .. i - 1 : L[j] # Effect(L[i].item, linked)

RowsAt(t) == \A i \in 1 .. Len(ledger[t]) : RowOf(ledger[t], backend[t], effects[t], i)

ToolAt(t) == CallAt(t) /\ MirrorAt(t) /\ RowsAt(t)

BeforeAsk == {"idle", "minting", "stamping", "ready", "querying"}

\* A query is asked once, behind its event, and answered once; what has been
\* sent tells where the handler is.
QueryAt(q) ==
  /\ pc[q] \in BeforeAsk => q \notin asked /\ answer[q] = "unseen"
  /\ q \in asked => answer[q] = "unseen"
  /\ q \in asked \/ answer[q] \in Answers => Committed(q, Query)
  /\ pc[q] \in {"uploading", "concluding"} => answer[q] = "docs"
  /\ pc[q] = "erring" => answer[q] = "error"
  /\ pc[q] = "replied" => \/ answer[q] = "docs" /\ Committed(q, Result)
                          \/ answer[q] = "error" /\ Committed(q, QueryError)
  /\ Sent(q, Result) => answer[q] = "docs" /\ pc[q] \in {"concluding"} \cup Ended
  /\ Sent(q, QueryError) => answer[q] = "error" /\ pc[q] \in {"erring"} \cup Ended
  /\ Sent(q, Query) => pc[q] \notin {"idle", "minting", "stamping", "ready"}
  /\ Sent(q, Entry("binding")) => pc[q] \notin {"idle", "minting"}
  /\ Sent(q, Entry("run")) => pc[q] # "idle"

\* Documents are uploaded one after the other, and nothing is sent twice.
DocsAt(q) ==
  /\ answer[q] = "unseen" => doc[q] = 0
  /\ \A i \in 1 .. MaxDocs : Sent(q, Artifact(i)) =>
       answer[q] = "docs" /\ i <= doc[q] /\ pc[q] \in {"uploading", "concluding"} \cup Ended
  /\ pc[q] = "uploading" => \A i \in 1 .. doc[q] - 1 : Committed(q, Artifact(i))
  /\ \A i \in 1 .. MaxDocs : <<q, Artifact(i)>> \in calls =>
       \A d \in 1 .. i - 1 : Committed(q, Artifact(d))
  /\ <<q, Result>> \in calls => \A d \in 1 .. Len(docs[q]) : Committed(q, Artifact(d))
  /\ \A e : <<q, e>> \in calls => ~ Committed(q, e)

InOrder(L, ds, i) ==
  /\ \A d \in 1 .. (IF L[i] = Result THEN Len(ds)
                    ELSE IF L[i].kind = "artifact" THEN L[i].item - 1 ELSE 0) :
       \E j \in 1 .. i - 1 : L[j] = Artifact(d)
  /\ \A j \in 1 .. i - 1 : L[j] # L[i]

ResultAt(q) == \A i \in 1 .. Len(ledger[q]) : InOrder(ledger[q], docs[q], i)

\* A blob is put before its row is committed, and none is ever taken away.
BlobsAt(q) ==
  /\ \A i \in 1 .. MaxDocs : <<q, Artifact(i)>> \in stored => docs[q][i] \in blobs
  /\ \A i \in 1 .. MaxDocs : Committed(q, Artifact(i)) => docs[q][i] \in blobs

RetrievalAt(q) == QueryAt(q) /\ DocsAt(q) /\ ResultAt(q) /\ BlobsAt(q)

\* A dossier has read what was there at the question, and invents nothing.
DossierInv ==
  /\ subject = None => section = 0
  /\ subject # None =>
       /\ shown \subseteq ToSet(ledger[subject])
       /\ \A i \in 1 .. begun : \A k \in 1 .. section :
            Table(ledger[subject][i]) = Sections[k] => ledger[subject][i] \in shown
  /\ subject = None => shown = {}

\* answers and doc are functions, which the type invariants leave open.
AnswersOK == answers \in [Deciders -> {NoAnswer} \cup Answer]
DocOK == doc \in [Retrievals -> Nat]

\* The link and the components, each with its types.
LinkOK == PcOK /\ LinkTypeOK /\ OwnEntries

GateOK == ApprovalTypeOK /\ AnswersOK /\ \A a \in Approvals : ApprovalAt(a) /\ EvidenceAt(a)

ToolsOK == ToolTypeOK /\ \A t \in ToolCalls : ToolAt(t)

RetrievalsOK == RetrievalTypeOK /\ DocOK /\ \A q \in Retrievals : RetrievalAt(q)

ReaderOK == DossierTypeOK /\ DossierInv

GatewayInv == LinkOK /\ GateOK /\ ToolsOK /\ RetrievalsOK /\ ReaderOK

-----------------------------------------------------------------------------
(* Steps of the link *)

\* A handler at rest: at most, something it sent has been lost.
AtRest(h) ==
  /\ pc'[h] = pc[h] /\ ledger'[h] = ledger[h]
  /\ \A e : <<h, e>> \in calls' => <<h, e>> \in calls

\* The ledger commits e for h.
Gains(h, e) ==
  /\ pc'[h] = pc[h] /\ <<h, e>> \in calls
  /\ ledger'[h] = Append(ledger[h], e)
  /\ \A f : <<h, f>> \in calls' => <<h, f>> \in calls /\ f # e

\* h goes to next and sends e, if anything.
Moves(h, next, e) ==
  /\ pc'[h] = next /\ ledger'[h] = ledger[h]
  /\ \A f : <<h, f>> \in calls' => <<h, f>> \in calls \/ f = e

LEMMA LedgerKept ==
  ASSUME NEW h, ledger'[h] = ledger[h]
  PROVE  \A e : Committed(h, e)' <=> Committed(h, e)
  BY DEF Committed

LEMMA AtRestSent ==
  ASSUME NEW h, AtRest(h)
  PROVE  \A e : (Committed(h, e)' <=> Committed(h, e)) /\ (Sent(h, e)' => Sent(h, e))
  BY DEF AtRest, Committed, Sent

LEMMA MovesSent ==
  ASSUME NEW h, NEW next, NEW e, Moves(h, next, e)
  PROVE  \A f : (Committed(h, f)' <=> Committed(h, f)) /\ (Sent(h, f)' => Sent(h, f) \/ f = e)
  BY DEF Moves, Committed, Sent

LEMMA GainsSent ==
  ASSUME LinkTypeOK, NEW h \in Handlers, NEW e \in Entries, Gains(h, e)
  PROVE  /\ Len(ledger[h]) \in Nat /\ Len(ledger'[h]) = Len(ledger[h]) + 1
         /\ ledger'[h][Len(ledger[h]) + 1] = e
         /\ \A i \in 1 .. Len(ledger[h]) : ledger'[h][i] = ledger[h][i]
         /\ \A f : Committed(h, f)' <=> Committed(h, f) \/ f = e
         /\ \A f : Sent(h, f)' => Sent(h, f)
         /\ Sent(h, e)
<1>1. ledger[h] \in Seq(Entries) /\ ledger'[h] = Append(ledger[h], e)
  BY DEF LinkTypeOK, Gains
<1>2. /\ Len(ledger[h]) \in Nat /\ Len(ledger'[h]) = Len(ledger[h]) + 1
      /\ ledger'[h][Len(ledger[h]) + 1] = e
      /\ \A i \in 1 .. Len(ledger[h]) : ledger'[h][i] = ledger[h][i]
  BY <1>1
<1>3. DOMAIN ledger[h] = 1 .. Len(ledger[h]) /\ DOMAIN ledger'[h] = 1 .. Len(ledger'[h])
  BY <1>1
<1>4. \A f : Committed(h, f)' <=> Committed(h, f) \/ f = e
  BY <1>2, <1>3 DEF Committed, ToSet
<1>. QED
  BY <1>2, <1>4 DEF Gains, Sent

LEMMA CommitGains ==
  ASSUME LinkTypeOK, NEW c \in calls, LedgerCommits(c)
  PROVE  \E h \in Handlers, e \in Entries :
           /\ c = <<h, e>> /\ Gains(h, e) /\ \A g \in Handlers \ {h} : AtRest(g)
<1>1. PICK h \in Handlers, e \in Entries : c = <<h, e>>
  BY DEF LinkTypeOK
<1>2. /\ calls' = calls \ {<<h, e>>} /\ pc' = pc
      /\ ledger' = [ledger EXCEPT ![h] = Append(ledger[h], e)]
  BY <1>1 DEF LedgerCommits
<1>3. Gains(h, e)
  BY <1>1, <1>2 DEF Gains, LinkTypeOK
<1>4. \A g \in Handlers \ {h} : AtRest(g)
  BY <1>2 DEF AtRest, LinkTypeOK
<1>. QED
  BY <1>1, <1>3, <1>4

LEMMA SendMoves ==
  ASSUME PcOK, NEW h \in Handlers, NEW next, NEW e, GotoSending(h, next, e)
  PROVE  Moves(h, next, e) /\ \A g \in Handlers \ {h} : AtRest(g)
  BY DEF PcOK, GotoSending, Goto, Send, Moves, AtRest

LEMMA QuietMoves ==
  ASSUME PcOK, NEW h \in Handlers, NEW next, GotoQuietly(h, next)
  PROVE  /\ \A e : Moves(h, next, e) /\ \A f : <<h, f>> \in calls' <=> <<h, f>> \in calls
         /\ \A g \in Handlers \ {h} : AtRest(g)
  BY DEF PcOK, GotoQuietly, Goto, Moves, AtRest

LEMMA NothingMoves ==
  ASSUME UNCHANGED linkVars
  PROVE  \A h : AtRest(h)
  BY DEF linkVars, AtRest

-----------------------------------------------------------------------------
(* Tool calls *)

LEMMA ToolEntriesDiffer ==
  /\ \A s \in Statuses : Outcome(s) # Call /\ Outcome(s) # Invocation /\ Outcome(s).kind # "side_effect"
  /\ \A s, r \in Statuses : s # r => Outcome(s) # Outcome(r)
  /\ Call # Invocation /\ Call.kind # "side_effect" /\ Invocation.kind # "side_effect"
  /\ \A i, linked : /\ Effect(i, linked).kind = "side_effect"
                    /\ Effect(i, linked).item = i /\ Effect(i, linked).linked = linked
                    /\ Effect(i, linked) # Call /\ Effect(i, linked) # Invocation
                    /\ \A s \in Statuses : Effect(i, linked) # Outcome(s)
  BY DEF Outcome, Call, Invocation, Effect, Entry, Statuses

LEMMA RunEntriesDiffer ==
  \A e \in {Entry("run"), Entry("binding")} :
    /\ e # Call /\ e # Invocation /\ \A s \in Statuses : e # Outcome(s)
    /\ \A i, linked : e # Effect(i, linked)
  BY DEF Outcome, Call, Invocation, Effect, Entry, Statuses

LEMMA EffectsAreNumbered ==
  ASSUME NEW e \in ToolEntries, e.kind = "side_effect"
  PROVE  \E i \in Nat, linked \in BOOLEAN : e = Effect(i, linked)
<1>1. PICK i \in UNION { 1 .. MaxEffects[u] : u \in ToolCalls }, linked \in BOOLEAN :
        e = Effect(i, linked)
  BY ToolEntriesDiffer DEF ToolEntries, Entry
<1>2. PICK u \in ToolCalls : i \in 1 .. MaxEffects[u]
  OBVIOUS
<1>3. i \in Nat
  BY <1>2, EffectsAssumption
<1>. QED
  BY <1>1, <1>3

\* A call at rest, and one whose handler moves without touching its locals and
\* without sending what CallAt and MirrorAt are about.
LEMMA ToolKept ==
  ASSUME NEW t \in ToolCalls, ToolAt(t), ledger'[t] = ledger[t],
         backend'[t] = backend[t], effects'[t] = effects[t],
         invocation'[t] = invocation[t], item'[t] = item[t], t \in forwarded' => t \in forwarded,
         \A e : Sent(t, e)' => Sent(t, e) \/ e \in {Entry("run"), Entry("binding"), Call},
         \A e : e.kind = "side_effect" /\ <<t, e>> \in calls' => <<t, e>> \in calls,
         \/ pc'[t] = pc[t]
         \/ pc'[t] \in BeforeForward /\ pc[t] \in BeforeForward
         \/ pc'[t] \in {"failed", "gone"}
  PROVE  ToolAt(t)'
<1>. USE DEF ToolAt
<1>1. \A e : Committed(t, e)' <=> Committed(t, e)
  BY LedgerKept
<1>2. PICK b : b = backend[t] /\ b = backend'[t]
  OBVIOUS
<1>3. CallAt(t)'
  BY <1>1, <1>2, ToolEntriesDiffer, RunEntriesDiffer DEF CallAt, BeforeForward
<1>4. MirrorAt(t)'
  BY <1>1, <1>2, ToolEntriesDiffer, RunEntriesDiffer DEF MirrorAt, BeforeForward, Ended
<1>5. RowsAt(t)'
  <2>1. \A i \in 1 .. Len(ledger[t]) : RowOf(ledger[t], backend[t], effects[t], i)
    BY DEF RowsAt
  <2>. QED
    BY <2>1 DEF RowsAt
<1>. QED
  BY <1>3, <1>4, <1>5

\* The ledger commits what a call has sent.
LEMMA ToolGains ==
  ASSUME ToolTypeOK, NEW t \in ToolCalls, ToolAt(t), NEW e \in ToolEntries, Gains(t, e),
         UNCHANGED toolVars
  PROVE  ToolAt(t)'
<1>. USE DEF ToolAt
<1>1. t \in Handlers /\ e \in Entries /\ LinkTypeOK
  BY ToolCallsAssumption, ToolEntriesAssumption DEF ToolTypeOK
<1>2. /\ Len(ledger[t]) \in Nat /\ Len(ledger'[t]) = Len(ledger[t]) + 1
      /\ ledger'[t][Len(ledger[t]) + 1] = e
      /\ \A i \in 1 .. Len(ledger[t]) : ledger'[t][i] = ledger[t][i]
      /\ \A f : Committed(t, f)' <=> Committed(t, f) \/ f = e
      /\ \A f : Sent(t, f)' => Sent(t, f)
      /\ Sent(t, e)
  BY <1>1, GainsSent
<1>3. /\ pc'[t] = pc[t] /\ <<t, e>> \in calls /\ UNCHANGED <<forwarded, backend, effects, invocation, item>>
      /\ \A f : <<t, f>> \in calls' => <<t, f>> \in calls /\ f # e
  BY DEF Gains, toolVars
<1>4. PICK b : b = backend[t] /\ b = backend'[t]
  BY <1>3
<1>5. CallAt(t)'
  BY <1>2, <1>3, <1>4 DEF CallAt
<1>6. MirrorAt(t)'
  BY <1>2, <1>3, <1>4 DEF MirrorAt
<1>7. \A f : Committed(t, f) => \E j \in 1 .. Len(ledger[t]) : ledger[t][j] = f
  BY <1>1, CommittedIsAt
<1>8. RowsAt(t)'
  <2> DEFINE m == Len(ledger[t])
  <2>1. PICK L, n : L = ledger'[t] /\ n = effects[t] /\ n = effects'[t]
    BY <1>3
  <2>2. SUFFICES \A i \in 1 .. m + 1 : RowOf(L, b, n, i)
    BY <1>2, <1>4, <2>1 DEF RowsAt
  <2>3. \A i \in 1 .. m : L[i] = ledger[t][i]
    BY <1>2, <2>1
  <2>4. m \in Nat /\ L[m + 1] = e
    BY <1>2, <2>1
  <2>5. \A i \in 1 .. m : RowOf(ledger[t], b, n, i)
    BY <1>4, <2>1 DEF RowsAt
  <2>6. \A f : Committed(t, f) => \E j \in 1 .. m : L[j] = f
    BY <1>7, <2>3
  <2>7. \A f : ~ Committed(t, f) => \A j \in 1 .. m : L[j] # f
    BY <1>1, <2>3, CommittedIsAt
  <2> HIDE DEF m
  <2>8. \A i \in 1 .. m : RowOf(L, b, n, i)
    <3> TAKE i \in 1 .. m
    <3>1. RowOf(ledger[t], b, n, i) /\ L[i] = ledger[t][i]
          /\ \A j \in 1 .. i - 1 : L[j] = ledger[t][j]
      BY <2>3, <2>4, <2>5
    <3>. QED
      BY <3>1 DEF RowOf
  <2>9. RowOf(L, b, n, m + 1)
    <3>1. e = Invocation => Committed(t, Outcome(b))
      BY <1>2, <1>4 DEF MirrorAt
    <3>2. ASSUME e.kind = "side_effect"
          PROVE  /\ Committed(t, Outcome("ok")) /\ e.item <= n
                 /\ e.linked => Committed(t, Invocation)
                 /\ \A linked \in BOOLEAN : ~ Committed(t, Effect(e.item, linked))
      <4>1. PICK i \in Nat, linked \in BOOLEAN : e = Effect(i, linked)
        BY <3>2, EffectsAreNumbered
      <4>2. Sent(t, Effect(i, linked)) /\ <<t, Effect(i, linked)>> \in calls
        BY <1>2, <1>3, <4>1
      <4>3. /\ Committed(t, Outcome("ok")) /\ i <= item[t] /\ linked = invocation[t]
            /\ ~ Committed(t, Effect(i, linked)) /\ (linked => Committed(t, Invocation))
        BY <4>2 DEF MirrorAt
      <4>4. e.item = i /\ e.linked = linked
        BY <4>1, ToolEntriesDiffer
      <4>5. item[t] <= n /\ item[t] \in Nat /\ n \in Nat
        BY <2>1 DEF ToolTypeOK
      <4>6. \A l \in BOOLEAN : Committed(t, Effect(i, l)) => l = linked
        BY <4>3 DEF MirrorAt, Sent
      <4>. QED
        BY <4>3, <4>4, <4>5, <4>6
    <3>3. \A j \in 1 .. (m + 1) - 1 : j \in 1 .. m
      BY <2>4
    <3>4. (m + 1) - 1 = m
      BY <2>4
    <3>5. e = Invocation => \E j \in 1 .. m : L[j] = Outcome(b)
      BY <3>1, <2>6
    <3>6. e.kind = "side_effect" => /\ \E j \in 1 .. m : L[j] = Outcome("ok")
                                    /\ e.item <= n
                                    /\ e.linked => \E j \in 1 .. m : L[j] = Invocation
                                    /\ \A linked \in BOOLEAN : \A j \in 1 .. m : L[j] # Effect(e.item, linked)
      BY <3>2, <2>6, <2>7
    <3>. QED
      BY <2>4, <3>4, <3>5, <3>6 DEF RowOf
  <2>. QED
    BY <2>4, <2>8, <2>9
<1>. QED
  BY <1>5, <1>6, <1>8

LEMMA ToolGoes ==
  ASSUME PcOK, NEW t \in ToolCalls, ToolAt(t), UNCHANGED toolVars,
         NEW next, NEW e \in {Entry("run"), Entry("binding"), Call},
         GotoSending(t, next, e) \/ GotoQuietly(t, next),
         (pc[t] \in BeforeForward /\ next \in BeforeForward) \/ next \in {"failed", "gone"}
  PROVE  ToolAt(t)'
<1>1. t \in Handlers
  BY ToolCallsAssumption
<1>2. Moves(t, next, e)
  BY <1>1, SendMoves, QuietMoves
<1>3. /\ pc'[t] = next /\ ledger'[t] = ledger[t]
      /\ \A f : <<t, f>> \in calls' => <<t, f>> \in calls \/ f = e
  BY <1>2 DEF Moves
<1>4. \A f : Sent(t, f)' => Sent(t, f) \/ f = e
  BY <1>2, MovesSent
<1>5. e.kind # "side_effect"
  BY DEF Call, Entry
<1>6. UNCHANGED <<forwarded, backend, effects, invocation, item>>
  BY DEF toolVars
<1>7. \A f : Sent(t, f)' => Sent(t, f) \/ f \in {Entry("run"), Entry("binding"), Call}
  BY <1>4
<1>8. \A f : f.kind = "side_effect" /\ <<t, f>> \in calls' => <<t, f>> \in calls
  BY <1>3, <1>5
<1>9. \/ pc'[t] = pc[t]
      \/ pc'[t] \in BeforeForward /\ pc[t] \in BeforeForward
      \/ pc'[t] \in {"failed", "gone"}
  BY <1>3
<1>. QED
  BY <1>3, <1>6, <1>7, <1>8, <1>9, ToolKept

\* Steps that lead up to the call, and those that give it up.
LEMMA ToolComesAndGoes ==
  ASSUME PcOK, NEW t \in ToolCalls, ToolAt(t),
         \/ UnknownTool(t) \/ Accept(t) \/ (ResolveStep(t) /\ UNCHANGED toolVars) \/ RecordCall(t)
         \/ BackendErr(t) \/ ProxyFails(t) \/ CallerHangsUp(t)
  PROVE  ToolAt(t)'
<1>1. CASE Accept(t)
  BY <1>1, ToolGoes DEF Accept, ResolveRun, BeforeForward
<1>2. CASE ResolveStep(t) /\ UNCHANGED toolVars
  BY <1>2, ToolGoes DEF ResolveStep, RunMinted, Err, StampingDone, Ok, BeforeForward
<1>3. CASE RecordCall(t)
  BY <1>3, ToolGoes DEF RecordCall, BeforeForward
<1>4. CASE UnknownTool(t) \/ BackendErr(t) \/ ProxyFails(t) \/ CallerHangsUp(t)
  BY <1>4, ToolGoes DEF UnknownTool, BackendErr, ProxyFails, CallerHangsUp, Err
<1>. QED
  BY <1>1, <1>2, <1>3, <1>4

LEMMA ToolForwards ==
  ASSUME PcOK, NEW t \in ToolCalls, ToolAt(t), Forward(t)
  PROVE  ToolAt(t)'
<1>. USE DEF ToolAt
<1>1. /\ pc[t] = "calling" /\ pc'[t] = "forwarding" /\ ledger'[t] = ledger[t] /\ Committed(t, Call)
      /\ \A f : <<t, f>> \in calls' <=> <<t, f>> \in calls
      /\ UNCHANGED <<backend, effects, invocation, item>>
  BY QuietMoves, ToolCallsAssumption DEF Forward, Ok, Moves
<1>2. \A f : (Committed(t, f)' <=> Committed(t, f)) /\ (Sent(t, f)' <=> Sent(t, f))
  BY <1>1, LedgerKept DEF Sent
<1>3. PICK b : b = backend[t] /\ b = backend'[t]
  BY <1>1
<1>4. CallAt(t)'
  BY <1>1, <1>2, <1>3 DEF CallAt, BeforeForward, Statuses
<1>5. MirrorAt(t)'
  BY <1>1, <1>2, <1>3 DEF MirrorAt, Ended
<1>6. RowsAt(t)'
  BY <1>1 DEF RowsAt
<1>. QED
  BY <1>4, <1>5, <1>6

LEMMA ToolRecords ==
  ASSUME PcOK, NEW t \in ToolCalls, ToolAt(t), RecordOutcome(t) \/ RecordInvocation(t)
  PROVE  ToolAt(t)'
<1>. USE DEF ToolAt
<1>1. PICK b : b = backend[t] /\ b = backend'[t]
  BY DEF RecordOutcome, RecordInvocation, toolVars
<1>2. PICK e : \/ RecordOutcome(t) /\ e = Outcome(b)
               \/ RecordInvocation(t) /\ e = Invocation
  OBVIOUS
<1>3. /\ b \in Statuses /\ UNCHANGED <<forwarded, backend, effects, invocation, item>>
      /\ ledger'[t] = ledger[t] /\ pc'[t] \in {"logging", "mirroring"}
      /\ \A f : <<t, f>> \in calls' => <<t, f>> \in calls \/ f = e
      /\ pc[t] \in {"forwarding", "logging"}
      /\ e = Invocation \/ pc'[t] = "mirroring" => Committed(t, Outcome(b))
  <2>1. CASE RecordOutcome(t) /\ e = Outcome(b)
    BY <1>1, <2>1, SendMoves, ToolCallsAssumption, ToolEntriesDiffer DEF RecordOutcome, toolVars, Moves
  <2>2. CASE RecordInvocation(t) /\ e = Invocation
    BY <1>1, <2>2, SendMoves, ToolCallsAssumption DEF RecordInvocation, Ok, toolVars, Moves, CallAt
  <2>. QED
    BY <1>2, <2>1, <2>2
<1>4. e = Outcome(b) \/ e = Invocation
  BY <1>2
<1>5. \A f : (Committed(t, f)' <=> Committed(t, f)) /\ (Sent(t, f)' => Sent(t, f) \/ f = e)
  BY <1>3, LedgerKept DEF Sent
<1>6. CallAt(t)'
  BY <1>1, <1>3, <1>4, <1>5, ToolEntriesDiffer DEF CallAt, BeforeForward
<1>7. MirrorAt(t)'
  BY <1>1, <1>3, <1>4, <1>5, ToolEntriesDiffer DEF MirrorAt, Ended
<1>8. RowsAt(t)'
  BY <1>3 DEF RowsAt
<1>. QED
  BY <1>6, <1>7, <1>8

\* The handler goes on to the next effect, or replies.
LEMMA ToolMirrors ==
  ASSUME PcOK, ToolTypeOK, NEW t \in ToolCalls, ToolAt(t), InvocationDone(t) \/ EffectDone(t)
  PROVE  /\ ToolAt(t)'
         /\ item' \in [ToolCalls -> Nat] /\ item'[t] <= effects[t]
         /\ \A u \in ToolCalls \ {t} : item'[u] = item[u] /\ invocation'[u] = invocation[u]
         /\ invocation' \in [ToolCalls -> BOOLEAN]
<1>. USE DEF ToolAt
<1>1. /\ UNCHANGED <<forwarded, backend, effects>> /\ pc[t] \in {"mirroring", "confirming"}
      /\ t \in Handlers /\ backend[t] \in Statuses /\ Committed(t, Outcome(backend[t]))
      /\ item[t] \in Nat /\ effects[t] \in Nat /\ item[t] <= effects[t] /\ invocation[t] \in BOOLEAN
  BY ToolCallsAssumption DEF InvocationDone, EffectDone, CallAt, ToolTypeOK
<1>2. PICK i \in Nat, linked \in BOOLEAN :
        /\ NextEffect(t, i, linked)
        /\ invocation' = [invocation EXCEPT ![t] = linked]
        /\ linked => Committed(t, Invocation)
        /\ \/ pc[t] = "mirroring" /\ i = 1
           \/ pc[t] = "confirming" /\ i = item[t] + 1 /\ linked = invocation[t]
  <2>1. CASE InvocationDone(t)
    <3>1. PICK linked \in {FALSE, Committed(t, Invocation)} :
            /\ invocation' = [invocation EXCEPT ![t] = linked]
            /\ NextEffect(t, 1, linked)
      BY <2>1 DEF InvocationDone
    <3>2. linked \in BOOLEAN /\ (linked => Committed(t, Invocation))
      <4>1. CASE linked = FALSE
        BY <4>1
      <4>2. CASE linked = Committed(t, Invocation)
        <5>1. Committed(t, Invocation) \in BOOLEAN
          BY DEF Committed
        <5>. QED
          BY <4>2, <5>1, Zenon
      <4>. QED
        BY <4>1, <4>2
    <3>3. pc[t] = "mirroring" /\ 1 \in Nat
      BY <2>1 DEF InvocationDone
    <3>. QED
      BY <3>1, <3>2, <3>3
  <2>2. CASE EffectDone(t)
    <3>1. NextEffect(t, item[t] + 1, invocation[t]) /\ invocation' = invocation /\ pc[t] = "confirming"
      BY <2>2 DEF EffectDone
    <3>2. invocation' = [invocation EXCEPT ![t] = invocation[t]]
      BY <3>1 DEF ToolTypeOK
    <3>3. invocation[t] => Committed(t, Invocation)
      BY DEF MirrorAt
    <3>4. item[t] + 1 \in Nat /\ invocation[t] \in BOOLEAN
      BY <1>1
    <3>. QED
      BY <3>1, <3>2, <3>3, <3>4
  <2>. QED
    BY <2>1, <2>2
<1>3. /\ invocation'[t] = linked /\ invocation' \in [ToolCalls -> BOOLEAN]
      /\ \A u \in ToolCalls \ {t} : invocation'[u] = invocation[u]
  BY <1>2 DEF ToolTypeOK
<1>4. PICK b : b = backend[t] /\ b = backend'[t]
  BY <1>1
<1>5. \A j \in Nat, l \in BOOLEAN : Sent(t, Effect(j, l)) => b = "ok" /\ pc[t] = "confirming" /\ j <= item[t] /\ l = linked
  BY <1>1, <1>2, <1>4 DEF MirrorAt, Ended
<1>6. CASE b = "ok" /\ i <= effects[t]
  <2>1. item' = [item EXCEPT ![t] = i] /\ GotoSending(t, "confirming", Effect(i, linked))
    BY <1>2, <1>4, <1>6 DEF NextEffect
  <2>2. /\ item'[t] = i /\ item' \in [ToolCalls -> Nat] /\ item'[t] <= effects[t]
        /\ \A u \in ToolCalls \ {t} : item'[u] = item[u]
    BY <1>6, <2>1 DEF ToolTypeOK
  <2>3. /\ pc'[t] = "confirming" /\ ledger'[t] = ledger[t]
        /\ \A f : <<t, f>> \in calls' => <<t, f>> \in calls \/ f = Effect(i, linked)
    BY <1>1, <2>1, SendMoves DEF Moves
  <2>4. \A f : /\ Committed(t, f)' <=> Committed(t, f)
               /\ Sent(t, f)' => Sent(t, f) \/ f = Effect(i, linked)
    BY <2>3, LedgerKept DEF Sent
  <2>5. \A j, l : Effect(j, l) = Effect(i, linked) => j = i /\ l = linked
    BY DEF Effect
  <2>6. ~ Sent(t, Effect(i, linked))
    BY <1>1, <1>2, <1>5
  <2>7. \A j \in Nat, l \in BOOLEAN : Sent(t, Effect(j, l)) => j <= i
    BY <1>1, <1>2, <1>5
  <2>8. CallAt(t)'
    BY <1>1, <1>4, <2>3, <2>4, ToolEntriesDiffer DEF CallAt, BeforeForward
  <2>9. MirrorAt(t)'
    <3>1. backend'[t] = "unseen" => item'[t] = 0
      BY <1>4, <1>6
    <3>2. invocation'[t] => Committed(t, Invocation)'
      BY <1>2, <1>3, <2>4
    <3>3. Sent(t, Invocation)' => backend'[t] \in Statuses /\ Committed(t, Outcome(backend[t]))'
      BY <1>1, <1>4, <2>4
    <3>4. \A j \in Nat, l \in BOOLEAN : Sent(t, Effect(j, l))' =>
            Sent(t, Effect(j, l)) \/ (j = i /\ l = linked)
      BY <2>4, <2>5
    <3>5. \A j \in Nat, l \in BOOLEAN : Sent(t, Effect(j, l))' =>
            b = "ok" /\ Committed(t, Outcome("ok"))' /\ j <= i /\ l = linked
      BY <1>1, <1>4, <1>5, <1>6, <2>4, <2>7, <3>4
    <3>6. \A j \in Nat, l \in BOOLEAN : <<t, Effect(j, l)>> \in calls' => ~ Committed(t, Effect(j, l))'
      BY <2>3, <2>4, <2>5, <2>6 DEF MirrorAt, Sent
    <3>. QED
      BY <1>1, <1>3, <1>4, <2>2, <2>3, <3>1, <3>2, <3>3, <3>5, <3>6 DEF MirrorAt
  <2>10. RowsAt(t)'
    BY <1>1, <2>3 DEF RowsAt
  <2>. QED
    BY <1>3, <2>2, <2>8, <2>9, <2>10
<1>7. CASE ~ (b = "ok" /\ i <= effects[t])
  <2>1. UNCHANGED item /\ GotoQuietly(t, "replied")
    BY <1>2, <1>4, <1>7 DEF NextEffect
  <2>2. /\ pc'[t] = "replied" /\ ledger'[t] = ledger[t]
        /\ \A f : <<t, f>> \in calls' <=> <<t, f>> \in calls
    BY <1>1, <2>1, QuietMoves DEF Moves
  <2>3. \A f : (Committed(t, f)' <=> Committed(t, f)) /\ (Sent(t, f)' <=> Sent(t, f))
    BY <2>2, LedgerKept DEF Sent
  <2>4. CallAt(t)'
    BY <1>1, <1>4, <2>2, <2>3 DEF CallAt, BeforeForward
  <2>5. MirrorAt(t)'
    BY <1>1, <1>2, <1>3, <1>4, <1>5, <2>1, <2>2, <2>3 DEF MirrorAt, Ended
  <2>6. RowsAt(t)'
    BY <1>1, <2>2 DEF RowsAt
  <2>. QED
    BY <1>1, <1>3, <2>1, <2>4, <2>5, <2>6 DEF ToolTypeOK
<1>. QED
  BY <1>6, <1>7

\* The backend runs a forwarded call, or never sees it.
LEMMA ToolIsRun ==
  ASSUME ToolTypeOK, NEW t \in ToolCalls, ToolAt(t), BackendStep(t),
         \A e : Sent(t, e) => e \in ToolEntries
  PROVE  ToolAt(t)'
<1>. USE DEF ToolAt
<1>1. /\ t \in forwarded /\ forwarded' = forwarded \ {t} /\ backend[t] = "unseen"
      /\ UNCHANGED <<linkVars, invocation, item>> /\ Committed(t, Call) /\ item[t] = 0
      /\ \/ backend'[t] \in Statuses
         \/ backend'[t] = backend[t] /\ effects'[t] = effects[t]
  BY DEF BackendStep, BackendRuns, RequestLost, CallAt, MirrorAt, ToolTypeOK
<1>2. \A f : (Committed(t, f)' <=> Committed(t, f)) /\ (Sent(t, f)' <=> Sent(t, f))
  BY <1>1 DEF linkVars, Committed, Sent
<1>3. /\ \A s \in Statuses : ~ Sent(t, Outcome(s))
      /\ ~ Sent(t, Invocation) /\ \A i \in Nat, l \in BOOLEAN : ~ Sent(t, Effect(i, l))
  BY <1>1 DEF CallAt, MirrorAt, Statuses
<1>4. PICK b : b = backend'[t]
  OBVIOUS
<1>5. CallAt(t)'
  BY <1>1, <1>2, <1>3, <1>4 DEF CallAt, linkVars, Statuses, BeforeForward
<1>6. MirrorAt(t)'
  BY <1>1, <1>2, <1>3, <1>4 DEF MirrorAt, linkVars, Sent
<1>7. RowsAt(t)'
  <2>1. \A i \in 1 .. Len(ledger[t]) : Sent(t, ledger[t][i])
    BY CommittedIsAt, ToolCallsAssumption DEF Sent, ToolTypeOK
  <2>2. \A i \in 1 .. Len(ledger[t]) : ledger[t][i] # Invocation /\ ledger[t][i].kind # "side_effect"
    BY <1>3, <2>1, EffectsAreNumbered
  <2>3. PICK n : n = effects'[t]
    OBVIOUS
  <2>4. ledger'[t] = ledger[t]
    BY <1>1 DEF linkVars
  <2>5. \A i \in 1 .. Len(ledger[t]) : RowOf(ledger[t], b, n, i)
    BY <2>1, <2>2 DEF RowOf
  <2>. QED
    BY <1>4, <2>3, <2>4, <2>5 DEF RowsAt
<1>. QED
  BY <1>5, <1>6, <1>7

-----------------------------------------------------------------------------
(* Retrievals *)

LEMMA RetrievalEntriesDiffer ==
  /\ Query # Result /\ Query # QueryError /\ Result # QueryError
  /\ \A e \in {Entry("run"), Entry("binding")} : e # Query /\ e # Result /\ e # QueryError
  /\ Entry("run") # Entry("binding")
  /\ \A i : /\ Artifact(i).kind = "artifact" /\ Artifact(i).item = i
            /\ Artifact(i) \notin {Query, Result, QueryError, Entry("run"), Entry("binding")}
  /\ \A e \in {Query, Result, QueryError, Entry("run"), Entry("binding")} : e.kind # "artifact"
  BY DEF Query, Result, QueryError, Artifact, Entry

\* What QueryAt and DocsAt are about stays, apart from where the handler is and
\* what it sends, when neither ledger nor backend takes the step.
LEMMA ResultKept ==
  ASSUME NEW q \in Retrievals, ledger'[q] = ledger[q], docs'[q] = docs[q],
         ResultAt(q), BlobsAt(q), blobs \subseteq blobs',
         \A e : <<q, e>> \in stored' => <<q, e>> \in stored
  PROVE  ResultAt(q)' /\ BlobsAt(q)'
<1>1. ResultAt(q)'
  BY DEF ResultAt
<1>2. \A e : Committed(q, e)' <=> Committed(q, e)
  BY LedgerKept
<1>3. BlobsAt(q)'
  BY <1>2 DEF BlobsAt
<1>. QED
  BY <1>1, <1>3

LEMMA RetrievalRests ==
  ASSUME NEW q \in Retrievals, RetrievalAt(q), AtRest(q),
         answer'[q] = answer[q], docs'[q] = docs[q], doc'[q] = doc[q],
         q \in asked' => q \in asked, blobs \subseteq blobs',
         \A e : <<q, e>> \in stored' => <<q, e>> \in stored
  PROVE  RetrievalAt(q)'
<1>. USE DEF RetrievalAt
<1>1. \A e : (Committed(q, e)' <=> Committed(q, e)) /\ (Sent(q, e)' => Sent(q, e))
  BY AtRestSent
<1>2. /\ pc'[q] = pc[q] /\ ledger'[q] = ledger[q]
      /\ \A e : <<q, e>> \in calls' => <<q, e>> \in calls
  BY DEF AtRest
<1>3. QueryAt(q)'
  BY <1>1, <1>2 DEF QueryAt
<1>4. DocsAt(q)'
  BY <1>1, <1>2 DEF DocsAt
<1>. QED
  BY <1>2, <1>3, <1>4, ResultKept

\* The handler moves on quietly, or sends its run, binding or query.
LEMMA QueryGoes ==
  ASSUME PcOK, NEW q \in Retrievals, RetrievalAt(q), UNCHANGED retrievalVars,
         NEW next,
         \/ /\ GotoQuietly(q, next)
            /\ \/ pc[q] \in {"idle", "minting", "stamping"} /\ next = "ready"
               \/ next \in {"failed", "gone"}
         \/ pc[q] = "idle" /\ next = "minting" /\ GotoSending(q, next, Entry("run"))
         \/ pc[q] = "minting" /\ next = "stamping" /\ GotoSending(q, next, Entry("binding"))
         \/ pc[q] = "ready" /\ next = "querying" /\ GotoSending(q, next, Query)
  PROVE  RetrievalAt(q)'
<1>. USE DEF RetrievalAt
<1>1. q \in Handlers /\ UNCHANGED <<asked, answer, docs, doc, stored, blobs>>
  BY RetrievalsAssumption DEF retrievalVars
<1>2. ASSUME NEW e, Moves(q, next, e), ~ Sent(q, e),
             \/ pc[q] = "idle" /\ next = "minting" /\ e = Entry("run")
             \/ pc[q] = "minting" /\ next = "stamping" /\ e = Entry("binding")
             \/ pc[q] = "ready" /\ next = "querying" /\ e = Query
      PROVE  RetrievalAt(q)'
  <2>1. \A f : (Committed(q, f)' <=> Committed(q, f)) /\ (Sent(q, f)' => Sent(q, f) \/ f = e)
    BY <1>2, MovesSent
  <2>2. /\ pc'[q] = next /\ ledger'[q] = ledger[q]
        /\ \A f : <<q, f>> \in calls' => <<q, f>> \in calls \/ f = e
    BY <1>2 DEF Moves
  <2>3. QueryAt(q)'
    BY <1>1, <1>2, <2>1, <2>2, RetrievalEntriesDiffer DEF QueryAt, BeforeAsk, Ended
  <2>4. DocsAt(q)'
    BY <1>1, <1>2, <2>1, <2>2, RetrievalEntriesDiffer DEF DocsAt, Ended, Sent
  <2>. QED
    BY <1>1, <2>2, <2>3, <2>4, ResultKept
<1>3. CASE /\ GotoQuietly(q, next)
           /\ \/ pc[q] \in {"idle", "minting", "stamping"} /\ next = "ready"
              \/ next \in {"failed", "gone"}
  <2>1. /\ pc'[q] = next /\ ledger'[q] = ledger[q]
        /\ \A f : <<q, f>> \in calls' <=> <<q, f>> \in calls
    BY <1>1, <1>3, QuietMoves DEF Moves
  <2>2. \A f : (Committed(q, f)' <=> Committed(q, f)) /\ (Sent(q, f)' <=> Sent(q, f))
    BY <2>1, LedgerKept DEF Sent
  <2>3. QueryAt(q)'
    BY <1>1, <1>3, <2>1, <2>2 DEF QueryAt, BeforeAsk, Ended
  <2>4. DocsAt(q)'
    BY <1>1, <1>3, <2>1, <2>2 DEF DocsAt, Ended
  <2>. QED
    BY <1>1, <2>1, <2>3, <2>4, ResultKept
<1>4. pc[q] = "idle" => ~ Sent(q, Entry("run"))
  BY DEF QueryAt
<1>5. pc[q] = "minting" => ~ Sent(q, Entry("binding"))
  BY DEF QueryAt
<1>6. pc[q] = "ready" => ~ Sent(q, Query)
  BY DEF QueryAt
<1>. QED
  BY <1>1, <1>2, <1>3, <1>4, <1>5, <1>6, SendMoves

LEMMA QueryComesAndGoes ==
  ASSUME PcOK, NEW q \in Retrievals, RetrievalAt(q),
         \/ NoBackend(q) \/ AcceptQuery(q) \/ (ResolveStep(q) /\ UNCHANGED retrievalVars)
         \/ RecordQuery(q) \/ FetchFails(q) \/ RetrievalFails(q) \/ QuerierHangsUp(q)
  PROVE  RetrievalAt(q)'
<1>1. CASE AcceptQuery(q)
  BY <1>1, QueryGoes DEF AcceptQuery, ResolveRun
<1>2. CASE ResolveStep(q) /\ UNCHANGED retrievalVars
  BY <1>2, QueryGoes DEF ResolveStep, RunMinted, Err, StampingDone, Ok
<1>3. CASE RecordQuery(q)
  BY <1>3, QueryGoes DEF RecordQuery
<1>4. CASE NoBackend(q) \/ FetchFails(q) \/ RetrievalFails(q) \/ QuerierHangsUp(q)
  BY <1>4, QueryGoes DEF NoBackend, FetchFails, RetrievalFails, QuerierHangsUp, Err
<1>. QED
  BY <1>1, <1>2, <1>3, <1>4

LEMMA QueryAsks ==
  ASSUME PcOK, NEW q \in Retrievals, RetrievalAt(q),
         \/ Ask(q) \/ ReplyQuery(q)
  PROVE  RetrievalAt(q)'
<1>. USE DEF RetrievalAt
<1>1. /\ UNCHANGED <<answer, docs, doc, stored, blobs>> /\ ledger'[q] = ledger[q]
      /\ \A f : <<q, f>> \in calls' <=> <<q, f>> \in calls
      /\ \/ pc[q] = "querying" /\ pc'[q] = "fetching" /\ Committed(q, Query)
         \/ /\ pc'[q] = "replied" /\ asked' = asked
            /\ \/ pc[q] = "concluding" /\ Committed(q, Result)
               \/ pc[q] = "erring" /\ Committed(q, QueryError)
  <2>1. CASE Ask(q)
    BY <2>1, QuietMoves, RetrievalsAssumption DEF Ask, Ok, Moves
  <2>2. CASE ReplyQuery(q)
    BY <2>2, QuietMoves, RetrievalsAssumption DEF ReplyQuery, Ok, Moves, retrievalVars
  <2>. QED
    BY <2>1, <2>2
<1>2. \A f : (Committed(q, f)' <=> Committed(q, f)) /\ (Sent(q, f)' <=> Sent(q, f))
  BY <1>1, LedgerKept DEF Sent
<1>3. QueryAt(q)'
  BY <1>1, <1>2 DEF QueryAt, BeforeAsk, Ended, Answers
<1>4. DocsAt(q)'
  BY <1>1, <1>2 DEF DocsAt, Ended
<1>. QED
  BY <1>1, <1>3, <1>4, ResultKept

LEMMA QueryErrs ==
  ASSUME PcOK, NEW q \in Retrievals, RetrievalAt(q), FetchedError(q)
  PROVE  RetrievalAt(q)'
<1>. USE DEF RetrievalAt
<1>1. /\ UNCHANGED <<asked, answer, docs, doc, stored, blobs>> /\ ledger'[q] = ledger[q]
      /\ pc[q] = "fetching" /\ pc'[q] = "erring" /\ answer[q] = "error"
      /\ \A f : <<q, f>> \in calls' => <<q, f>> \in calls \/ f = QueryError
  BY SendMoves, RetrievalsAssumption DEF FetchedError, Moves, retrievalVars
<1>2. \A f : (Committed(q, f)' <=> Committed(q, f)) /\ (Sent(q, f)' => Sent(q, f) \/ f = QueryError)
  BY <1>1, LedgerKept DEF Sent
<1>3. QueryAt(q)'
  BY <1>1, <1>2, RetrievalEntriesDiffer DEF QueryAt, BeforeAsk, Ended
<1>4. DocsAt(q)'
  BY <1>1, <1>2, RetrievalEntriesDiffer DEF DocsAt, QueryAt, Ended, Sent
<1>. QED
  BY <1>1, <1>3, <1>4, ResultKept

\* The next document goes out when those before it are stored.
LEMMA QueryUploads ==
  ASSUME PcOK, DocOK, RetrievalTypeOK, NEW q \in Retrievals, RetrievalAt(q), Fetched(q) \/ Uploaded(q)
  PROVE  /\ RetrievalAt(q)'
         /\ doc' \in [Retrievals -> Nat] /\ doc'[q] \in 0 .. Len(docs[q])
         /\ \A p \in Retrievals \ {q} : doc'[p] = doc[p]
<1>. USE DEF RetrievalAt
<1>1. /\ UNCHANGED <<asked, answer, docs, stored, blobs>> /\ q \in Handlers
      /\ answer[q] = "docs" /\ pc[q] \in {"fetching", "uploading"}
      /\ doc[q] \in Nat /\ Len(docs[q]) \in Nat /\ doc[q] <= Len(docs[q]) /\ Len(docs[q]) <= MaxDocs
  <2>1. docs[q] \in Seq(Contents) /\ doc[q] \in 0 .. Len(docs[q]) /\ Len(docs[q]) <= MaxDocs
    BY DEF RetrievalTypeOK
  <2>. QED
    BY <2>1, RetrievalsAssumption DEF Fetched, Uploaded, Ok, QueryAt
<1>2. PICK i \in Nat \ {0} :
        /\ NextDoc(q, i)
        /\ \/ pc[q] = "fetching" /\ i = 1
           \/ pc[q] = "uploading" /\ i = doc[q] + 1 /\ Committed(q, Artifact(doc[q]))
  BY <1>1 DEF Fetched, Uploaded, Ok
<1>3. i <= Len(docs[q]) + 1 /\ \A d \in 1 .. i - 1 : Committed(q, Artifact(d))
  BY <1>1, <1>2 DEF DocsAt
<1>4. \A d \in 1 .. MaxDocs : Sent(q, Artifact(d)) => d < i
  BY <1>1, <1>2 DEF DocsAt, Ended
<1>5. CASE i <= Len(docs[q])
  <2>1. doc' = [doc EXCEPT ![q] = i] /\ GotoSending(q, "uploading", Artifact(i))
    BY <1>2, <1>5 DEF NextDoc
  <2>2. /\ pc'[q] = "uploading" /\ ledger'[q] = ledger[q]
        /\ \A f : <<q, f>> \in calls' => <<q, f>> \in calls \/ f = Artifact(i)
    BY <1>1, <2>1, SendMoves DEF Moves
  <2>3. \A f : (Committed(q, f)' <=> Committed(q, f)) /\ (Sent(q, f)' => Sent(q, f) \/ f = Artifact(i))
    BY <2>2, LedgerKept DEF Sent
  <2>4. i \in 1 .. MaxDocs /\ ~ Sent(q, Artifact(i)) /\ \A d : Artifact(d) = Artifact(i) => d = i
    <3>1. i \in 1 .. MaxDocs
      BY <1>1, <1>5, DocsAssumption
    <3>2. \A d : Artifact(d) = Artifact(i) => d = i
      BY DEF Artifact
    <3>. QED
      BY <1>4, <3>1, <3>2
  <2>5. doc'[q] = i /\ doc' \in [Retrievals -> Nat] /\ \A p \in Retrievals \ {q} : doc'[p] = doc[p]
    BY <2>1 DEF DocOK
  <2>6. QueryAt(q)'
    BY <1>1, <2>2, <2>3, RetrievalEntriesDiffer DEF QueryAt, BeforeAsk, Ended
  <2>7. DocsAt(q)'
    <3>1. \A d \in 1 .. MaxDocs : Sent(q, Artifact(d))' =>
            answer'[q] = "docs" /\ d <= doc'[q] /\ pc'[q] \in {"uploading", "concluding"} \cup Ended
      BY <1>1, <1>4, <2>2, <2>3, <2>4, <2>5
    <3>2. \A d \in 1 .. doc'[q] - 1 : Committed(q, Artifact(d))'
      BY <1>3, <2>3, <2>5
    <3>3. \A d \in 1 .. MaxDocs : <<q, Artifact(d)>> \in calls' =>
            \A k \in 1 .. d - 1 : Committed(q, Artifact(k))'
      <4> SUFFICES ASSUME NEW d \in 1 .. MaxDocs, <<q, Artifact(d)>> \in calls', NEW k \in 1 .. d - 1
                   PROVE  Committed(q, Artifact(k))
        BY <2>3
      <4>1. CASE d = i
        BY <1>3, <4>1
      <4>2. CASE d # i
        BY <2>2, <2>4, <4>2 DEF DocsAt
      <4>. QED
        BY <4>1, <4>2
    <3>4. ~ <<q, Result>> \in calls'
      BY <1>1, <2>2, RetrievalEntriesDiffer DEF QueryAt, Sent, Ended
    <3>5. \A f : <<q, f>> \in calls' => ~ Committed(q, f)'
      BY <2>2, <2>3, <2>4 DEF DocsAt, Sent
    <3>. QED
      BY <1>1, <2>2, <3>1, <3>2, <3>3, <3>4, <3>5 DEF DocsAt
  <2>. QED
    BY <1>1, <1>5, <2>2, <2>5, <2>6, <2>7, ResultKept
<1>6. CASE i > Len(docs[q])
  <2>1. UNCHANGED doc /\ GotoSending(q, "concluding", Result)
    BY <1>1, <1>2, <1>6 DEF NextDoc
  <2>2. /\ pc'[q] = "concluding" /\ ledger'[q] = ledger[q]
        /\ \A f : <<q, f>> \in calls' => <<q, f>> \in calls \/ f = Result
    BY <1>1, <2>1, SendMoves DEF Moves
  <2>3. \A f : (Committed(q, f)' <=> Committed(q, f)) /\ (Sent(q, f)' => Sent(q, f) \/ f = Result)
    BY <2>2, LedgerKept DEF Sent
  <2>4. i = Len(docs[q]) + 1 /\ ~ Sent(q, Result)
    BY <1>1, <1>3, <1>6 DEF QueryAt, Ended
  <2>5. QueryAt(q)'
    BY <1>1, <2>2, <2>3, RetrievalEntriesDiffer DEF QueryAt, BeforeAsk, Ended
  <2>6. DocsAt(q)'
    <3>1. \A f : <<q, f>> \in calls' => ~ Committed(q, f)'
      BY <2>2, <2>3, <2>4, RetrievalEntriesDiffer DEF DocsAt, Sent
    <3>2. \A d \in 1 .. Len(docs'[q]) : Committed(q, Artifact(d))'
      BY <1>1, <1>3, <2>3, <2>4
    <3>3. \A d \in 1 .. MaxDocs : /\ Sent(q, Artifact(d))' => Sent(q, Artifact(d))
                                  /\ <<q, Artifact(d)>> \in calls' => <<q, Artifact(d)>> \in calls
      BY <2>2, <2>3, RetrievalEntriesDiffer
    <3>. QED
      BY <1>1, <2>1, <2>2, <2>3, <3>1, <3>2, <3>3 DEF DocsAt, Ended
  <2>7. doc' \in [Retrievals -> Nat] /\ doc'[q] \in 0 .. Len(docs[q])
    BY <1>1, <2>1 DEF DocOK
  <2>. QED
    BY <1>1, <2>1, <2>2, <2>5, <2>6, <2>7, ResultKept
<1>. QED
  BY <1>1, <1>2, <1>5, <1>6

\* The backend answers a query that was asked, or never sees it.
LEMMA QueryIsAnswered ==
  ASSUME RetrievalTypeOK, NEW q \in Retrievals, RetrievalAt(q), RetrievalBackendStep(q),
         \A e : Sent(q, e) => e \in RetrievalEntries
  PROVE  RetrievalAt(q)'
<1>. USE DEF RetrievalAt
<1>1. /\ q \in asked /\ asked' = asked \ {q} /\ answer[q] = "unseen" /\ Committed(q, Query)
      /\ UNCHANGED <<linkVars, doc, stored, blobs>> /\ doc[q] = 0
      /\ answer'[q] \in {"unseen"} \cup Answers
  BY DEF RetrievalBackendStep, BackendAnswers, QueryLost, QueryAt, DocsAt, RetrievalTypeOK
<1>2. \A f : (Committed(q, f)' <=> Committed(q, f)) /\ (Sent(q, f)' <=> Sent(q, f))
  BY <1>1 DEF linkVars, Committed, Sent
<1>3. ~ Sent(q, Result) /\ ~ Sent(q, QueryError) /\ \A i \in 1 .. MaxDocs : ~ Sent(q, Artifact(i))
  BY <1>1 DEF QueryAt, DocsAt
<1>4. pc[q] \notin BeforeAsk \cup {"uploading", "concluding", "erring", "replied"}
  BY <1>1 DEF QueryAt, BeforeAsk
<1>5. QueryAt(q)'
  BY <1>1, <1>2, <1>3, <1>4 DEF QueryAt, linkVars, Answers
<1>6. DocsAt(q)'
  BY <1>1, <1>2, <1>3, <1>4 DEF DocsAt, linkVars, Sent
<1>7. ResultAt(q)'
  <2>1. \A i \in 1 .. Len(ledger[q]) : Sent(q, ledger[q][i])
    BY CommittedIsAt, RetrievalsAssumption DEF Sent, RetrievalTypeOK
  <2>2. \A i \in 1 .. Len(ledger[q]) : ledger[q][i] # Result /\ ledger[q][i].kind # "artifact"
    BY <1>3, <2>1, RetrievalEntriesDiffer DEF RetrievalEntries
  <2>3. PICK ds : ds = docs'[q]
    OBVIOUS
  <2>4. ledger'[q] = ledger[q]
    BY <1>1 DEF linkVars
  <2>5. \A i \in 1 .. Len(ledger[q]) : InOrder(ledger[q], ds, i)
    BY <2>2 DEF ResultAt, InOrder
  <2>. QED
    BY <2>3, <2>4, <2>5 DEF ResultAt
<1>8. BlobsAt(q)'
  BY <1>1, <1>2, <1>3 DEF BlobsAt, RetrievalTypeOK, Sent
<1>. QED
  BY <1>5, <1>6, <1>7, <1>8

\* The ledger commits what a retrieval has sent, the row of an upload behind
\* its blob.
LEMMA RetrievalGains ==
  ASSUME RetrievalTypeOK, NEW q \in Retrievals, RetrievalAt(q), NEW e \in RetrievalEntries, Gains(q, e),
         UNCHANGED <<asked, answer, docs, doc, blobs>>, stored' \subseteq stored,
         UploadReady(<<q, e>>)
  PROVE  RetrievalAt(q)'
<1>. USE DEF RetrievalAt
<1>1. q \in Handlers /\ e \in Entries /\ LinkTypeOK
  BY RetrievalsAssumption, RetrievalEntriesAssumption DEF RetrievalTypeOK
<1>2. /\ Len(ledger[q]) \in Nat /\ Len(ledger'[q]) = Len(ledger[q]) + 1
      /\ ledger'[q][Len(ledger[q]) + 1] = e
      /\ \A i \in 1 .. Len(ledger[q]) : ledger'[q][i] = ledger[q][i]
      /\ \A f : Committed(q, f)' <=> Committed(q, f) \/ f = e
      /\ \A f : Sent(q, f)' => Sent(q, f)
      /\ Sent(q, e)
  BY <1>1, GainsSent
<1>3. /\ pc'[q] = pc[q] /\ <<q, e>> \in calls /\ UNCHANGED <<asked, answer, docs, doc, blobs>>
      /\ \A f : <<q, f>> \in calls' => <<q, f>> \in calls /\ f # e
  BY DEF Gains
<1>4. QueryAt(q)'
  BY <1>2, <1>3 DEF QueryAt
<1>5. DocsAt(q)'
  BY <1>2, <1>3 DEF DocsAt
<1>6. e.kind = "artifact" => \E k \in 1 .. MaxDocs : e = Artifact(k)
  BY RetrievalEntriesDiffer DEF RetrievalEntries
<1>7. BlobsAt(q)'
  <2>1. \A i \in 1 .. MaxDocs : e = Artifact(i) => <<q, e>> \in stored
    BY RetrievalEntriesDiffer DEF UploadReady, IsUpload
  <2>2. \A i \in 1 .. MaxDocs : Committed(q, Artifact(i))' => docs[q][i] \in blobs
    BY <1>2, <2>1 DEF BlobsAt
  <2>. QED
    BY <1>3, <2>2 DEF BlobsAt
<1>8. ResultAt(q)'
  <2> DEFINE m == Len(ledger[q])
  <2>1. PICK L, ds : L = ledger'[q] /\ ds = docs[q] /\ ds = docs'[q]
    BY <1>3
  <2>2. SUFFICES \A i \in 1 .. m + 1 : InOrder(L, ds, i)
    BY <1>2, <2>1 DEF ResultAt
  <2>3. \A i \in 1 .. m : L[i] = ledger[q][i]
    BY <1>2, <2>1
  <2>4. m \in Nat /\ L[m + 1] = e
    BY <1>2, <2>1
  <2>5. \A i \in 1 .. m : InOrder(ledger[q], ds, i)
    BY <2>1 DEF ResultAt
  <2>6. \A f : Committed(q, f) <=> \E j \in 1 .. m : ledger[q][j] = f
    BY <1>1, CommittedIsAt
  <2>7. \A f : Committed(q, f) <=> \E j \in 1 .. m : L[j] = f
    BY <2>3, <2>6
  <2>8. /\ e = Result => \A d \in 1 .. Len(ds) : Committed(q, Artifact(d))
        /\ e.kind = "artifact" => e.item \in Nat /\ \A d \in 1 .. e.item - 1 : Committed(q, Artifact(d))
        /\ ~ Committed(q, e)
    <3>1. ~ Committed(q, e)
      BY <1>3 DEF DocsAt
    <3>2. e = Result => \A d \in 1 .. Len(ds) : Committed(q, Artifact(d))
      BY <1>3, <2>1 DEF DocsAt
    <3>3. ASSUME e.kind = "artifact"
          PROVE  e.item \in Nat /\ \A d \in 1 .. e.item - 1 : Committed(q, Artifact(d))
      <4>1. PICK k \in 1 .. MaxDocs : e = Artifact(k)
        BY <1>6, <3>3
      <4>2. e.item = k /\ \A d \in 1 .. k - 1 : Committed(q, Artifact(d))
        BY <1>3, <4>1, RetrievalEntriesDiffer DEF DocsAt
      <4>. QED
        BY <4>2
    <3>. QED
      BY <3>1, <3>2, <3>3
  <2> HIDE DEF m
  <2>9. \A i \in 1 .. m : InOrder(L, ds, i)
    <3> TAKE i \in 1 .. m
    <3>1. InOrder(ledger[q], ds, i) /\ L[i] = ledger[q][i] /\ \A j \in 1 .. i - 1 : L[j] = ledger[q][j]
      BY <2>3, <2>4, <2>5
    <3>. QED
      BY <3>1 DEF InOrder
  <2>10. InOrder(L, ds, m + 1)
    <3>1. (m + 1) - 1 = m
      BY <2>4
    <3>2. \A j \in 1 .. m : L[j] # e
      BY <2>7, <2>8
    <3>3. e = Result => \A d \in 1 .. Len(ds) : \E j \in 1 .. m : L[j] = Artifact(d)
      BY <2>7, <2>8
    <3>4. e.kind = "artifact" => \A d \in 1 .. e.item - 1 : \E j \in 1 .. m : L[j] = Artifact(d)
      BY <2>7, <2>8
    <3>5. \A d : d \in 1 .. 0 => FALSE
      OBVIOUS
    <3>6. \A d \in 1 .. (IF e = Result THEN Len(ds) ELSE IF e.kind = "artifact" THEN e.item - 1 ELSE 0) :
            \E j \in 1 .. m : L[j] = Artifact(d)
      BY <3>3, <3>4, <3>5
    <3>. QED
      BY <2>4, <3>1, <3>2, <3>6 DEF InOrder
  <2>. QED
    BY <2>4, <2>9, <2>10
<1>. QED
  BY <1>4, <1>5, <1>7, <1>8

LEMMA BlobIsPut ==
  ASSUME RetrievalTypeOK, NEW q \in Retrievals, RetrievalAt(q), NEW c \in calls, PutBlob(c)
  PROVE  RetrievalAt(q)'
<1>. USE DEF RetrievalAt
<1>1. /\ UNCHANGED <<linkVars, asked, answer, docs, doc>> /\ IsUpload(c)
      /\ stored' = stored \cup {c} /\ blobs' = blobs \cup {docs[c[1]][c[2].item]}
  BY DEF PutBlob
<1>2. \A h, f : (Committed(h, f)' <=> Committed(h, f)) /\ (Sent(h, f)' <=> Sent(h, f))
  BY <1>1 DEF linkVars, Committed, Sent
<1>3. QueryAt(q)'
  BY <1>1, <1>2 DEF QueryAt, linkVars
<1>4. DocsAt(q)'
  BY <1>1, <1>2 DEF DocsAt, linkVars
<1>5. ResultAt(q)'
  BY <1>1 DEF ResultAt, linkVars
<1>6. \A i \in 1 .. MaxDocs : c = <<q, Artifact(i)>> => docs[q][i] \in blobs'
  BY <1>1, RetrievalEntriesDiffer
<1>7. BlobsAt(q)'
  BY <1>1, <1>2, <1>6 DEF BlobsAt
<1>. QED
  BY <1>3, <1>4, <1>5, <1>7

-----------------------------------------------------------------------------
(* Types *)

\* A handler goes to `next`, and may send an entry of its own.
Goes(h, next, e) == GotoSending(h, next, e) \/ GotoQuietly(h, next)

LEMMA OwnIsEntry ==
  ASSUME NEW h, NEW e, Own(h, e)
  PROVE  e \in Entries
  BY ApprovalEntriesAssumption, ToolEntriesAssumption, RetrievalEntriesAssumption DEF Own

LEMMA LinkGoes ==
  ASSUME LinkOK, NEW h \in Handlers, NEW next \in States, NEW e, Own(h, e), Goes(h, next, e)
  PROVE  /\ LinkOK' /\ ledger' = ledger /\ pc'[h] = next
         /\ \A g \in Handlers \ {h} : AtRest(g)
<1>1. Moves(h, next, e) /\ \A g \in Handlers \ {h} : AtRest(g)
  BY SendMoves, QuietMoves DEF Goes, LinkOK
<1>2. pc' = [pc EXCEPT ![h] = next] /\ ledger' = ledger /\ calls' \subseteq calls \cup {<<h, e>>}
  BY DEF Goes, GotoSending, GotoQuietly, Goto, Send
<1>3. PcOK'
  BY <1>2 DEF LinkOK, PcOK
<1>4. LinkTypeOK'
  BY <1>2, OwnIsEntry DEF LinkOK, LinkTypeOK
<1>5. OwnEntries'
  <2>1. \A f : Sent(h, f)' => Sent(h, f) \/ f = e
    BY <1>1, MovesSent
  <2>2. \A g \in Handlers \ {h} : \A f : Sent(g, f)' => Sent(g, f)
    BY <1>1, AtRestSent
  <2>3. \A g \in Handlers : \A f : Sent(g, f)' => Own(g, f)
    BY <2>1, <2>2 DEF LinkOK, OwnEntries
  <2>. QED
    BY <2>3 DEF OwnEntries, Own, ApprovalEntries, ToolEntries, RetrievalEntries
<1>. QED
  BY <1>1, <1>2, <1>3, <1>4, <1>5 DEF LinkOK, Moves

LEMMA LinkGains ==
  ASSUME LinkOK, NEW h \in Handlers, NEW e \in Entries, LedgerCommits(<<h, e>>), <<h, e>> \in calls
  PROVE  LinkOK' /\ Own(h, e)
<1>1. Gains(h, e) /\ \A g \in Handlers \ {h} : AtRest(g)
  BY CommitGains DEF LinkOK
<1>2. /\ pc' = pc /\ calls' \subseteq calls
      /\ ledger' = [ledger EXCEPT ![h] = Append(ledger[h], e)]
  BY DEF LedgerCommits
<1>3. PcOK'
  BY <1>2 DEF LinkOK, PcOK
<1>4. LinkTypeOK'
  BY <1>2 DEF LinkOK, LinkTypeOK
<1>5. (\A f : Sent(h, f)' => Sent(h, f)) /\ Sent(h, e)
  BY <1>1, GainsSent DEF LinkOK
<1>6. \A g \in Handlers \ {h} : \A f : Sent(g, f)' => Sent(g, f)
  BY <1>1, AtRestSent
<1>7. \A g \in Handlers : \A f : Sent(g, f)' => Own(g, f)
  BY <1>5, <1>6 DEF LinkOK, OwnEntries
<1>. QED
  BY <1>3, <1>4, <1>5, <1>7 DEF LinkOK, OwnEntries, Own, ApprovalEntries, ToolEntries, RetrievalEntries

\* What may be lost was never more than what had been sent.
LEMMA LinkShrinks ==
  ASSUME LinkOK, pc' = pc, ledger' = ledger, calls' \subseteq calls
  PROVE  LinkOK' /\ \A h : AtRest(h)
<1>1. \A h : AtRest(h)
  BY DEF AtRest
<1>2. \A h : \A e : Sent(h, e)' => Sent(h, e)
  BY <1>1, AtRestSent
<1>3. PcOK' /\ LinkTypeOK'
  BY DEF LinkOK, PcOK, LinkTypeOK
<1>4. \A h \in Handlers : \A e : Sent(h, e)' => Own(h, e)
  BY <1>2 DEF LinkOK, OwnEntries
<1>. QED
  BY <1>1, <1>3, <1>4 DEF LinkOK, OwnEntries, Own, ApprovalEntries, ToolEntries, RetrievalEntries

\* Components at rest.
LEMMA ToolsRest ==
  ASSUME ToolTypeOK, \A t \in ToolCalls : ToolAt(t) /\ AtRest(t), UNCHANGED toolVars, LinkTypeOK'
  PROVE  ToolTypeOK' /\ \A t \in ToolCalls : ToolAt(t)'
<1>1. UNCHANGED <<forwarded, backend, effects, invocation, item>>
  BY DEF toolVars
<1>2. ToolTypeOK'
  BY <1>1 DEF ToolTypeOK, AtRest
<1>3. ASSUME NEW t \in ToolCalls
      PROVE  ToolAt(t)'
  <2>1. pc'[t] = pc[t] /\ ledger'[t] = ledger[t] /\ \A e : <<t, e>> \in calls' => <<t, e>> \in calls
    BY DEF AtRest
  <2>2. \A e : Sent(t, e)' => Sent(t, e)
    BY AtRestSent
  <2>. QED
    BY <1>1, <2>1, <2>2, ToolKept
<1>. QED
  BY <1>2, <1>3

LEMMA RetrievalsRest ==
  ASSUME RetrievalTypeOK, DocOK, \A q \in Retrievals : RetrievalAt(q) /\ AtRest(q), LinkTypeOK',
         UNCHANGED <<asked, answer, docs, doc, blobs>>, stored' \subseteq stored \cap calls'
  PROVE  RetrievalTypeOK' /\ DocOK' /\ \A q \in Retrievals : RetrievalAt(q)'
<1>1. RetrievalTypeOK' /\ DocOK'
  BY DEF RetrievalTypeOK, DocOK, AtRest
<1>2. ASSUME NEW q \in Retrievals
      PROVE  RetrievalAt(q)'
  BY RetrievalRests
<1>. QED
  BY <1>1, <1>2

LEMMA ApprovalsRest ==
  ASSUME ApprovalTypeOK, AnswersOK, \A a \in Approvals : ApprovalAt(a) /\ EvidenceAt(a) /\ AtRest(a),
         UNCHANGED approvalVars, LinkTypeOK'
  PROVE  ApprovalTypeOK' /\ AnswersOK' /\ \A a \in Approvals : ApprovalAt(a)' /\ EvidenceAt(a)'
<1>1. UNCHANGED <<home, pending, channel, answers>>
  BY DEF approvalVars
<1>2. ApprovalTypeOK' /\ AnswersOK'
  BY <1>1 DEF ApprovalTypeOK, AnswersOK, AtRest
<1>3. ASSUME NEW a \in Approvals
      PROVE  ApprovalAt(a)' /\ EvidenceAt(a)'
  <2>1. pc'[a] = pc[a] /\ ledger'[a] = ledger[a] /\ \A e : <<a, e>> \in calls' => <<a, e>> \in calls
    BY DEF AtRest
  <2>2. \A e : Committed(a, e)' <=> Committed(a, e)
    BY <2>1, LedgerKept
  <2>3. ApprovalAt(a)'
    BY <1>1, <2>1, <2>2 DEF ApprovalAt, Event, Evidence
  <2>4. EvidenceAt(a)'
    BY <2>1 DEF EvidenceAt, Event, Evidence
  <2>. QED
    BY <2>3, <2>4
<1>. QED
  BY <1>2, <1>3

\* A dossier does not mind what is committed meanwhile.
LEMMA DossierRests ==
  ASSUME DossierTypeOK, DossierInv, LinkTypeOK, UNCHANGED dossierVars,
         \A h \in Handlers : ledger'[h] = ledger[h] \/ \E e \in Entries : Gains(h, e)
  PROVE  DossierTypeOK' /\ DossierInv'
<1>1. UNCHANGED <<subject, section, shown, begun>>
  BY DEF dossierVars
<1>2. CASE subject = None \/ ledger'[subject] = ledger[subject]
  BY <1>1, <1>2 DEF DossierTypeOK, DossierInv
<1>3. CASE subject # None /\ \E e \in Entries : Gains(subject, e)
  <2>1. PICK h \in Handlers : h = subject /\ h = subject' /\ h # None
    BY <1>1, <1>3 DEF DossierTypeOK
  <2>2. PICK e \in Entries : Gains(h, e)
    BY <1>3, <2>1
  <2>3. /\ Len(ledger[h]) \in Nat /\ Len(ledger'[h]) = Len(ledger[h]) + 1
        /\ \A i \in 1 .. Len(ledger[h]) : ledger'[h][i] = ledger[h][i]
        /\ \A f : Committed(h, f)' <=> Committed(h, f) \/ f = e
    BY <2>2, GainsSent
  <2>4. begun \in 0 .. Len(ledger[h])
    BY <2>1 DEF DossierTypeOK
  <2>5. DossierTypeOK'
    <3>1. begun \in 0 .. Len(ledger'[h])
      BY <2>3, <2>4
    <3>. QED
      BY <1>1, <2>1, <3>1 DEF DossierTypeOK, Sections
  <2>6. \A i \in 1 .. begun : ledger'[h][i] = ledger[h][i]
    BY <2>3, <2>4
  <2>7. shown \subseteq ToSet(ledger'[h])
    BY <2>1, <2>3 DEF Committed, DossierInv
  <2>8. \A i \in 1 .. begun : \A k \in 1 .. section :
          Table(ledger'[h][i]) = Sections[k] => ledger'[h][i] \in shown
    BY <2>1, <2>6 DEF DossierInv
  <2>9. DossierInv'
    BY <1>1, <2>1, <2>7, <2>8 DEF DossierInv, Table, Sections
  <2>. QED
    BY <2>5, <2>9
<1>. QED
  BY <1>2, <1>3 DEF DossierTypeOK


-----------------------------------------------------------------------------
(* Approvals *)

LEMMA GateKept ==
  ASSUME NEW a \in Approvals, ApprovalAt(a), EvidenceAt(a), ledger'[a] = ledger[a], home' = home,
         \A g \in Gateways : a \in pending'[g] => g = home[a] /\ channel'[a] = "open",
         pc'[a] \in {"recording", "evidencing"} => channel'[a] \in Decisions,
         \A s \in Decisions : <<a, Evidence(s)>> \in calls' =>
           <<a, Evidence(s)>> \in calls \/ Committed(a, Event(s))
  PROVE  ApprovalAt(a)' /\ EvidenceAt(a)'
<1>1. \A e : Committed(a, e)' <=> Committed(a, e)
  BY LedgerKept
<1>2. \A s \in Decisions : <<a, Evidence(s)>> \in calls' => Committed(a, Event(s))'
  BY <1>1 DEF ApprovalAt
<1>3. ApprovalAt(a)'
  BY <1>2 DEF ApprovalAt, Event, Evidence
<1>4. EvidenceAt(a)'
  BY DEF EvidenceAt, Event, Evidence
<1>. QED
  BY <1>3, <1>4

\* The handler of a request goes on, and the map and the channels stay.
LEMMA RequestGoes ==
  ASSUME LinkOK, GateOK, LinkTypeOK', NEW a \in Approvals, UNCHANGED approvalVars,
         NEW next \in ApprovalActive \cup Ended, NEW e, Moves(a, next, e),
         \A b \in Approvals \ {a} : AtRest(b),
         next \in {"recording", "evidencing"} => channel[a] \in Decisions,
         \A s \in Decisions : e = Evidence(s) => Committed(a, Event(s))
  PROVE  GateOK'
<1>1. UNCHANGED <<home, pending, channel, answers>>
  BY DEF approvalVars
<1>2. /\ pc'[a] = next /\ ledger'[a] = ledger[a]
      /\ \A f : <<a, f>> \in calls' => <<a, f>> \in calls \/ f = e
  BY DEF Moves
<1>3. \A b \in Approvals \ {a} : /\ pc'[b] = pc[b] /\ ledger'[b] = ledger[b]
                                 /\ \A f : <<b, f>> \in calls' => <<b, f>> \in calls
  BY DEF AtRest
<1>4. ApprovalTypeOK' /\ AnswersOK'
  BY <1>1, <1>2, <1>3 DEF GateOK, ApprovalTypeOK, AnswersOK
<1>5. ASSUME NEW b \in Approvals
      PROVE  ApprovalAt(b)' /\ EvidenceAt(b)'
  <2>1. ApprovalAt(b) /\ EvidenceAt(b) /\ ledger'[b] = ledger[b]
    BY <1>2, <1>3 DEF GateOK
  <2>2. \A g \in Gateways : b \in pending'[g] => g = home[b] /\ channel'[b] = "open"
    BY <1>1, <2>1 DEF ApprovalAt
  <2>3. pc'[b] \in {"recording", "evidencing"} => channel'[b] \in Decisions
    BY <1>1, <1>2, <1>3, <2>1 DEF ApprovalAt
  <2>4. \A s \in Decisions : <<b, Evidence(s)>> \in calls' =>
          <<b, Evidence(s)>> \in calls \/ Committed(b, Event(s))
    BY <1>2, <1>3
  <2>. QED
    BY <1>1, <2>1, <2>2, <2>3, <2>4, GateKept
<1>. QED
  BY <1>4, <1>5 DEF GateOK


\* What a request sends, and where it goes with it.
LEMMA RequestMoves ==
  ASSUME GateOK, NEW a \in Approvals,
         (ResolveRun(a) /\ UNCHANGED approvalVars) \/ RequestStep(a) \/ RequesterHangsUp(a)
  PROVE  \E next \in ApprovalActive \cup Ended : \E e \in ApprovalEntries :
           /\ Goes(a, next, e)
           /\ next \in {"recording", "evidencing"} => channel[a] \in Decisions
           /\ \A s \in Decisions : e = Evidence(s) => Committed(a, Event(s))
           /\ (Stash(a) /\ next = "requesting") \/ UNCHANGED approvalVars
<1>. DEFINE Fits(next, e) ==
       /\ Goes(a, next, e)
       /\ next \in {"recording", "evidencing"} => channel[a] \in Decisions
       /\ \A s \in Decisions : e = Evidence(s) => Committed(a, Event(s))
       /\ (Stash(a) /\ next = "requesting") \/ UNCHANGED approvalVars
<1>0. /\ Entry("run") \in ApprovalEntries /\ Entry("binding") \in ApprovalEntries /\ Asked \in ApprovalEntries
      /\ \A s \in Decisions : Event(s) \in ApprovalEntries /\ Evidence(s) \in ApprovalEntries
  BY DEF ApprovalEntries
<1>1. /\ \A s : Evidence(s) \notin {Entry("run"), Entry("binding"), Asked}
      /\ \A s, r \in Decisions : Event(s) # Evidence(r)
      /\ \A s, r \in Decisions : Evidence(s) = Evidence(r) => s = r
  BY EntriesDiffer
<1>2. CASE ResolveRun(a) /\ UNCHANGED approvalVars
  <2>1. Fits("ready", Entry("run")) \/ Fits("minting", Entry("run"))
    BY <1>1, <1>2 DEF ResolveRun, Goes
  <2>. QED
    BY <1>0, <2>1 DEF ApprovalActive
<1>3. CASE ResolveStep(a) /\ UNCHANGED approvalVars
  <2>1. Fits("ready", Entry("binding")) \/ Fits("stamping", Entry("binding")) \/ Fits("failed", Entry("binding"))
    BY <1>1, <1>3 DEF ResolveStep, RunMinted, Err, StampingDone, Goes
  <2>. QED
    BY <1>0, <2>1 DEF ApprovalActive, Ended
<1>4. CASE Stash(a)
  <2>1. Fits("requesting", Asked)
    BY <1>1, <1>4 DEF Stash, Goes
  <2>. QED
    BY <1>0, <2>1 DEF ApprovalActive, Listening
<1>5. CASE RequestRecorded(a) \/ SenderDropped(a) \/ Reply(a) \/ RequestFails(a) \/ RequesterHangsUp(a)
  <2>1. \E next \in {"waiting", "failed", "replied", "gone"} : Fits(next, Asked)
    BY <1>1, <1>5 DEF RequestRecorded, SenderDropped, Reply, RequestFails, RequesterHangsUp, Err, Goes
  <2>. QED
    BY <1>0, <2>1 DEF ApprovalActive, Listening, Ended
<1>6. CASE Receive(a)
  <2>1. PICK s \in Decisions : s = channel[a]
    BY <1>6 DEF Receive
  <2>2. Fits("recording", Event(s))
    BY <1>1, <1>6, <2>1 DEF Receive, Goes
  <2>. QED
    BY <1>0, <2>2 DEF ApprovalActive
<1>7. CASE DecisionRecorded(a)
  <2>1. PICK s \in Decisions : s = channel[a]
    BY <1>7 DEF DecisionRecorded, Ok, GateOK, ApprovalAt
  <2>2. Fits("evidencing", Evidence(s))
    BY <1>1, <1>7, <2>1 DEF DecisionRecorded, Ok, Goes
  <2>. QED
    BY <1>0, <2>2 DEF ApprovalActive
<1>. QED
  BY <1>2, <1>3, <1>4, <1>5, <1>6, <1>7 DEF RequestStep

\* The sender of a request enters the map of its replica.
LEMMA StashKeepsGate ==
  ASSUME LinkOK, GateOK, LinkTypeOK', NEW a \in Approvals, Stash(a), Moves(a, "requesting", Asked),
         \A b \in Approvals \ {a} : AtRest(b)
  PROVE  GateOK'
<1>1. /\ pending' = [pending EXCEPT ![home[a]] = @ \cup {a}]
      /\ channel' = [channel EXCEPT ![a] = "open"] /\ UNCHANGED <<home, answers>>
  BY DEF Stash
<1>2. /\ pending \in [Gateways -> SUBSET Approvals] /\ home \in [Approvals -> Gateways]
      /\ channel \in [Approvals -> {"unused", "open", "closed"} \cup Decisions]
  BY DEF GateOK, ApprovalTypeOK
<1>3. channel'[a] = "open" /\ \A b \in Approvals \ {a} : channel'[b] = channel[b]
  BY <1>1, <1>2
<1>4. \A g \in Gateways : pending'[g] = IF g = home[a] THEN pending[g] \cup {a} ELSE pending[g]
  BY <1>1, <1>2
<1>5. /\ pc'[a] = "requesting" /\ ledger'[a] = ledger[a]
      /\ \A f : <<a, f>> \in calls' => <<a, f>> \in calls \/ f = Asked
  BY DEF Moves
<1>6. \A b \in Approvals \ {a} : /\ pc'[b] = pc[b] /\ ledger'[b] = ledger[b]
                                 /\ \A f : <<b, f>> \in calls' => <<b, f>> \in calls
  BY DEF AtRest
<1>7. ApprovalTypeOK' /\ AnswersOK'
  <2>1. pending' \in [Gateways -> SUBSET Approvals]
    BY <1>1, <1>2
  <2>2. channel' \in [Approvals -> {"unused", "open", "closed"} \cup Decisions]
    BY <1>1, <1>2
  <2>. QED
    BY <1>1, <1>5, <1>6, <2>1, <2>2 DEF GateOK, ApprovalTypeOK, AnswersOK, ApprovalActive, Listening
<1>8. ASSUME NEW b \in Approvals
      PROVE  ApprovalAt(b)' /\ EvidenceAt(b)'
  <2>1. ApprovalAt(b) /\ EvidenceAt(b) /\ ledger'[b] = ledger[b]
    BY <1>5, <1>6 DEF GateOK
  <2>2. \A g \in Gateways : b \in pending'[g] => g = home[b] /\ channel'[b] = "open"
    BY <1>3, <1>4, <2>1 DEF ApprovalAt
  <2>3. pc'[b] \in {"recording", "evidencing"} => channel'[b] \in Decisions
    BY <1>3, <1>5, <1>6, <2>1 DEF ApprovalAt
  <2>4. \A s \in Decisions : <<b, Evidence(s)>> \in calls' =>
          <<b, Evidence(s)>> \in calls \/ Committed(b, Event(s))
    BY <1>5, <1>6, EntriesDiffer
  <2>. QED
    BY <1>1, <2>1, <2>2, <2>3, <2>4, GateKept
<1>. QED
  BY <1>7, <1>8 DEF GateOK

\* What a step of one handler leaves of the others.
Alone(h) == /\ LinkOK' /\ ledger' = ledger /\ calls \subseteq calls'
            /\ \A g \in Handlers \ {h} : AtRest(g)

LEMMA GoesAlone ==
  ASSUME LinkOK, NEW h \in Handlers, NEW next \in States, NEW e, Own(h, e), Goes(h, next, e)
  PROVE  Alone(h) /\ LinkTypeOK' /\ pc'[h] = next
<1>1. LinkOK' /\ ledger' = ledger /\ pc'[h] = next /\ \A g \in Handlers \ {h} : AtRest(g)
  BY LinkGoes
<1>2. calls \subseteq calls'
  BY DEF Goes, GotoSending, GotoQuietly, Send
<1>. QED
  BY <1>1, <1>2 DEF Alone, LinkOK

LEMMA RequestKeepsGate ==
  ASSUME LinkOK, GateOK, NEW a \in Approvals,
         (ResolveRun(a) /\ UNCHANGED approvalVars) \/ RequestStep(a) \/ RequesterHangsUp(a)
  PROVE  Alone(a) /\ GateOK'
<1>1. PICK next \in ApprovalActive \cup Ended, e \in ApprovalEntries :
        /\ Goes(a, next, e)
        /\ next \in {"recording", "evidencing"} => channel[a] \in Decisions
        /\ \A s \in Decisions : e = Evidence(s) => Committed(a, Event(s))
        /\ (Stash(a) /\ next = "requesting") \/ UNCHANGED approvalVars
  BY RequestMoves
<1>2. a \in Handlers /\ next \in States /\ Own(a, e)
  BY ApprovalsAssumption DEF States, Own
<1>3. Alone(a) /\ LinkTypeOK'
  BY <1>1, <1>2, GoesAlone
<1>4. Moves(a, next, e)
  BY <1>1, <1>2, SendMoves, QuietMoves DEF Goes, LinkOK
<1>5. \A b \in Approvals \ {a} : AtRest(b)
  BY <1>3, ApprovalsAssumption DEF Alone
<1>6. CASE UNCHANGED approvalVars
  BY <1>1, <1>3, <1>4, <1>5, <1>6, RequestGoes
<1>7. CASE Stash(a)
  <2>1. GotoSending(a, "requesting", Asked)
    BY <1>7 DEF Stash
  <2>2. Moves(a, "requesting", Asked)
    BY <1>2, <2>1, SendMoves DEF LinkOK
  <2>. QED
    BY <1>3, <1>5, <1>7, <2>2, StashKeepsGate
<1>. QED
  BY <1>1, <1>3, <1>6, <1>7


\* A decision takes a sender out of the map, and decides or closes its channel.
LEMMA SenderIsTaken ==
  ASSUME GateOK, NEW d \in Deciders, NEW g \in Gateways, NEW a \in pending[g],
         NEW v \in Decisions \cup {"closed"},
         pending' = [pending EXCEPT ![g] = @ \ {a}],
         channel' = [channel EXCEPT ![a] = v],
         NEW r \in Answer, answers' = [answers EXCEPT ![d] = r], UNCHANGED linkVars, UNCHANGED home
  PROVE  GateOK'
<1>1. /\ pending \in [Gateways -> SUBSET Approvals] /\ home \in [Approvals -> Gateways]
      /\ channel \in [Approvals -> {"unused", "open", "closed"} \cup Decisions]
  BY DEF GateOK, ApprovalTypeOK
<1>2. a \in Approvals /\ channel[a] = "open" /\ g = home[a]
  BY <1>1 DEF GateOK, ApprovalAt
<1>3. UNCHANGED <<pc, calls, ledger>>
  BY DEF linkVars
<1>4. channel'[a] = v /\ \A b \in Approvals \ {a} : channel'[b] = channel[b]
  BY <1>1, <1>2
<1>5. pending'[g] = pending[g] \ {a} /\ \A h \in Gateways \ {g} : pending'[h] = pending[h]
  BY <1>1
<1>6. ApprovalTypeOK' /\ AnswersOK'
  <2>1. v \in {"unused", "open", "closed"} \cup Decisions
    OBVIOUS
  <2>2. LinkTypeOK'
    BY <1>3 DEF GateOK, ApprovalTypeOK, LinkTypeOK
  <2>3. channel' \in [Approvals -> {"unused", "open", "closed"} \cup Decisions]
    BY <1>1, <1>2, <2>1
  <2>4. pending' \in [Gateways -> SUBSET Approvals]
    BY <1>1
  <2>5. answers' \in [Deciders -> {NoAnswer} \cup Answer]
    BY DEF GateOK, AnswersOK
  <2>. QED
    BY <1>1, <1>3, <2>2, <2>3, <2>4, <2>5 DEF GateOK, ApprovalTypeOK, AnswersOK
<1>7. ASSUME NEW b \in Approvals
      PROVE  ApprovalAt(b)' /\ EvidenceAt(b)'
  <2>1. ApprovalAt(b) /\ EvidenceAt(b)
    BY DEF GateOK
  <2>2. \A h \in Gateways : b \in pending'[h] => h = home[b] /\ channel'[b] = "open"
    BY <1>2, <1>4, <1>5, <2>1 DEF ApprovalAt
  <2>3. pc[b] \in {"recording", "evidencing"} => b # a
    BY <1>2, <2>1 DEF ApprovalAt, Decisions
  <2>4. pc'[b] \in {"recording", "evidencing"} => channel'[b] \in Decisions
    BY <1>3, <1>4, <2>1, <2>3 DEF ApprovalAt
  <2>. QED
    BY <1>3, <2>1, <2>2, <2>4, GateKept
<1>. QED
  BY <1>6, <1>7 DEF GateOK

LEMMA DecideKeepsGate ==
  ASSUME GateOK, NEW d \in Deciders, NEW g \in Gateways, NEW a \in Approvals,
         DecideMalformed(d, g, a) \/ \E said \in Decisions : Decide(d, g, a, said)
  PROVE  GateOK' /\ UNCHANGED linkVars
<1>1. PICK v \in Decisions \cup {"closed"}, told \in {"ok", "bad_request", "not_found"},
           said \in Decisions \cup {Malformed} :
        channel' = [channel EXCEPT ![a] = v] /\ Tell(d, told, a, said)
  BY DEF DecideMalformed, Decide
<1>2. /\ a \in pending[g] /\ UNCHANGED linkVars /\ UNCHANGED home
      /\ pending' = [pending EXCEPT ![g] = @ \ {a}]
  BY DEF DecideMalformed, Decide
<1>3. PICK r : r = [told |-> told, approval |-> a, said |-> said]
  OBVIOUS
<1>4. r \in Answer /\ answers' = [answers EXCEPT ![d] = r]
  BY <1>1, <1>3 DEF Answer, Tell
<1>. QED
  BY <1>1, <1>2, <1>4, SenderIsTaken

LEMMA DecideUnknownKeepsGate ==
  ASSUME GateOK, NEW d \in Deciders, NEW g \in Gateways, NEW a \in Approvals,
         NEW said \in Decisions \cup {Malformed}, DecideUnknown(d, g, a, said)
  PROVE  GateOK' /\ UNCHANGED linkVars
<1>1. UNCHANGED <<pc, calls, ledger, home, pending, channel>>
  BY DEF DecideUnknown, linkVars
<1>2. PICK r : r = [told |-> "not_found", approval |-> a, said |-> said]
  OBVIOUS
<1>3. answers' = [answers EXCEPT ![d] = r] /\ r \in Answer
  BY <1>2 DEF DecideUnknown, Tell, Answer
<1>4. ApprovalTypeOK' /\ AnswersOK'
  BY <1>1, <1>3 DEF GateOK, ApprovalTypeOK, AnswersOK, LinkTypeOK
<1>5. \A b \in Approvals : ApprovalAt(b) /\ EvidenceAt(b)
  BY DEF GateOK
<1>6. ASSUME NEW b \in Approvals
      PROVE  ApprovalAt(b)' /\ EvidenceAt(b)'
  BY <1>1, <1>5, GateKept DEF ApprovalAt
<1>. QED
  BY <1>1, <1>4, <1>6 DEF GateOK, linkVars

LEMMA RestartKeepsGate ==
  ASSUME LinkOK, GateOK, NEW g \in Gateways, Restart(g)
  PROVE  /\ GateOK' /\ LinkOK' /\ ledger' = ledger
         /\ \A h \in Handlers \ Approvals : AtRest(h)
<1>1. /\ pc' = [h \in Handlers |-> IF h \in Approvals /\ home[h] = g /\ pc[h] \in ApprovalActive
                                   THEN "gone" ELSE pc[h]]
      /\ pending' = [pending EXCEPT ![g] = {}]
      /\ channel' = [a \in Approvals |-> IF a \in pending[g] THEN "closed" ELSE channel[a]]
      /\ UNCHANGED <<calls, ledger, home, answers>>
  BY DEF Restart
<1>2. /\ pending \in [Gateways -> SUBSET Approvals] /\ home \in [Approvals -> Gateways]
      /\ channel \in [Approvals -> {"unused", "open", "closed"} \cup Decisions]
  BY DEF GateOK, ApprovalTypeOK
<1>3. \A h, e : Sent(h, e)' <=> Sent(h, e)
  BY <1>1 DEF Sent, Committed
<1>4. LinkOK'
  <2>1. PcOK'
    BY <1>1 DEF LinkOK, PcOK, States, Ended
  <2>2. LinkTypeOK'
    BY <1>1 DEF LinkOK, LinkTypeOK
  <2>3. \A h \in Handlers : \A e : Sent(h, e)' => Own(h, e)
    BY <1>3 DEF LinkOK, OwnEntries
  <2>. QED
    BY <2>1, <2>2, <2>3 DEF LinkOK, OwnEntries, Own, ApprovalEntries, ToolEntries, RetrievalEntries
<1>5. \A h \in Handlers \ Approvals : AtRest(h)
  BY <1>1 DEF AtRest
<1>6. ApprovalTypeOK' /\ AnswersOK'
  <2>1. channel' \in [Approvals -> {"unused", "open", "closed"} \cup Decisions]
    BY <1>1, <1>2
  <2>2. pending' \in [Gateways -> SUBSET Approvals]
    BY <1>1, <1>2
  <2>3. \A a \in Approvals : pc'[a] \in {pc[a], "gone"}
    BY <1>1, ApprovalsAssumption
  <2>. QED
    BY <1>1, <1>4, <2>1, <2>2, <2>3 DEF GateOK, ApprovalTypeOK, AnswersOK, LinkOK, Ended
<1>7. ASSUME NEW a \in Approvals
      PROVE  ApprovalAt(a)' /\ EvidenceAt(a)'
  <2>1. ApprovalAt(a) /\ EvidenceAt(a)
    BY DEF GateOK
  <2>2. pending'[g] = {} /\ \A h \in Gateways \ {g} : pending'[h] = pending[h]
    BY <1>1, <1>2
  <2>3. a \in pending[g] => channel[a] = "open"
    BY <2>1 DEF ApprovalAt
  <2>4. channel'[a] = IF a \in pending[g] THEN "closed" ELSE channel[a]
    BY <1>1
  <2>5. \A h \in Gateways : a \in pending'[h] => h = home[a] /\ channel'[a] = "open"
    BY <2>1, <2>2, <2>4 DEF ApprovalAt
  <2>6. pc'[a] \in {pc[a], "gone"}
    BY <1>1, ApprovalsAssumption
  <2>7. pc'[a] \in {"recording", "evidencing"} => channel'[a] \in Decisions
    BY <2>1, <2>3, <2>4, <2>6 DEF ApprovalAt, Decisions
  <2>. QED
    BY <1>1, <2>1, <2>5, <2>7, GateKept
<1>. QED
  BY <1>1, <1>4, <1>5, <1>6, <1>7 DEF GateOK

\* The ledger commits what a request has sent.
LEMMA GateGains ==
  ASSUME LinkTypeOK, NEW a \in Approvals, NEW e \in Entries, Gains(a, e), UNCHANGED approvalVars,
         ApprovalAt(a), EvidenceAt(a)
  PROVE  ApprovalAt(a)' /\ EvidenceAt(a)'
<1>1. a \in Handlers /\ UNCHANGED <<home, pending, channel, answers>>
  BY ApprovalsAssumption DEF approvalVars
<1>2. /\ Len(ledger[a]) \in Nat /\ Len(ledger'[a]) = Len(ledger[a]) + 1
      /\ ledger'[a][Len(ledger[a]) + 1] = e
      /\ \A i \in 1 .. Len(ledger[a]) : ledger'[a][i] = ledger[a][i]
      /\ \A f : Committed(a, f)' <=> Committed(a, f) \/ f = e
  BY <1>1, GainsSent
<1>3. /\ pc'[a] = pc[a] /\ <<a, e>> \in calls
      /\ \A f : <<a, f>> \in calls' => <<a, f>> \in calls
  BY DEF Gains
<1>4. ApprovalAt(a)'
  BY <1>1, <1>2, <1>3 DEF ApprovalAt, Event, Evidence
<1>5. EvidenceAt(a)'
  <2>1. SUFFICES ASSUME NEW s \in Decisions, NEW i \in 1 .. Len(ledger'[a]), ledger'[a][i] = Evidence(s)
                 PROVE  \E j \in 1 .. i - 1 : ledger'[a][j] = Event(s)
    BY DEF EvidenceAt, Event, Evidence
  <2>2. CASE i \in 1 .. Len(ledger[a])
    <3>1. \A j \in 1 .. i : ledger'[a][j] = ledger[a][j]
      BY <1>2, <2>2
    <3>. QED
      BY <2>1, <2>2, <3>1 DEF EvidenceAt
  <2>3. CASE i = Len(ledger[a]) + 1
    <3>1. Committed(a, Event(s))
      BY <1>2, <1>3, <2>1, <2>3 DEF ApprovalAt
    <3>2. PICK j \in 1 .. Len(ledger[a]) : ledger[a][j] = Event(s)
      BY <1>1, <3>1, CommittedIsAt
    <3>. QED
      BY <1>2, <2>3, <3>2
  <2>. QED
    BY <1>2, <2>2, <2>3
<1>. QED
  BY <1>4, <1>5


-----------------------------------------------------------------------------
(* The steps of a tool call, as one *)

LEMMA OwnTool ==
  ASSUME NEW t \in ToolCalls, OwnEntries
  PROVE  t \in Handlers /\ \A e : Sent(t, e) => e \in ToolEntries
<1>1. t \in Handlers /\ t \notin Approvals /\ t \notin Retrievals
  BY ToolCallsAssumption, RoutesAssumption
<1>. QED
  BY <1>1 DEF OwnEntries, Own

\* What a tool call sends, and where it goes with it.
LEMMA ToolMoves ==
  ASSUME ToolsOK, NEW t \in ToolCalls,
         UnknownTool(t) \/ Accept(t) \/ ProxyStep(t) \/ CallerHangsUp(t)
  PROVE  \E next \in ToolActive \cup Ended : \E e \in ToolEntries : Goes(t, next, e)
<1>1. /\ Entry("run") \in ToolEntries /\ Entry("binding") \in ToolEntries /\ Call \in ToolEntries
      /\ Invocation \in ToolEntries /\ \A s \in Statuses : Outcome(s) \in ToolEntries
  BY DEF ToolEntries
<1>2. \A i \in 1 .. MaxEffects[t], linked \in BOOLEAN : Effect(i, linked) \in ToolEntries
  BY DEF ToolEntries
<1>3. CASE Accept(t)
  <2>1. Goes(t, "ready", Call) \/ Goes(t, "minting", Entry("run"))
    BY <1>3 DEF Accept, ResolveRun, Goes
  <2>. QED
    BY <1>1, <2>1 DEF ToolActive
<1>4. CASE ResolveStep(t)
  <2>1. Goes(t, "ready", Call) \/ Goes(t, "stamping", Entry("binding")) \/ Goes(t, "failed", Call)
    BY <1>4 DEF ResolveStep, RunMinted, Err, StampingDone, Goes
  <2>. QED
    BY <1>1, <2>1 DEF ToolActive, Ended
<1>5. CASE RecordCall(t)
  <2>1. Goes(t, "calling", Call)
    BY <1>5 DEF RecordCall, Goes
  <2>. QED
    BY <1>1, <2>1 DEF ToolActive
<1>6. CASE UnknownTool(t) \/ Forward(t) \/ BackendErr(t) \/ ProxyFails(t) \/ CallerHangsUp(t)
  <2>1. Goes(t, "forwarding", Call) \/ Goes(t, "failed", Call) \/ Goes(t, "gone", Call)
    BY <1>6 DEF UnknownTool, Forward, BackendErr, ProxyFails, CallerHangsUp, Err, Goes
  <2>. QED
    BY <1>1, <2>1 DEF ToolActive, Ended
<1>7. CASE RecordOutcome(t)
  <2>1. Goes(t, "logging", Outcome(backend[t])) /\ backend[t] \in Statuses
    BY <1>7 DEF RecordOutcome, Goes
  <2>. QED
    BY <1>1, <2>1 DEF ToolActive
<1>8. CASE RecordInvocation(t)
  <2>1. Goes(t, "mirroring", Invocation)
    BY <1>8 DEF RecordInvocation, Goes
  <2>. QED
    BY <1>1, <2>1 DEF ToolActive
<1>9. CASE InvocationDone(t) \/ EffectDone(t)
  <2>1. /\ item[t] \in Nat /\ effects[t] \in Nat /\ effects[t] <= MaxEffects[t] /\ MaxEffects[t] \in Nat
        /\ invocation[t] \in BOOLEAN
    BY EffectsAssumption DEF ToolsOK, ToolTypeOK
  <2>2. \E i \in Nat \ {0}, linked \in BOOLEAN : NextEffect(t, i, linked)
    <3>1. CASE InvocationDone(t)
      <4>1. PICK linked \in {FALSE, Committed(t, Invocation)} : NextEffect(t, 1, linked)
        BY <3>1 DEF InvocationDone
      <4>2. Committed(t, Invocation) \in BOOLEAN
        BY DEF Committed
      <4>3. linked \in BOOLEAN
        BY <4>1, <4>2, Zenon
      <4>. QED
        BY <4>1, <4>3
    <3>2. CASE EffectDone(t)
      <4>1. NextEffect(t, item[t] + 1, invocation[t])
        BY <3>2 DEF EffectDone
      <4>. QED
        BY <2>1, <4>1
    <3>. QED
      BY <1>9, <3>1, <3>2
  <2>3. PICK i \in Nat \ {0}, linked \in BOOLEAN : NextEffect(t, i, linked)
    BY <2>2
  <2>4. \/ i <= effects[t] /\ Goes(t, "confirming", Effect(i, linked))
        \/ Goes(t, "replied", Call)
    BY <2>3 DEF NextEffect, Goes
  <2>5. i <= effects[t] => i \in 1 .. MaxEffects[t]
    BY <2>1
  <2>. QED
    BY <1>1, <1>2, <2>4, <2>5 DEF ToolActive, Ended
<1>. QED
  BY <1>3, <1>4, <1>5, <1>6, <1>7, <1>8, <1>9 DEF ProxyStep

LEMMA OtherTool ==
  ASSUME NEW u \in ToolCalls, ToolAt(u), AtRest(u), u \in forwarded' => u \in forwarded,
         backend'[u] = backend[u], effects'[u] = effects[u],
         invocation'[u] = invocation[u], item'[u] = item[u]
  PROVE  ToolAt(u)'
<1>1. pc'[u] = pc[u] /\ ledger'[u] = ledger[u] /\ \A e : <<u, e>> \in calls' => <<u, e>> \in calls
  BY DEF AtRest
<1>2. \A e : Sent(u, e)' => Sent(u, e)
  BY AtRestSent
<1>. QED
  BY <1>1, <1>2, ToolKept

LEMMA ToolKeepsTools ==
  ASSUME LinkOK, ToolsOK, NEW t \in ToolCalls,
         UnknownTool(t) \/ Accept(t) \/ ProxyStep(t) \/ CallerHangsUp(t)
  PROVE  Alone(t) /\ ToolsOK'
<1>1. PICK next \in ToolActive \cup Ended, e \in ToolEntries : Goes(t, next, e)
  BY ToolMoves
<1>2. t \in Handlers /\ next \in States /\ Own(t, e)
  BY ToolCallsAssumption DEF States, Own
<1>3. Alone(t) /\ LinkTypeOK' /\ pc'[t] = next
  BY <1>1, <1>2, GoesAlone
<1>4. PcOK /\ ToolTypeOK /\ \A u \in ToolCalls : ToolAt(u)
  BY DEF LinkOK, ToolsOK
<1>5. /\ forwarded \subseteq ToolCalls /\ backend \in [ToolCalls -> {"unseen"} \cup Statuses]
      /\ effects \in [ToolCalls -> Nat] /\ invocation \in [ToolCalls -> BOOLEAN]
      /\ item \in [ToolCalls -> Nat]
      /\ \A u \in ToolCalls : item[u] <= effects[u] /\ effects[u] <= MaxEffects[u]
  BY <1>4 DEF ToolTypeOK
<1>6. /\ ToolAt(t)' /\ UNCHANGED <<backend, effects>> /\ forwarded' \subseteq forwarded \cup {t}
      /\ invocation' \in [ToolCalls -> BOOLEAN] /\ item' \in [ToolCalls -> Nat]
      /\ item'[t] <= effects[t]
      /\ \A u \in ToolCalls \ {t} : item'[u] = item[u] /\ invocation'[u] = invocation[u]
  <2>1. CASE \/ UnknownTool(t) \/ Accept(t) \/ (ResolveStep(t) /\ UNCHANGED toolVars) \/ RecordCall(t)
             \/ BackendErr(t) \/ ProxyFails(t) \/ CallerHangsUp(t)
    <3>1. ToolAt(t)'
      BY <1>4, <2>1, ToolComesAndGoes
    <3>2. UNCHANGED toolVars
      BY <2>1 DEF UnknownTool, Accept, RecordCall, BackendErr, ProxyFails, CallerHangsUp
    <3>3. UNCHANGED <<forwarded, backend, effects, invocation, item>>
      BY <3>2 DEF toolVars
    <3>. QED
      BY <1>5, <3>1, <3>3
  <2>2. CASE Forward(t)
    <3>1. ToolAt(t)'
      BY <1>4, <2>2, ToolForwards
    <3>2. UNCHANGED <<backend, effects, invocation, item>> /\ forwarded' = forwarded \cup {t}
      BY <2>2 DEF Forward
    <3>. QED
      BY <1>5, <3>1, <3>2
  <2>3. CASE RecordOutcome(t) \/ RecordInvocation(t)
    <3>1. ToolAt(t)'
      BY <1>4, <2>3, ToolRecords
    <3>2. UNCHANGED <<forwarded, backend, effects, invocation, item>>
      BY <2>3 DEF RecordOutcome, RecordInvocation, toolVars
    <3>. QED
      BY <1>5, <3>1, <3>2
  <2>4. CASE InvocationDone(t) \/ EffectDone(t)
    <3>1. UNCHANGED <<forwarded, backend, effects>>
      BY <2>4 DEF InvocationDone, EffectDone
    <3>. QED
      BY <1>4, <2>4, <3>1, ToolMirrors
  <2>. QED
    BY <2>1, <2>2, <2>3, <2>4 DEF ProxyStep
<1>7. \A u \in ToolCalls \ {t} : AtRest(u)
  BY <1>3, ToolCallsAssumption DEF Alone
<1>8. \A u \in ToolCalls : ToolAt(u)'
  <2> TAKE u \in ToolCalls
  <2>1. CASE u # t
    BY <1>4, <1>6, <1>7, <2>1, OtherTool
  <2>. QED
    BY <1>6, <2>1
<1>9. ToolTypeOK'
  <2>1. \A u \in ToolCalls : pc'[u] \in {"idle"} \cup ToolActive \cup Ended
    BY <1>1, <1>3, <1>4, <1>7 DEF ToolTypeOK, AtRest
  <2>2. \A u \in ToolCalls : item'[u] <= effects'[u] /\ effects'[u] <= MaxEffects[u]
    BY <1>5, <1>6
  <2>3. forwarded' \subseteq ToolCalls
    BY <1>5, <1>6
  <2>. QED
    BY <1>3, <1>5, <1>6, <2>1, <2>2, <2>3 DEF ToolTypeOK
<1>. QED
  BY <1>3, <1>8, <1>9 DEF ToolsOK

LEMMA BackendKeepsTools ==
  ASSUME LinkOK, ToolsOK, NEW t \in ToolCalls, BackendStep(t)
  PROVE  ToolsOK' /\ UNCHANGED linkVars
<1>1. ToolTypeOK /\ \A u \in ToolCalls : ToolAt(u)
  BY DEF ToolsOK
<1>2. ToolAt(t)'
  BY <1>1, OwnTool, ToolIsRun DEF LinkOK
<1>3. /\ UNCHANGED linkVars /\ UNCHANGED <<invocation, item>> /\ forwarded' = forwarded \ {t}
  BY DEF BackendStep, BackendRuns, RequestLost
<1>4. /\ backend' \in [ToolCalls -> {"unseen"} \cup Statuses]
      /\ effects' \in [ToolCalls -> Nat]
      /\ \A u \in ToolCalls \ {t} : backend'[u] = backend[u] /\ effects'[u] = effects[u]
      /\ effects'[t] = effects[t] \/ effects'[t] \in 0 .. MaxEffects[t]
  <2>1. CASE RequestLost(t)
    BY <1>1, <2>1 DEF RequestLost, ToolTypeOK
  <2>2. CASE BackendRuns(t)
    <3>1. PICK s \in Statuses : backend' = [backend EXCEPT ![t] = s]
      BY <2>2 DEF BackendRuns
    <3>2. PICK n \in 0 .. MaxEffects[t] : effects' = [effects EXCEPT ![t] = n]
      BY <2>2 DEF BackendRuns
    <3>3. n \in Nat
      BY <3>2, EffectsAssumption
    <3>. QED
      BY <1>1, <3>1, <3>2, <3>3 DEF ToolTypeOK
  <2>. QED
    BY <2>1, <2>2 DEF BackendStep
<1>5. t \in forwarded /\ item[t] = 0
  BY <1>1 DEF BackendStep, BackendRuns, RequestLost, ToolAt, CallAt, MirrorAt
<1>6. ASSUME NEW u \in ToolCalls
      PROVE  ToolAt(u)'
  <2>1. CASE u # t
    BY <1>1, <1>3, <1>4, <2>1, NothingMoves, OtherTool
  <2>. QED
    BY <1>2, <2>1
<1>7. ToolTypeOK'
  <2>1. \A u \in ToolCalls : item'[u] <= effects'[u] /\ effects'[u] <= MaxEffects[u]
    <3> TAKE u \in ToolCalls
    <3>1. item[u] \in Nat /\ effects[u] \in Nat /\ MaxEffects[u] \in Nat
          /\ item[u] <= effects[u] /\ effects[u] <= MaxEffects[u]
      BY <1>1, EffectsAssumption DEF ToolTypeOK
    <3>. QED
      BY <1>3, <1>4, <1>5, <3>1
  <2>. QED
    BY <1>1, <1>3, <1>4, <2>1 DEF ToolTypeOK, linkVars, LinkTypeOK
<1>. QED
  BY <1>3, <1>6, <1>7 DEF ToolsOK


-----------------------------------------------------------------------------
(* The steps of a retrieval, as one *)

LEMMA OwnRetrieval ==
  ASSUME NEW q \in Retrievals, OwnEntries
  PROVE  q \in Handlers /\ \A e : Sent(q, e) => e \in RetrievalEntries
<1>1. q \in Handlers /\ q \notin Approvals /\ q \notin ToolCalls
  BY RetrievalsAssumption, RoutesAssumption
<1>. QED
  BY <1>1 DEF OwnEntries, Own

LEMMA RetrievalMoves ==
  ASSUME RetrievalsOK, NEW q \in Retrievals,
         NoBackend(q) \/ AcceptQuery(q) \/ RetrievalStep(q) \/ QuerierHangsUp(q)
  PROVE  \E next \in RetrievalActive \cup Ended : \E e \in RetrievalEntries : Goes(q, next, e)
<1>1. /\ Entry("run") \in RetrievalEntries /\ Entry("binding") \in RetrievalEntries
      /\ Query \in RetrievalEntries /\ Result \in RetrievalEntries /\ QueryError \in RetrievalEntries
      /\ \A i \in 1 .. MaxDocs : Artifact(i) \in RetrievalEntries
  BY DEF RetrievalEntries
<1>2. CASE AcceptQuery(q)
  <2>1. Goes(q, "ready", Query) \/ Goes(q, "minting", Entry("run"))
    BY <1>2 DEF AcceptQuery, ResolveRun, Goes
  <2>. QED
    BY <1>1, <2>1 DEF RetrievalActive
<1>3. CASE ResolveStep(q)
  <2>1. Goes(q, "ready", Query) \/ Goes(q, "stamping", Entry("binding")) \/ Goes(q, "failed", Query)
    BY <1>3 DEF ResolveStep, RunMinted, Err, StampingDone, Goes
  <2>. QED
    BY <1>1, <2>1 DEF RetrievalActive, Ended
<1>4. CASE RecordQuery(q) \/ FetchedError(q)
  <2>1. Goes(q, "querying", Query) \/ Goes(q, "erring", QueryError)
    BY <1>4 DEF RecordQuery, FetchedError, Goes
  <2>. QED
    BY <1>1, <2>1 DEF RetrievalActive
<1>5. CASE NoBackend(q) \/ Ask(q) \/ FetchFails(q) \/ ReplyQuery(q) \/ RetrievalFails(q) \/ QuerierHangsUp(q)
  <2>1. \E next \in {"fetching"} \cup Ended : Goes(q, next, Query)
    BY <1>5 DEF NoBackend, Ask, FetchFails, ReplyQuery, RetrievalFails, QuerierHangsUp, Err, Goes, Ended
  <2>. QED
    BY <1>1, <2>1 DEF RetrievalActive
<1>6. CASE Fetched(q) \/ Uploaded(q)
  <2>1. doc[q] \in Nat /\ Len(docs[q]) \in Nat /\ Len(docs[q]) <= MaxDocs /\ MaxDocs \in Nat
    <3>1. docs[q] \in Seq(Contents) /\ doc[q] \in 0 .. Len(docs[q]) /\ Len(docs[q]) <= MaxDocs
      BY DEF RetrievalsOK, RetrievalTypeOK
    <3>. QED
      BY <3>1, DocsAssumption
  <2>2. PICK i \in Nat \ {0} : NextDoc(q, i)
    BY <1>6, <2>1 DEF Fetched, Uploaded
  <2>3. \/ i <= Len(docs[q]) /\ Goes(q, "uploading", Artifact(i))
        \/ Goes(q, "concluding", Result)
    BY <2>2 DEF NextDoc, Goes
  <2>4. i <= Len(docs[q]) => i \in 1 .. MaxDocs
    BY <2>1
  <2>. QED
    BY <1>1, <2>3, <2>4 DEF RetrievalActive
<1>. QED
  BY <1>2, <1>3, <1>4, <1>5, <1>6 DEF RetrievalStep

LEMMA RetrievalKeepsRetrievals ==
  ASSUME LinkOK, RetrievalsOK, NEW q \in Retrievals,
         NoBackend(q) \/ AcceptQuery(q) \/ RetrievalStep(q) \/ QuerierHangsUp(q)
  PROVE  Alone(q) /\ RetrievalsOK'
<1>1. PICK next \in RetrievalActive \cup Ended, e \in RetrievalEntries : Goes(q, next, e)
  BY RetrievalMoves
<1>2. q \in Handlers /\ next \in States /\ Own(q, e)
  BY RetrievalsAssumption DEF States, Own
<1>3. Alone(q) /\ LinkTypeOK' /\ pc'[q] = next
  BY <1>1, <1>2, GoesAlone
<1>4. PcOK /\ DocOK /\ RetrievalTypeOK /\ \A p \in Retrievals : RetrievalAt(p)
  BY DEF LinkOK, RetrievalsOK
<1>5. calls \subseteq calls'
  BY <1>3 DEF Alone
<1>6. /\ RetrievalAt(q)' /\ UNCHANGED <<answer, docs, stored, blobs>> /\ asked' \subseteq asked \cup {q}
      /\ doc' \in [Retrievals -> Nat] /\ doc'[q] \in 0 .. Len(docs[q])
      /\ \A p \in Retrievals \ {q} : doc'[p] = doc[p]
  <2>1. CASE \/ NoBackend(q) \/ AcceptQuery(q) \/ (ResolveStep(q) /\ UNCHANGED retrievalVars)
             \/ RecordQuery(q) \/ FetchFails(q) \/ RetrievalFails(q) \/ QuerierHangsUp(q)
    <3>1. RetrievalAt(q)'
      BY <1>4, <2>1, QueryComesAndGoes
    <3>2. UNCHANGED retrievalVars
      BY <2>1 DEF NoBackend, AcceptQuery, RecordQuery, FetchFails, RetrievalFails, QuerierHangsUp
    <3>3. UNCHANGED <<asked, answer, docs, doc, stored, blobs>>
      BY <3>2 DEF retrievalVars
    <3>. QED
      BY <1>4, <3>1, <3>3 DEF DocOK, RetrievalTypeOK
  <2>2. CASE Ask(q) \/ ReplyQuery(q)
    <3>1. RetrievalAt(q)'
      BY <1>4, <2>2, QueryAsks
    <3>2. UNCHANGED <<answer, docs, doc, stored, blobs>> /\ asked' \subseteq asked \cup {q}
      BY <2>2 DEF Ask, ReplyQuery, retrievalVars
    <3>. QED
      BY <1>4, <3>1, <3>2 DEF DocOK, RetrievalTypeOK
  <2>3. CASE FetchedError(q)
    <3>1. RetrievalAt(q)'
      BY <1>4, <2>3, QueryErrs
    <3>2. UNCHANGED <<asked, answer, docs, doc, stored, blobs>>
      BY <2>3 DEF FetchedError, retrievalVars
    <3>. QED
      BY <1>4, <3>1, <3>2 DEF DocOK, RetrievalTypeOK
  <2>4. CASE Fetched(q) \/ Uploaded(q)
    <3>1. UNCHANGED <<asked, answer, docs, stored, blobs>>
      BY <2>4 DEF Fetched, Uploaded
    <3>. QED
      BY <1>4, <2>4, <3>1, QueryUploads
  <2>. QED
    BY <2>1, <2>2, <2>3, <2>4 DEF RetrievalStep
<1>7. \A p \in Retrievals \ {q} : AtRest(p)
  BY <1>3, RetrievalsAssumption DEF Alone
<1>8. \A p \in Retrievals : RetrievalAt(p)'
  <2> TAKE p \in Retrievals
  <2>1. CASE p # q
    BY <1>4, <1>6, <1>7, <2>1, RetrievalRests
  <2>. QED
    BY <1>6, <2>1
<1>9. RetrievalTypeOK' /\ DocOK'
  <2>1. \A p \in Retrievals : pc'[p] \in {"idle"} \cup RetrievalActive \cup Ended
    BY <1>1, <1>3, <1>4, <1>7 DEF RetrievalTypeOK, AtRest
  <2>2. \A p \in Retrievals : doc'[p] \in 0 .. Len(docs'[p]) /\ Len(docs'[p]) <= MaxDocs
    BY <1>4, <1>6 DEF RetrievalTypeOK
  <2>3. stored' \subseteq calls' /\ asked' \subseteq Retrievals
    BY <1>4, <1>5, <1>6 DEF RetrievalTypeOK
  <2>. QED
    BY <1>3, <1>4, <1>6, <2>1, <2>2, <2>3 DEF RetrievalTypeOK, DocOK
<1>. QED
  BY <1>3, <1>8, <1>9 DEF RetrievalsOK

LEMMA BackendKeepsRetrievals ==
  ASSUME LinkOK, RetrievalsOK, NEW q \in Retrievals, RetrievalBackendStep(q)
  PROVE  RetrievalsOK' /\ UNCHANGED linkVars
<1>1. DocOK /\ RetrievalTypeOK /\ \A p \in Retrievals : RetrievalAt(p)
  BY DEF RetrievalsOK
<1>2. RetrievalAt(q)'
  BY <1>1, OwnRetrieval, QueryIsAnswered DEF LinkOK
<1>3. /\ UNCHANGED linkVars /\ UNCHANGED <<doc, stored, blobs>> /\ asked' = asked \ {q} /\ q \in asked
  BY DEF RetrievalBackendStep, BackendAnswers, QueryLost
<1>4. /\ answer' \in [Retrievals -> {"unseen"} \cup Answers]
      /\ docs' \in [Retrievals -> Seq(Contents)] /\ Len(docs'[q]) <= MaxDocs
      /\ \A p \in Retrievals \ {q} : answer'[p] = answer[p] /\ docs'[p] = docs[p]
  <2>1. CASE QueryLost(q)
    BY <1>1, <2>1 DEF QueryLost, RetrievalTypeOK
  <2>2. CASE BackendAnswers(q)
    <3>1. PICK a \in Answers : answer' = [answer EXCEPT ![q] = a]
      BY <2>2 DEF BackendAnswers
    <3>n. PICK n \in 0 .. MaxDocs : \E ds \in [1 .. n -> Contents] :
            docs' = [docs EXCEPT ![q] = IF answer'[q] = "docs" THEN ds ELSE <<>>]
      BY <2>2 DEF BackendAnswers
    <3>2. PICK ds \in [1 .. n -> Contents] :
            docs' = [docs EXCEPT ![q] = IF answer'[q] = "docs" THEN ds ELSE <<>>]
      BY <3>n
    <3>3. n \in Nat /\ n <= MaxDocs /\ MaxDocs \in Nat
      BY DocsAssumption
    <3>4. ds \in Seq(Contents) /\ Len(ds) = n
      BY <3>3
    <3>5. PICK shelf : /\ shelf \in Seq(Contents) /\ Len(shelf) <= MaxDocs
                       /\ docs' = [docs EXCEPT ![q] = shelf]
      <4>1. CASE answer'[q] = "docs"
        BY <3>2, <3>3, <3>4, <4>1
      <4>2. CASE answer'[q] # "docs"
        <5>1. <<>> \in Seq(Contents) /\ Len(<<>>) <= MaxDocs
          BY <3>3
        <5>2. docs' = [docs EXCEPT ![q] = <<>>]
          BY <3>2, <4>2
        <5>. QED
          BY <5>1, <5>2
      <4>. QED
        BY <4>1, <4>2
    <3>. QED
      BY <1>1, <3>1, <3>5 DEF RetrievalTypeOK
  <2>. QED
    BY <2>1, <2>2 DEF RetrievalBackendStep
<1>5. doc[q] = 0
  BY <1>1, <1>3 DEF RetrievalAt, QueryAt, DocsAt
<1>6. ASSUME NEW p \in Retrievals
      PROVE  RetrievalAt(p)'
  <2>1. CASE p # q
    BY <1>1, <1>3, <1>4, <2>1, NothingMoves, RetrievalRests
  <2>. QED
    BY <1>2, <2>1
<1>7. RetrievalTypeOK' /\ DocOK'
  <2>1. \A p \in Retrievals : doc'[p] \in 0 .. Len(docs'[p]) /\ Len(docs'[p]) <= MaxDocs
    <3> TAKE p \in Retrievals
    <3>1. doc[p] \in 0 .. Len(docs[p]) /\ Len(docs[p]) <= MaxDocs /\ Len(docs'[q]) \in Nat
      BY <1>1, <1>4 DEF RetrievalTypeOK
    <3>. QED
      BY <1>3, <1>4, <1>5, <3>1
  <2>. QED
    BY <1>1, <1>3, <1>4, <2>1 DEF RetrievalTypeOK, DocOK, linkVars, LinkTypeOK
<1>. QED
  BY <1>3, <1>6, <1>7 DEF RetrievalsOK


-----------------------------------------------------------------------------
(* The steps of the reader and of the ledger *)

LEMMA ReaderReads ==
  ASSUME LinkOK, ReaderOK, DossierNext
  PROVE  ReaderOK' /\ UNCHANGED linkVars
<1>. USE DEF ReaderOK
<1>1. UNCHANGED linkVars /\ UNCHANGED <<pc, calls, ledger>>
  BY DEF DossierNext, AskDossier, ReadSection, linkVars
<1>2. Len(Sections) = 9
  BY DEF Sections
<1>3. CASE \E h \in Handlers : AskDossier(h)
  <2>1. PICK h \in Handlers : AskDossier(h)
    BY <1>3
  <2>2. /\ subject' = h /\ begun' = Len(ledger[h]) /\ section' = 0 /\ shown' = {}
        /\ ledger[h] \in Seq(Entries)
    BY <2>1 DEF AskDossier, DossierInv, LinkOK, LinkTypeOK
  <2>3. DossierTypeOK'
    BY <1>1, <1>2, <2>2 DEF DossierTypeOK
  <2>4. DossierInv'
    BY <2>2 DEF DossierInv
  <2>. QED
    BY <1>1, <2>3, <2>4
<1>4. CASE ReadSection
  <2>1. PICK h \in Handlers : h = subject /\ h = subject' /\ h # None
    BY <1>4 DEF ReadSection, DossierTypeOK
  <2>2. PICK L : L = ledger[h] /\ L = ledger'[h]
    BY <1>1
  <2>3. /\ section \in Nat /\ section < 9 /\ section' = section + 1 /\ begun' = begun
        /\ shown' = shown \cup Select(Sections[section + 1], ToSet(L))
    BY <1>2, <1>4, <2>1, <2>2 DEF ReadSection, DossierTypeOK
  <2>4. L \in Seq(Entries) /\ begun \in 0 .. Len(L)
    BY <2>1, <2>2 DEF LinkOK, LinkTypeOK, DossierTypeOK
  <2>5. DOMAIN L = 1 .. Len(L)
    BY <2>4
  <2>6. ToSet(L) \subseteq Entries /\ \A i \in 1 .. begun : L[i] \in ToSet(L)
    BY <2>4, <2>5 DEF ToSet
  <2>7. shown' \subseteq ToSet(L) /\ shown' \subseteq Entries
    BY <2>1, <2>2, <2>3, <2>6 DEF Select, DossierInv
  <2>8. DossierTypeOK'
    BY <1>2, <2>1, <2>2, <2>3, <2>4, <2>7 DEF DossierTypeOK
  <2>9. \A i \in 1 .. begun, k \in 1 .. section + 1 : Table(L[i]) = Sections[k] => L[i] \in shown'
    <3> TAKE i \in 1 .. begun, k \in 1 .. section + 1
    <3>1. CASE k = section + 1
      BY <2>3, <2>6, <3>1 DEF Select
    <3>2. CASE k # section + 1
      <4>1. k \in 1 .. section
        BY <2>3, <3>2
      <4>. QED
        BY <2>1, <2>2, <2>3, <4>1 DEF DossierInv
    <3>. QED
      BY <3>1, <3>2
  <2>10. DossierInv'
    BY <2>1, <2>2, <2>3, <2>7, <2>9 DEF DossierInv, Table, Sections
  <2>. QED
    BY <1>1, <2>8, <2>10
<1>. QED
  BY <1>3, <1>4 DEF DossierNext

\* An upload is of a document its retrieval has.
LEMMA UploadsAreDocuments ==
  ASSUME LinkOK, RetrievalsOK, NEW c \in calls, IsUpload(c)
  PROVE  /\ c[1] \in Retrievals /\ c[2].item \in 1 .. Len(docs[c[1]])
         /\ docs[c[1]][c[2].item] \in Contents
<1>1. PICK h \in Handlers, e \in Entries : c = <<h, e>> /\ e.kind = "artifact"
  BY DEF LinkOK, LinkTypeOK, IsUpload
<1>2. e \notin ApprovalEntries /\ e \notin ToolEntries
  BY <1>1 DEF ApprovalEntries, ToolEntries, Entry, Asked, Event, Evidence, Call, Invocation, Outcome, Effect
<1>3. h \in Retrievals /\ e \in RetrievalEntries
  BY <1>1, <1>2 DEF LinkOK, OwnEntries, Own, Sent
<1>4. PICK i \in 1 .. MaxDocs : e = Artifact(i)
  BY <1>1, <1>3, RetrievalEntriesDiffer DEF RetrievalEntries
<1>5. Sent(h, Artifact(i)) /\ RetrievalAt(h)
  BY <1>1, <1>3, <1>4 DEF Sent, RetrievalsOK
<1>6. i <= doc[h]
  BY <1>5 DEF RetrievalAt, DocsAt
<1>7. doc[h] \in 0 .. Len(docs[h]) /\ docs[h] \in Seq(Contents)
  BY <1>3 DEF RetrievalsOK, RetrievalTypeOK
<1>8. i \in 1 .. Len(docs[h]) /\ docs[h][i] \in Contents
  BY <1>6, <1>7, DocsAssumption
<1>. QED
  BY <1>1, <1>3, <1>4, <1>8, RetrievalEntriesDiffer

LEMMA PutKeepsRetrievals ==
  ASSUME LinkOK, RetrievalsOK, NEW c \in calls, PutBlob(c)
  PROVE  RetrievalsOK' /\ UNCHANGED linkVars
<1>1. DocOK /\ RetrievalTypeOK /\ \A q \in Retrievals : RetrievalAt(q)
  BY DEF RetrievalsOK
<1>2. /\ UNCHANGED linkVars /\ UNCHANGED <<pc, calls, ledger>> /\ UNCHANGED <<asked, answer, docs, doc>>
      /\ stored' = stored \cup {c} /\ blobs' = blobs \cup {docs[c[1]][c[2].item]} /\ IsUpload(c)
  BY DEF PutBlob, linkVars
<1>3. docs[c[1]][c[2].item] \in Contents
  BY <1>2, UploadsAreDocuments
<1>4. RetrievalTypeOK' /\ DocOK'
  BY <1>1, <1>2, <1>3 DEF RetrievalTypeOK, DocOK, LinkTypeOK
<1>5. \A q \in Retrievals : RetrievalAt(q)'
  BY <1>1, BlobIsPut
<1>. QED
  BY <1>2, <1>4, <1>5 DEF RetrievalsOK

\* The components at the commit of what one of their handlers has sent.
LEMMA CommitKeeps ==
  ASSUME GatewayInv, NEW c \in calls, LedgerCommits(c), UploadReady(c), stored' = stored \ {c},
         UNCHANGED <<asked, answer, docs, doc, blobs>>, UNCHANGED <<approvalVars, toolVars, dossierVars>>
  PROVE  GatewayInv'
<1>. USE DEF GatewayInv
<1>1. PICK h \in Handlers, e \in Entries :
        c = <<h, e>> /\ Gains(h, e) /\ \A g \in Handlers \ {h} : AtRest(g)
  BY CommitGains DEF LinkOK
<1>2. LinkOK' /\ LinkTypeOK' /\ Own(h, e) /\ pc' = pc /\ calls' = calls \ {c}
  BY <1>1, LinkGains DEF LinkOK, LedgerCommits
<1>3. UNCHANGED approvalVars /\ UNCHANGED toolVars /\ UNCHANGED dossierVars
  OBVIOUS
<1>4. GateOK'
  <2>1. UNCHANGED <<home, pending, channel, answers>>
    BY <1>3 DEF approvalVars
  <2>2. ApprovalTypeOK' /\ AnswersOK'
    BY <1>2, <2>1 DEF GateOK, ApprovalTypeOK, AnswersOK
  <2>3. ASSUME NEW a \in Approvals
        PROVE  ApprovalAt(a)' /\ EvidenceAt(a)'
    <3>1. ApprovalAt(a) /\ EvidenceAt(a) /\ a \in Handlers
      BY ApprovalsAssumption DEF GateOK
    <3>2. CASE a = h
      BY <1>1, <1>3, <3>1, <3>2, GateGains DEF LinkOK
    <3>3. CASE a # h
      <4>1. pc'[a] = pc[a] /\ ledger'[a] = ledger[a] /\ \A f : <<a, f>> \in calls' => <<a, f>> \in calls
        BY <1>1, <3>1, <3>3 DEF AtRest
      <4>. QED
        BY <2>1, <3>1, <4>1, GateKept DEF ApprovalAt
    <3>. QED
      BY <3>2, <3>3
  <2>. QED
    BY <2>2, <2>3 DEF GateOK
<1>5. ToolsOK'
  <2>1. UNCHANGED <<forwarded, backend, effects, invocation, item>>
    BY <1>3 DEF toolVars
  <2>2. ToolTypeOK'
    BY <1>2, <2>1 DEF ToolsOK, ToolTypeOK
  <2>3. ASSUME NEW t \in ToolCalls
        PROVE  ToolAt(t)'
    <3>1. ToolAt(t) /\ ToolTypeOK /\ t \in Handlers
      BY ToolCallsAssumption DEF ToolsOK
    <3>2. CASE t = h
      <4>1. e \in ToolEntries
        BY <1>2, <3>2, RoutesAssumption DEF Own
      <4>. QED
        BY <1>1, <1>3, <3>1, <3>2, <4>1, ToolGains
    <3>3. CASE t # h
      BY <1>1, <2>1, <3>1, <3>3, OtherTool
    <3>. QED
      BY <3>2, <3>3
  <2>. QED
    BY <2>2, <2>3 DEF ToolsOK
<1>6. RetrievalsOK'
  <2>1. RetrievalTypeOK' /\ DocOK'
    BY <1>2 DEF RetrievalsOK, RetrievalTypeOK, DocOK
  <2>2. ASSUME NEW q \in Retrievals
        PROVE  RetrievalAt(q)'
    <3>1. RetrievalAt(q) /\ RetrievalTypeOK /\ q \in Handlers
      BY RetrievalsAssumption DEF RetrievalsOK
    <3>2. CASE q = h
      <4>1. e \in RetrievalEntries
        BY <1>2, <3>2, RoutesAssumption DEF Own
      <4>2. stored' \subseteq stored /\ UploadReady(<<q, e>>)
        BY <1>1, <3>2
      <4>. QED
        BY <1>1, <3>1, <3>2, <4>1, <4>2, RetrievalGains
    <3>3. CASE q # h
      BY <1>1, <3>1, <3>3, RetrievalRests
    <3>. QED
      BY <3>2, <3>3
  <2>. QED
    BY <2>1, <2>2 DEF RetrievalsOK
<1>7. ReaderOK'
  <2>1. \A g \in Handlers : ledger'[g] = ledger[g] \/ \E f \in Entries : Gains(g, f)
    BY <1>1 DEF AtRest
  <2>. QED
    BY <1>3, <2>1, DossierRests DEF ReaderOK, LinkOK
<1>. QED
  BY <1>2, <1>4, <1>5, <1>6, <1>7

\* Components whose handlers are at rest.
LEMMA ComponentsRest ==
  ASSUME GatewayInv, LinkOK'
  PROVE  /\ UNCHANGED approvalVars /\ (\A a \in Approvals : AtRest(a)) => GateOK'
         /\ UNCHANGED toolVars /\ (\A t \in ToolCalls : AtRest(t)) => ToolsOK'
         /\ UNCHANGED retrievalVars /\ stored \subseteq calls' /\ (\A q \in Retrievals : AtRest(q)) => RetrievalsOK'
         /\ UNCHANGED dossierVars /\ ledger' = ledger => ReaderOK'
<1>1. LinkTypeOK /\ LinkTypeOK'
  BY DEF GatewayInv, LinkOK
<1>2. UNCHANGED approvalVars /\ (\A a \in Approvals : AtRest(a)) => GateOK'
  BY <1>1, ApprovalsRest DEF GatewayInv, GateOK
<1>3. UNCHANGED toolVars /\ (\A t \in ToolCalls : AtRest(t)) => ToolsOK'
  BY <1>1, ToolsRest DEF GatewayInv, ToolsOK
<1>4. ASSUME UNCHANGED retrievalVars, stored \subseteq calls', \A q \in Retrievals : AtRest(q)
      PROVE  RetrievalsOK'
  <2>1. UNCHANGED <<asked, answer, docs, doc, blobs>> /\ stored' = stored
    BY <1>4 DEF retrievalVars
  <2>. QED
    BY <1>1, <1>4, <2>1, RetrievalsRest DEF GatewayInv, RetrievalsOK
<1>5. UNCHANGED dossierVars /\ ledger' = ledger => ReaderOK'
  BY <1>1, DossierRests DEF GatewayInv, ReaderOK
<1>. QED
  BY <1>2, <1>3, <1>4, <1>5


\* A step of one component, seen from the others.
LEMMA HandlerSteps ==
  ASSUME GatewayInv, NEW h \in Handlers, Alone(h)
  PROVE  /\ h \notin Approvals /\ UNCHANGED approvalVars => GateOK'
         /\ h \notin ToolCalls /\ UNCHANGED toolVars => ToolsOK'
         /\ h \notin Retrievals /\ UNCHANGED retrievalVars => RetrievalsOK'
         /\ UNCHANGED dossierVars => ReaderOK'
<1>1. LinkOK' /\ ledger' = ledger /\ calls \subseteq calls' /\ \A g \in Handlers \ {h} : AtRest(g)
  BY DEF Alone
<1>2. stored \subseteq calls'
  BY <1>1 DEF GatewayInv, RetrievalsOK, RetrievalTypeOK
<1>3. h \notin Approvals => \A a \in Approvals : AtRest(a)
  BY <1>1, ApprovalsAssumption
<1>4. h \notin ToolCalls => \A t \in ToolCalls : AtRest(t)
  BY <1>1, ToolCallsAssumption
<1>5. h \notin Retrievals => \A q \in Retrievals : AtRest(q)
  BY <1>1, RetrievalsAssumption
<1>. QED
  BY <1>1, <1>2, <1>3, <1>4, <1>5, ComponentsRest

LEMMA LinkRests ==
  ASSUME GatewayInv, UNCHANGED linkVars
  PROVE  /\ LinkOK'
         /\ UNCHANGED approvalVars => GateOK'
         /\ UNCHANGED toolVars => ToolsOK'
         /\ UNCHANGED retrievalVars => RetrievalsOK'
         /\ UNCHANGED dossierVars => ReaderOK'
<1>1. UNCHANGED <<pc, calls, ledger>>
  BY DEF linkVars
<1>2. LinkOK' /\ \A h : AtRest(h)
  BY <1>1, LinkShrinks DEF GatewayInv
<1>3. stored \subseteq calls'
  BY <1>1 DEF GatewayInv, RetrievalsOK, RetrievalTypeOK
<1>. QED
  BY <1>1, <1>2, <1>3, ComponentsRest

-----------------------------------------------------------------------------
(* The invariant *)

LEMMA GatewayInitInv == Init => GatewayInv
<1> SUFFICES ASSUME Init
             PROVE  GatewayInv
  OBVIOUS
<1>1. \A h \in Handlers : pc[h] = "idle" /\ ledger[h] = <<>> /\ \A e : ~ Sent(h, e) /\ ~ Committed(h, e)
  BY DEF Init, LinkInit, Sent, Committed, ToSet
<1>2. LinkOK
  BY <1>1 DEF Init, LinkInit, LinkOK, PcOK, States, LinkTypeOK, OwnEntries
<1>3. GateOK
  <2>1. ApprovalTypeOK /\ AnswersOK
    BY <1>1, <1>2, ApprovalsAssumption DEF Init, ApprovalInit, ApprovalTypeOK, AnswersOK, LinkOK
  <2>2. \A a \in Approvals : ApprovalAt(a) /\ EvidenceAt(a)
    BY <1>1, ApprovalsAssumption DEF Init, LinkInit, ApprovalInit, ApprovalAt, EvidenceAt
  <2>. QED
    BY <2>1, <2>2 DEF GateOK
<1>4. ToolsOK
  <2>1. ToolTypeOK
    BY <1>1, <1>2, ToolCallsAssumption, EffectsAssumption DEF Init, ToolInit, ToolTypeOK, LinkOK
  <2>2. ASSUME NEW t \in ToolCalls
        PROVE  ToolAt(t)
    <3>1. /\ pc[t] = "idle" /\ t \notin forwarded /\ backend[t] = "unseen" /\ item[t] = 0
          /\ invocation[t] = FALSE /\ \A e : ~ Sent(t, e) /\ <<t, e>> \notin calls
      BY <1>1, ToolCallsAssumption DEF Init, ToolInit, LinkInit
    <3>2. CallAt(t)
      BY <3>1 DEF CallAt, Statuses
    <3>3. MirrorAt(t)
      BY <3>1 DEF MirrorAt
    <3>4. RowsAt(t)
      BY <1>1, ToolCallsAssumption DEF RowsAt
    <3>. QED
      BY <3>2, <3>3, <3>4 DEF ToolAt
  <2>. QED
    BY <2>1, <2>2 DEF ToolsOK
<1>5. RetrievalsOK
  <2>1. RetrievalTypeOK /\ DocOK
    BY <1>1, <1>2, RetrievalsAssumption, DocsAssumption DEF Init, RetrievalInit, RetrievalTypeOK, DocOK, LinkOK
  <2>2. ASSUME NEW q \in Retrievals
        PROVE  RetrievalAt(q)
    <3>1. /\ pc[q] = "idle" /\ q \notin asked /\ answer[q] = "unseen" /\ doc[q] = 0 /\ stored = {}
          /\ \A e : ~ Sent(q, e) /\ ~ Committed(q, e) /\ <<q, e>> \notin calls
      BY <1>1, RetrievalsAssumption DEF Init, RetrievalInit, LinkInit
    <3>2. QueryAt(q)
      BY <3>1 DEF QueryAt, Answers
    <3>3. DocsAt(q)
      BY <3>1 DEF DocsAt
    <3>4. ResultAt(q) /\ BlobsAt(q)
      BY <1>1, <3>1, RetrievalsAssumption DEF ResultAt, BlobsAt
    <3>. QED
      BY <3>2, <3>3, <3>4 DEF RetrievalAt
  <2>. QED
    BY <2>1, <2>2 DEF RetrievalsOK
<1>6. ReaderOK
  BY DEF Init, DossierInit, ReaderOK, DossierTypeOK, DossierInv, Sections
<1>. QED
  BY <1>2, <1>3, <1>4, <1>5, <1>6 DEF GatewayInv

LEMMA GatewayNextInv == GatewayInv /\ [Next]_vars => GatewayInv'
<1> SUFFICES ASSUME GatewayInv, [Next]_vars
             PROVE  GatewayInv'
  OBVIOUS
<1>0. LinkOK /\ GateOK /\ ToolsOK /\ RetrievalsOK /\ ReaderOK
  BY DEF GatewayInv
<1>1. CASE UNCHANGED vars
  <2>1. /\ UNCHANGED linkVars /\ UNCHANGED approvalVars /\ UNCHANGED toolVars
        /\ UNCHANGED retrievalVars /\ UNCHANGED dossierVars
    BY <1>1 DEF vars
  <2>. QED
    BY <2>1, LinkRests DEF GatewayInv
<1>2. CASE ApprovalNext /\ InApproval
  <2>1. UNCHANGED toolVars /\ UNCHANGED retrievalVars /\ UNCHANGED dossierVars
    BY <1>2 DEF InApproval
  <2>2. ASSUME NEW a \in Approvals,
               (ResolveRun(a) /\ UNCHANGED approvalVars) \/ RequestStep(a) \/ RequesterHangsUp(a)
        PROVE  GatewayInv'
    <3>1. Alone(a) /\ GateOK' /\ LinkOK'
      BY <1>0, <2>2, RequestKeepsGate DEF Alone
    <3>2. a \in Handlers /\ a \notin ToolCalls /\ a \notin Retrievals
      BY ApprovalsAssumption, RoutesAssumption
    <3>. QED
      BY <2>1, <3>1, <3>2, HandlerSteps DEF GatewayInv
  <2>3. ASSUME NEW d \in Deciders, NEW g \in Gateways, NEW a \in Approvals,
               \/ DecideMalformed(d, g, a)
               \/ \E said \in Decisions : Decide(d, g, a, said)
               \/ \E said \in Decisions \cup {Malformed} : DecideUnknown(d, g, a, said)
        PROVE  GatewayInv'
    <3>1. GateOK' /\ UNCHANGED linkVars
      BY <1>0, <2>3, DecideKeepsGate, DecideUnknownKeepsGate
    <3>. QED
      BY <2>1, <3>1, LinkRests DEF GatewayInv
  <2>4. ASSUME NEW g \in Gateways, Restart(g)
        PROVE  GatewayInv'
    <3>1. /\ GateOK' /\ LinkOK' /\ ledger' = ledger /\ calls' = calls
          /\ \A h \in Handlers \ Approvals : AtRest(h)
      BY <1>0, <2>4, RestartKeepsGate DEF Restart
    <3>2. (\A t \in ToolCalls : AtRest(t)) /\ (\A q \in Retrievals : AtRest(q))
      BY <3>1, RoutesAssumption, ToolCallsAssumption, RetrievalsAssumption
    <3>3. stored \subseteq calls'
      BY <1>0, <3>1 DEF RetrievalsOK, RetrievalTypeOK
    <3>. QED
      BY <2>1, <3>1, <3>2, <3>3, ComponentsRest DEF GatewayInv
  <2>. QED
    BY <1>2, <2>2, <2>3, <2>4 DEF ApprovalNext
<1>3. CASE ToolNext /\ InTool
  <2>1. UNCHANGED approvalVars /\ UNCHANGED retrievalVars /\ UNCHANGED dossierVars
    BY <1>3 DEF InTool
  <2>2. PICK t \in ToolCalls :
          UnknownTool(t) \/ Accept(t) \/ ProxyStep(t) \/ CallerHangsUp(t) \/ BackendStep(t)
    BY <1>3 DEF ToolNext
  <2>3. CASE BackendStep(t)
    <3>1. ToolsOK' /\ UNCHANGED linkVars
      BY <1>0, <2>3, BackendKeepsTools
    <3>. QED
      BY <2>1, <3>1, LinkRests DEF GatewayInv
  <2>4. CASE UnknownTool(t) \/ Accept(t) \/ ProxyStep(t) \/ CallerHangsUp(t)
    <3>1. Alone(t) /\ ToolsOK' /\ LinkOK'
      BY <1>0, <2>4, ToolKeepsTools DEF Alone
    <3>2. t \in Handlers /\ t \notin Approvals /\ t \notin Retrievals
      BY ToolCallsAssumption, RoutesAssumption
    <3>. QED
      BY <2>1, <3>1, <3>2, HandlerSteps DEF GatewayInv
  <2>. QED
    BY <2>2, <2>3, <2>4
<1>4. CASE RetrievalNext /\ InRetrieval
  <2>1. UNCHANGED approvalVars /\ UNCHANGED toolVars /\ UNCHANGED dossierVars
    BY <1>4 DEF InRetrieval
  <2>2. PICK q \in Retrievals : NoBackend(q) \/ AcceptQuery(q) \/ RetrievalStep(q) \/ QuerierHangsUp(q)
                                  \/ RetrievalBackendStep(q)
    BY <1>4 DEF RetrievalNext
  <2>3. CASE RetrievalBackendStep(q)
    <3>1. RetrievalsOK' /\ UNCHANGED linkVars
      BY <1>0, <2>3, BackendKeepsRetrievals
    <3>. QED
      BY <2>1, <3>1, LinkRests DEF GatewayInv
  <2>4. CASE NoBackend(q) \/ AcceptQuery(q) \/ RetrievalStep(q) \/ QuerierHangsUp(q)
    <3>1. Alone(q) /\ RetrievalsOK' /\ LinkOK'
      BY <1>0, <2>4, RetrievalKeepsRetrievals DEF Alone
    <3>2. q \in Handlers /\ q \notin Approvals /\ q \notin ToolCalls
      BY RetrievalsAssumption, RoutesAssumption
    <3>. QED
      BY <2>1, <3>1, <3>2, HandlerSteps DEF GatewayInv
  <2>. QED
    BY <2>2, <2>3, <2>4
<1>5. CASE DossierNext /\ InDossier
  <2>1. UNCHANGED approvalVars /\ UNCHANGED toolVars /\ UNCHANGED retrievalVars
    BY <1>5 DEF InDossier
  <2>2. ReaderOK' /\ UNCHANGED linkVars
    BY <1>0, <1>5, ReaderReads
  <2>. QED
    BY <2>1, <2>2, LinkRests DEF GatewayInv
<1>6. CASE LedgerActs
  <2>1. UNCHANGED approvalVars /\ UNCHANGED toolVars /\ UNCHANGED dossierVars
    BY <1>6 DEF LedgerActs
  <2>2. CASE \E c \in calls : PutBlob(c)
    <3>1. RetrievalsOK' /\ UNCHANGED linkVars
      BY <1>0, <2>2, PutKeepsRetrievals
    <3>. QED
      BY <2>1, <3>1, LinkRests DEF GatewayInv
  <2>3. ASSUME NEW c \in calls, UploadReady(c), LedgerCommits(c), stored' = stored \ {c},
               UNCHANGED <<asked, answer, docs, doc, blobs>>
        PROVE  GatewayInv'
    BY <2>1, <2>3, CommitKeeps
  <2>4. ASSUME NEW c \in calls, LedgerRefuses(c), stored' = stored \ {c},
               UNCHANGED <<asked, answer, docs, doc, blobs>>
        PROVE  GatewayInv'
    <3>1. pc' = pc /\ ledger' = ledger /\ calls' = calls \ {c}
      BY <2>4 DEF LedgerRefuses
    <3>2. LinkOK' /\ \A h : AtRest(h)
      BY <1>0, <3>1, LinkShrinks
    <3>3. stored' \subseteq stored \cap calls'
      BY <1>0, <2>4, <3>1 DEF RetrievalsOK, RetrievalTypeOK
    <3>4. RetrievalsOK'
      BY <1>0, <2>4, <3>2, <3>3, RetrievalsRest DEF RetrievalsOK, LinkOK
    <3>. QED
      BY <2>1, <3>1, <3>2, <3>4, ComponentsRest DEF GatewayInv
  <2>. QED
    BY <1>6, <2>2, <2>3, <2>4 DEF LedgerActs, RetrievalLedgerStep
<1>. QED
  BY <1>1, <1>2, <1>3, <1>4, <1>5, <1>6 DEF Next

LEMMA GatewayInvariant == Spec => []GatewayInv
  BY GatewayInitInv, GatewayNextInv, PTL DEF Spec


-----------------------------------------------------------------------------
(* The theorems *)

\* Every component's variables have their types, whoever else uses the link.
THEOREM GatewayTypeCorrect == Spec => []TypeOK
<1>1. GatewayInv => TypeOK
  BY DEF GatewayInv, GateOK, ToolsOK, RetrievalsOK, ReaderOK, TypeOK
<1>. QED
  BY <1>1, GatewayInvariant, PTL

\* A human_approval row stands behind the event of its decision, and the rows
\* of a tool call behind its outcome, one of each, however late the ledger
\* answers and whoever hangs up meanwhile.
THEOREM RowsStandOnEvents == Spec => []RowsFollowEvents
<1>1. GatewayInv => RowsFollowEvents
  <2> SUFFICES ASSUME GatewayInv
               PROVE  RowsFollowEvents
    OBVIOUS
  <2>1. EvidenceFollowsEvent
    BY DEF GatewayInv, GateOK, EvidenceAt, EvidenceFollowsEvent
  <2>2. \A t \in ToolCalls : \A i \in 1 .. Len(ledger[t]) : RowOf(ledger[t], backend[t], effects[t], i)
    BY DEF GatewayInv, ToolsOK, ToolAt, RowsAt
  <2>3. RowsFollowOutcome
    BY <2>2 DEF RowOf, RowsFollowOutcome
  <2>. QED
    BY <2>1, <2>3 DEF RowsFollowEvents
<1>. QED
  BY <1>1, GatewayInvariant, PTL

\* What a retrieval_result names is in the ledger before it, and the bytes of
\* every artifact row are in the bucket before the row.
THEOREM NamedArtifactsAreThere == Spec => []ResultsAreFetchable
<1>1. GatewayInv => ResultsAreFetchable
  <2> SUFFICES ASSUME GatewayInv
               PROVE  ResultsAreFetchable
    OBVIOUS
  <2>1. \A q \in Retrievals : ResultAt(q) /\ BlobsAt(q) /\ q \in Handlers
    BY RetrievalsAssumption DEF GatewayInv, RetrievalsOK, RetrievalAt
  <2>2. ResultFollowsArtifacts
    BY <2>1 DEF ResultAt, InOrder, ResultFollowsArtifacts
  <2>3. ASSUME NEW q \in Retrievals, NEW i \in 1 .. Len(ledger[q]), ledger[q][i].kind = "artifact"
        PROVE  docs[q][ledger[q][i].item] \in blobs
    <3>1. Committed(q, ledger[q][i])
      BY <2>1, CommittedIsAt DEF GatewayInv, LinkOK
    <3>2. ledger[q][i] \in RetrievalEntries
      BY <3>1, OwnRetrieval DEF GatewayInv, LinkOK, Sent
    <3>3. PICK k \in 1 .. MaxDocs : ledger[q][i] = Artifact(k)
      BY <2>3, <3>2, RetrievalEntriesDiffer DEF RetrievalEntries
    <3>. QED
      BY <2>1, <3>1, <3>3, RetrievalEntriesDiffer DEF BlobsAt
  <2>4. ArtifactsHaveBlobs
    BY <2>3 DEF ArtifactsHaveBlobs
  <2>. QED
    BY <2>2, <2>4 DEF ResultsAreFetchable
<1>. QED
  BY <1>1, GatewayInvariant, PTL

\* Whatever row of a run names another, the other is in the ledger before it.
LEMMA NamedRowsAreBefore ==
  ASSUME GatewayInv, NEW h \in Handlers, NEW i \in 1 .. Len(ledger[h]), Names(ledger[h][i]) # {}
  PROVE  \E j \in 1 .. Len(ledger[h]) : ledger[h][j].kind \in Names(ledger[h][i])
<1>1. PICK e : e = ledger[h][i]
  OBVIOUS
<1>2. Committed(h, e) /\ Len(ledger[h]) \in Nat
  BY <1>1, CommittedIsAt DEF GatewayInv, LinkOK, LinkTypeOK
<1>3. Own(h, e)
  BY <1>2 DEF GatewayInv, LinkOK, OwnEntries, Sent
<1>4. CASE h \in Approvals /\ e \in ApprovalEntries
  <2>1. EvidenceAt(h)
    BY <1>4 DEF GatewayInv, GateOK
  <2>2. CASE e = Evidence("granted") \/ e = Evidence("denied")
    <3>1. PICK s \in Decisions : e = Evidence(s)
      BY <2>2 DEF Decisions
    <3>2. PICK j \in 1 .. i - 1 : ledger[h][j] = Event(s)
      BY <1>1, <2>1, <3>1 DEF EvidenceAt
    <3>3. Event(s).kind \in Names(e)
      BY <3>1 DEF Names, Evidence, Event, Entry, Decisions
    <3>. QED
      BY <1>1, <1>2, <3>2, <3>3
  <2>3. CASE ~ (e = Evidence("granted") \/ e = Evidence("denied"))
    <3>1. e.kind \in {"run", "binding", "approval_requested", "approval_granted", "approval_denied"}
      BY <1>4, <2>3 DEF ApprovalEntries, Entry, Asked, Event, Decisions
    <3>. QED
      BY <1>1, <3>1 DEF Names
  <2>. QED
    BY <2>2, <2>3
<1>5. CASE h \in ToolCalls /\ e \in ToolEntries
  <2>1. RowOf(ledger[h], backend[h], effects[h], i)
    BY <1>5 DEF GatewayInv, ToolsOK, ToolAt, RowsAt
  <2>2. CASE e.kind = "side_effect"
    <3>1. e.linked
      BY <1>1, <2>2 DEF Names
    <3>2. PICK j \in 1 .. i - 1 : ledger[h][j] = Invocation
      BY <1>1, <2>1, <2>2, <3>1 DEF RowOf
    <3>3. Invocation.kind \in Names(e)
      BY <2>2, <3>1 DEF Names, Invocation, Entry
    <3>. QED
      BY <1>1, <1>2, <3>2, <3>3
  <2>3. CASE e = Invocation
    <3>1. PICK j \in 1 .. i - 1 : ledger[h][j] = Outcome(backend[h])
      BY <1>1, <2>1, <2>3 DEF RowOf
    <3>2. Outcome(backend[h]).kind \in Names(e)
      BY <2>3 DEF Names, Invocation, Outcome, Entry
    <3>. QED
      BY <1>1, <1>2, <3>1, <3>2
  <2>4. CASE e.kind # "side_effect" /\ e # Invocation
    <3>1. e.kind \in {"run", "binding", "tool_call", "tool_result", "tool_error"}
      BY <1>5, <2>4, ToolEntriesDiffer DEF ToolEntries, Entry, Call, Outcome, Statuses
    <3>. QED
      BY <1>1, <3>1 DEF Names
  <2>. QED
    BY <2>2, <2>3, <2>4
<1>6. CASE h \in Retrievals /\ e \in RetrievalEntries
  <2>1. e.kind \in {"run", "binding", "retrieval_query", "retrieval_result", "retrieval_error", "artifact"}
    BY <1>6 DEF RetrievalEntries, Entry, Query, Result, QueryError, Artifact
  <2>. QED
    BY <1>1, <2>1 DEF Names
<1>. QED
  BY <1>3, <1>4, <1>5, <1>6 DEF Own

LEMMA TablesAreSections == \A e : \E k \in 1 .. 9 : Table(e) = Sections[k]
<1> TAKE e
<1>1. /\ Sections[1] = "runs" /\ Sections[2] = "events" /\ Sections[3] = "tool_invocations"
      /\ Sections[4] = "side_effects" /\ Sections[6] = "human_approvals"
      /\ Sections[8] = "artifacts" /\ Sections[9] = "run_version_bindings"
  BY DEF Sections
<1>2. Table(e) \in {"runs", "events", "tool_invocations", "side_effects", "human_approvals",
                    "artifacts", "run_version_bindings"}
  BY DEF Table
<1>. QED
  BY <1>1, <1>2

\* A dossier read while its run is written holds what was there when it was
\* asked for, and lacks the named row of another only if that row came later.
THEOREM DossiersMissOnlyNewer == Spec => []DossierMissesOnlyNewer
<1>1. GatewayInv => DossierMissesOnlyNewer
  <2> SUFFICES ASSUME GatewayInv, section = Len(Sections)
               PROVE  /\ \A i \in 1 .. begun : ledger[subject][i] \in shown
                      /\ \A e \in shown :
                           /\ e \in ToSet(ledger[subject])
                           /\ Names(e) # {} /\ (\A p \in shown : p.kind \notin Names(e)) =>
                                \E i \in begun + 1 .. Len(ledger[subject]) :
                                  ledger[subject][i].kind \in Names(e)
    BY DEF DossierMissesOnlyNewer
  <2>1. section = 9
    BY DEF Sections
  <2>2. PICK h \in Handlers : h = subject /\ h # None
    BY <2>1 DEF GatewayInv, ReaderOK, DossierInv, DossierTypeOK
  <2>3. /\ shown \subseteq ToSet(ledger[h]) /\ begun \in 0 .. Len(ledger[h]) /\ Len(ledger[h]) \in Nat
        /\ \A i \in 1 .. begun : \A k \in 1 .. 9 :
             Table(ledger[h][i]) = Sections[k] => ledger[h][i] \in shown
    BY <2>1, <2>2 DEF GatewayInv, ReaderOK, DossierInv, DossierTypeOK, LinkOK, LinkTypeOK
  <2>4. \A i \in 1 .. begun : ledger[h][i] \in shown
    BY <2>3, TablesAreSections
  <2>5. ASSUME NEW e \in shown, Names(e) # {}, \A p \in shown : p.kind \notin Names(e)
        PROVE  \E i \in begun + 1 .. Len(ledger[h]) : ledger[h][i].kind \in Names(e)
    <3>1. Committed(h, e)
      BY <2>3 DEF Committed
    <3>2. PICK i \in 1 .. Len(ledger[h]) : ledger[h][i] = e
      BY <3>1, CommittedIsAt DEF GatewayInv, LinkOK
    <3>3. PICK j \in 1 .. Len(ledger[h]) : ledger[h][j].kind \in Names(e)
      BY <2>5, <3>2, NamedRowsAreBefore
    <3>4. j \notin 1 .. begun
      BY <2>4, <2>5, <3>3
    <3>. QED
      BY <2>3, <3>3, <3>4
  <2>. QED
    BY <2>2, <2>3, <2>4, <2>5
<1>. QED
  BY <1>1, GatewayInvariant, PTL


-----------------------------------------------------------------------------
(* The refinements: what WitnessedOutcome sees of tool calls and retrievals *)

\* Whose step it is.
LEMMA OneComponentSteps ==
  ASSUME GatewayInv, [Next]_vars
  PROVE  \/ UNCHANGED toolVars /\ answer' = answer /\ \A h \in Handlers \ Approvals : AtRest(h)
         \/ /\ UNCHANGED toolVars /\ answer' = answer
            /\ \E h \in Handlers : \E e \in Entries : Gains(h, e) /\ \A g \in Handlers \ {h} : AtRest(g)
         \/ ToolNext /\ answer' = answer /\ \A q \in Retrievals : AtRest(q)
         \/ RetrievalNext /\ UNCHANGED toolVars /\ \A t \in ToolCalls : AtRest(t)
<1>0. LinkOK /\ GateOK /\ ToolsOK /\ RetrievalsOK /\ ReaderOK
  BY DEF GatewayInv
<1>1. UNCHANGED retrievalVars => answer' = answer
  BY DEF retrievalVars
<1>2. UNCHANGED linkVars => \A h : AtRest(h)
  BY NothingMoves
<1>3. CASE UNCHANGED vars
  <2>1. UNCHANGED linkVars /\ UNCHANGED toolVars /\ UNCHANGED retrievalVars
    BY <1>3 DEF vars
  <2>. QED
    BY <1>1, <1>2, <2>1
<1>4. CASE ApprovalNext /\ InApproval
  <2>1. UNCHANGED toolVars /\ answer' = answer
    BY <1>1, <1>4 DEF InApproval
  <2>2. ASSUME NEW a \in Approvals,
               (ResolveRun(a) /\ UNCHANGED approvalVars) \/ RequestStep(a) \/ RequesterHangsUp(a)
        PROVE  \A h \in Handlers \ Approvals : AtRest(h)
    BY <1>0, <2>2, RequestKeepsGate DEF Alone
  <2>3. ASSUME NEW d \in Deciders, NEW g \in Gateways, NEW a \in Approvals,
               \/ DecideMalformed(d, g, a)
               \/ \E said \in Decisions : Decide(d, g, a, said)
               \/ \E said \in Decisions \cup {Malformed} : DecideUnknown(d, g, a, said)
        PROVE  \A h \in Handlers \ Approvals : AtRest(h)
    BY <1>0, <1>2, <2>3, DecideKeepsGate, DecideUnknownKeepsGate
  <2>4. ASSUME NEW g \in Gateways, Restart(g)
        PROVE  \A h \in Handlers \ Approvals : AtRest(h)
    BY <1>0, <2>4, RestartKeepsGate
  <2>. QED
    BY <1>4, <2>1, <2>2, <2>3, <2>4 DEF ApprovalNext
<1>5. CASE ToolNext /\ InTool
  <2>1. answer' = answer
    BY <1>1, <1>5 DEF InTool
  <2>2. PICK t \in ToolCalls :
          UnknownTool(t) \/ Accept(t) \/ ProxyStep(t) \/ CallerHangsUp(t) \/ BackendStep(t)
    BY <1>5 DEF ToolNext
  <2>3. (\A h : AtRest(h)) \/ Alone(t)
    BY <1>0, <1>2, <2>2, BackendKeepsTools, ToolKeepsTools
  <2>4. \A q \in Retrievals : q \in Handlers /\ q # t
    BY RetrievalsAssumption, RoutesAssumption
  <2>. QED
    BY <1>5, <2>1, <2>3, <2>4 DEF Alone
<1>6. CASE RetrievalNext /\ InRetrieval
  <2>1. UNCHANGED toolVars
    BY <1>6 DEF InRetrieval
  <2>2. PICK q \in Retrievals : NoBackend(q) \/ AcceptQuery(q) \/ RetrievalStep(q) \/ QuerierHangsUp(q)
                                  \/ RetrievalBackendStep(q)
    BY <1>6 DEF RetrievalNext
  <2>3. (\A h : AtRest(h)) \/ Alone(q)
    BY <1>0, <1>2, <2>2, BackendKeepsRetrievals, RetrievalKeepsRetrievals
  <2>4. \A t \in ToolCalls : t \in Handlers /\ t # q
    BY ToolCallsAssumption, RoutesAssumption
  <2>. QED
    BY <1>6, <2>1, <2>3, <2>4 DEF Alone
<1>7. CASE DossierNext /\ InDossier
  <2>1. UNCHANGED toolVars /\ UNCHANGED retrievalVars
    BY <1>7 DEF InDossier
  <2>2. UNCHANGED linkVars
    BY <1>0, <1>7, ReaderReads
  <2>. QED
    BY <1>1, <1>2, <2>1, <2>2
<1>8. CASE LedgerActs
  <2>1. UNCHANGED toolVars
    BY <1>8 DEF LedgerActs
  <2>2. PICK c \in calls : \/ PutBlob(c)
                           \/ LedgerCommits(c) /\ answer' = answer
                           \/ LedgerRefuses(c) /\ answer' = answer
    BY <1>8 DEF LedgerActs, RetrievalLedgerStep
  <2>3. CASE PutBlob(c)
    BY <1>2, <2>1, <2>3 DEF PutBlob
  <2>4. CASE LedgerCommits(c) /\ answer' = answer
    BY <1>0, <2>1, <2>4, CommitGains DEF LinkOK
  <2>5. CASE LedgerRefuses(c) /\ answer' = answer
    BY <2>1, <2>5 DEF LedgerRefuses, AtRest
  <2>. QED
    BY <2>2, <2>3, <2>4, <2>5
<1>. QED
  BY <1>3, <1>4, <1>5, <1>6, <1>7, <1>8 DEF Next

CallAnnounced == { t \in ToolCalls : Committed(t, Call) }
CallOutcome == [t \in ToolCalls |-> IF backend[t] \in Statuses THEN backend[t] ELSE None]
CallRecorded == [t \in ToolCalls |-> IF Recorded(t) = {} THEN None ELSE CHOOSE s \in Recorded(t) : TRUE]
CallReported == [t \in ToolCalls |-> IF pc[t] = "replied" THEN backend[t] ELSE None]

CallView == <<CallAnnounced, CallOutcome, CallRecorded, CallReported>>

LEMMA CallRecordedIsOne ==
  /\ CallRecorded = [t \in ToolCalls |-> OneOf(Recorded(t))]
  /\ CallRecorded' = [t \in ToolCalls |-> OneOf(Recorded(t)')]
  BY DEF CallRecorded, OneOf

LEMMA CallRecordedUntouched ==
  ASSUME \A t \in ToolCalls : Recorded(t)' = Recorded(t)
  PROVE  CallRecorded' = CallRecorded
<1>1. \A t \in ToolCalls : OneOf(Recorded(t)') = OneOf(Recorded(t))
  OBVIOUS
<1>. QED
  BY <1>1, CallRecordedIsOne

LEMMA CallLedgerUntouched ==
  ASSUME \A t \in ToolCalls : ledger'[t] = ledger[t]
  PROVE  UNCHANGED <<CallAnnounced, CallRecorded>>
<1>1. \A t \in ToolCalls : \A e : Committed(t, e)' <=> Committed(t, e)
  BY DEF Committed
<1>2. \A t \in ToolCalls : Recorded(t)' = Recorded(t)
  BY <1>1 DEF Recorded, Outcome
<1>3. CallAnnounced' = CallAnnounced
  BY <1>1 DEF CallAnnounced, Call
<1>4. CallRecorded' = CallRecorded
  BY <1>2, CallRecordedUntouched
<1>. QED
  BY <1>3, <1>4

LEMMA CallInvisible ==
  ASSUME \A t \in ToolCalls : /\ ledger'[t] = ledger[t] /\ backend'[t] = backend[t]
                              /\ pc'[t] = pc[t] \/ (pc[t] # "replied" /\ pc'[t] # "replied")
  PROVE  UNCHANGED CallView
<1>1. UNCHANGED <<CallAnnounced, CallRecorded>>
  BY CallLedgerUntouched
<1>2. CallOutcome' = CallOutcome /\ CallReported' = CallReported
  BY DEF CallOutcome, CallReported
<1>. QED
  BY <1>1, <1>2 DEF CallView

\* Only the status the backend ran the call with is ever recorded.
LEMMA OneOutcomeRecorded ==
  ASSUME GatewayInv, NEW t \in ToolCalls
  PROVE  Recorded(t) \subseteq {backend[t]}
  BY DEF GatewayInv, ToolsOK, ToolAt, CallAt, Recorded, Sent

LEMMA CallGainsRefine ==
  ASSUME GatewayInv, UNCHANGED toolVars, NEW h \in Handlers, NEW e \in Entries, Gains(h, e),
         \A g \in Handlers \ {h} : AtRest(g)
  PROVE  [CallPromise!Next]_CallView
<1>1. UNCHANGED backend /\ \A t \in ToolCalls : pc'[t] = pc[t] /\ t \in Handlers
  BY ToolCallsAssumption DEF toolVars, Gains, AtRest
<1>2. CallOutcome' = CallOutcome /\ CallReported' = CallReported
  BY <1>1 DEF CallOutcome, CallReported
<1>3. \A t \in ToolCalls \ {h} : ledger'[t] = ledger[t]
  BY <1>1 DEF AtRest
<1>4. CASE h \notin ToolCalls
  BY <1>1, <1>3, <1>4, CallInvisible
<1>5. CASE h \in ToolCalls
  <2>1. \A f : Committed(h, f)' <=> Committed(h, f) \/ f = e
    BY GainsSent DEF GatewayInv, LinkOK
  <2>2. \A t \in ToolCalls \ {h} : \A f : Committed(t, f)' <=> Committed(t, f)
    BY <1>3 DEF Committed
  <2>3. \A t \in ToolCalls \ {h} : Recorded(t)' = Recorded(t)
    BY <2>2 DEF Recorded, Outcome
  <2>4. Sent(h, e)
    BY DEF Gains, Sent
  <2>5. CASE e = Call
    <3>1. CallAnnounced' = CallAnnounced \cup {h}
      BY <1>5, <2>1, <2>2, <2>5 DEF CallAnnounced, Call
    <3>2. Recorded(h)' = Recorded(h)
      BY <2>1, <2>5, ToolEntriesDiffer DEF Recorded, Outcome
    <3>3. CallRecorded' = CallRecorded
      BY <2>3, <3>2, CallRecordedUntouched
    <3>4. CallPromise!Announce(h)
      BY <1>2, <3>1, <3>3
         DEF CallPromise!Announce, CallAnnounced, CallOutcome, CallRecorded, CallReported
    <3>. QED
      BY <1>5, <3>4 DEF CallPromise!Next
  <2>6. CASE e # Call
    <3>1. CallAnnounced' = CallAnnounced
      BY <2>1, <2>2, <2>6 DEF CallAnnounced, Call
    <3>2. CASE \E s \in Statuses : e = Outcome(s) /\ s \notin Recorded(h)
      <4>1. PICK s \in Statuses : e = Outcome(s) /\ s \notin Recorded(h)
        BY <3>2
      <4>2. backend[h] = s
        BY <1>5, <2>4, <4>1 DEF GatewayInv, ToolsOK, ToolAt, CallAt
      <4>3. Recorded(h) = {}
        BY <1>5, <4>1, <4>2, OneOutcomeRecorded
      <4>4. \A r \in Statuses : r \in Recorded(h)' <=> r \in Recorded(h) \/ r = s
        BY <2>1, <4>1, ToolEntriesDiffer DEF Recorded, Outcome
      <4>5. Recorded(h)' \subseteq Statuses
        BY DEF Recorded
      <4>6. Recorded(h)' = {s}
        BY <4>1, <4>3, <4>4, <4>5
      <4>7. CallRecorded[h] = None /\ CallOutcome[h] = s /\ s # None
        BY <1>5, <4>2, <4>3 DEF CallRecorded, CallOutcome, Statuses, None
      <4>8. CallRecorded' = [CallRecorded EXCEPT ![h] = s]
        <5>1. OneOf(Recorded(h)') = s
          BY <4>6, OneOfThese
        <5>2. \A t \in ToolCalls \ {h} : OneOf(Recorded(t)') = OneOf(Recorded(t))
          BY <2>3
        <5>. QED
          BY <5>1, <5>2, CallRecordedIsOne
      <4>9. CallPromise!Record(h)
        BY <1>2, <3>1, <4>7, <4>8
           DEF CallPromise!Record, CallAnnounced, CallOutcome, CallRecorded, CallReported
      <4>. QED
        BY <1>5, <4>9 DEF CallPromise!Next
    <3>3. CASE ~ \E s \in Statuses : e = Outcome(s) /\ s \notin Recorded(h)
      <4>1. Recorded(h)' = Recorded(h)
        BY <2>1, <3>3 DEF Recorded, Outcome
      <4>2. CallRecorded' = CallRecorded
        BY <2>3, <4>1, CallRecordedUntouched
      <4>. QED
        BY <1>2, <3>1, <4>2 DEF CallView
    <3>. QED
      BY <3>2, <3>3
  <2>. QED
    BY <2>5, <2>6
<1>. QED
  BY <1>4, <1>5

LEMMA CallRunRefines ==
  ASSUME GatewayInv, NEW t \in ToolCalls, BackendStep(t)
  PROVE  [CallPromise!Next]_CallView
<1>1. UNCHANGED <<pc, calls, ledger>>
  BY DEF BackendStep, BackendRuns, RequestLost, linkVars
<1>2. CASE RequestLost(t)
  BY <1>1, <1>2, CallInvisible DEF RequestLost
<1>3. CASE BackendRuns(t)
  <2>1. PICK s \in Statuses : backend' = [backend EXCEPT ![t] = s]
    BY <1>3 DEF BackendRuns
  <2>2. ToolAt(t) /\ t \in forwarded /\ backend \in [ToolCalls -> {"unseen"} \cup Statuses]
    BY <1>3 DEF GatewayInv, ToolsOK, ToolTypeOK, BackendRuns
  <2>3. Committed(t, Call) /\ backend[t] = "unseen" /\ pc[t] # "replied"
    BY <2>2 DEF ToolAt, CallAt, Statuses
  <2>4. backend'[t] = s /\ \A u \in ToolCalls \ {t} : backend'[u] = backend[u]
    BY <2>1, <2>2
  <2>5. UNCHANGED <<CallAnnounced, CallRecorded>> /\ t \in CallAnnounced
    BY <1>1, <2>3, CallLedgerUntouched DEF CallAnnounced
  <2>6. CallOutcome[t] = None /\ CallOutcome' = [CallOutcome EXCEPT ![t] = s]
    BY <2>3, <2>4 DEF CallOutcome, Statuses
  <2>7. CallReported' = CallReported
    BY <1>1, <2>3, <2>4 DEF CallReported
  <2>8. CallPromise!Happen(t, s)
    BY <2>5, <2>6, <2>7
       DEF CallPromise!Happen, CallAnnounced, CallOutcome, CallRecorded, CallReported
  <2>. QED
    BY <2>8 DEF CallPromise!Next
<1>. QED
  BY <1>2, <1>3 DEF BackendStep

LEMMA CallStepsRefine ==
  ASSUME GatewayInv, NEW t \in ToolCalls,
         UnknownTool(t) \/ Accept(t) \/ ProxyStep(t) \/ CallerHangsUp(t)
  PROVE  [CallPromise!Next]_CallView
<1>1. Alone(t) /\ backend' = backend /\ t \in Handlers
  BY ToolKeepsTools, ToolCallsAssumption
     DEF GatewayInv, UnknownTool, Accept, ProxyStep, CallerHangsUp, RecordCall, Forward, RecordOutcome,
         BackendErr, RecordInvocation, InvocationDone, EffectDone, ProxyFails, toolVars
<1>2. /\ ledger' = ledger /\ \A u \in ToolCalls \ {t} : pc'[u] = pc[u]
  BY <1>1, ToolCallsAssumption DEF Alone, AtRest
<1>3. ToolAt(t) /\ PcOK
  BY DEF GatewayInv, ToolsOK, LinkOK
<1>4. CASE ~ (InvocationDone(t) \/ EffectDone(t))
  <2>1. pc[t] # "replied" /\ \E next \in ({"failed", "gone"} \cup ToolActive) : Goto(t, next)
    BY <1>4 DEF UnknownTool, Accept, ProxyStep, CallerHangsUp, RecordCall, Forward, RecordOutcome,
       BackendErr, RecordInvocation, ProxyFails, ResolveRun, ResolveStep, RunMinted, Err, StampingDone,
       GotoSending, GotoQuietly, Ok, ToolActive
  <2>2. pc'[t] # "replied"
    BY <1>1, <1>3, <2>1 DEF Goto, PcOK, ToolActive
  <2>. QED
    BY <1>1, <1>2, <2>1, <2>2, CallInvisible
<1>5. CASE InvocationDone(t) \/ EffectDone(t)
  <2>1. pc[t] # "replied" /\ backend[t] \in Statuses /\ Committed(t, Outcome(backend[t]))
    BY <1>3, <1>5 DEF InvocationDone, EffectDone, ToolAt, CallAt
  <2>2. CASE pc'[t] # "replied"
    BY <1>1, <1>2, <2>1, <2>2, CallInvisible
  <2>3. CASE pc'[t] = "replied"
    <3>1. UNCHANGED <<CallAnnounced, CallRecorded>> /\ CallOutcome' = CallOutcome
      BY <1>1, <1>2, CallLedgerUntouched DEF CallOutcome
    <3>2. backend[t] \in Recorded(t)
      BY <2>1 DEF Recorded
    <3>3. Recorded(t) = {backend[t]}
      BY <3>2, OneOutcomeRecorded
    <3>4. CallRecorded[t] = backend[t] /\ CallRecorded[t] # None /\ CallReported[t] = None
      BY <2>1, <3>3 DEF CallRecorded, CallReported, Statuses, None
    <3>5. CallReported' = [CallReported EXCEPT ![t] = CallRecorded[t]]
      BY <1>1, <1>2, <2>3, <3>4 DEF CallReported
    <3>6. CallPromise!Report(t)
      BY <3>1, <3>4, <3>5
         DEF CallPromise!Report, CallAnnounced, CallOutcome, CallRecorded, CallReported
    <3>. QED
      BY <3>6 DEF CallPromise!Next
  <2>. QED
    BY <2>2, <2>3
<1>. QED
  BY <1>4, <1>5

\* No backend runs a call the ledger does not know of, and no caller sees a
\* response whose outcome the ledger does not hold: the tool proxy keeps the
\* promise of WitnessedOutcome.
THEOREM ToolProxyImplementsWitnessedOutcome == Spec => CallsAreWitnessed
<1>1. Init => CallPromise!Init
  <2> SUFFICES ASSUME Init
               PROVE  CallPromise!Init
    OBVIOUS
  <2>1. \A t \in ToolCalls : /\ pc[t] = "idle" /\ backend[t] = "unseen"
                             /\ \A e : ~ Committed(t, e)
    BY ToolCallsAssumption DEF Init, LinkInit, ToolInit, Committed, ToSet
  <2>2. \A t \in ToolCalls : Recorded(t) = {}
    BY <2>1 DEF Recorded
  <2>. QED
    BY <2>1, <2>2 DEF CallPromise!Init, Statuses
<1>2. GatewayInv /\ [Next]_vars => [CallPromise!Next]_CallPromise!vars
  <2> SUFFICES ASSUME GatewayInv, [Next]_vars
               PROVE  [CallPromise!Next]_CallView
    BY DEF CallPromise!vars, CallView, CallAnnounced, CallOutcome, CallRecorded, CallReported
  <2>1. \A t \in ToolCalls : t \in Handlers \ Approvals
    BY ToolCallsAssumption, RoutesAssumption
  <2>2. CASE UNCHANGED toolVars /\ \A t \in ToolCalls : AtRest(t)
    BY <2>2, CallInvisible DEF toolVars, AtRest
  <2>3. CASE /\ UNCHANGED toolVars
             /\ \E h \in Handlers : \E e \in Entries : Gains(h, e) /\ \A g \in Handlers \ {h} : AtRest(g)
    BY <2>3, CallGainsRefine
  <2>4. CASE ToolNext
    BY <2>4, CallRunRefines, CallStepsRefine DEF ToolNext
  <2>. QED
    BY <2>1, <2>2, <2>3, <2>4, OneComponentSteps
<1>. QED
  BY <1>1, <1>2, GatewayInvariant, PTL DEF Spec, CallsAreWitnessed, CallPromise!Spec


QueryAnnounced == { q \in Retrievals : Committed(q, Query) }
QueryOutcome == [q \in Retrievals |-> IF answer[q] \in Answers THEN answer[q] ELSE None]
QueryRecorded == [q \in Retrievals |-> RecordedAnswer(q)]
QueryReported == [q \in Retrievals |-> IF pc[q] = "replied" THEN answer[q] ELSE None]

QueryView == <<QueryAnnounced, QueryOutcome, QueryRecorded, QueryReported>>

LEMMA QueryLedgerUntouched ==
  ASSUME \A q \in Retrievals : ledger'[q] = ledger[q]
  PROVE  UNCHANGED <<QueryAnnounced, QueryRecorded>>
<1>1. \A q \in Retrievals : \A e : Committed(q, e)' <=> Committed(q, e)
  BY DEF Committed
<1>2. \A q \in Retrievals : RecordedAnswer(q)' = RecordedAnswer(q)
  BY <1>1 DEF RecordedAnswer, Result, QueryError
<1>3. QueryAnnounced' = QueryAnnounced
  BY <1>1 DEF QueryAnnounced, Query
<1>4. QueryRecorded' = QueryRecorded
  BY <1>2 DEF QueryRecorded
<1>. QED
  BY <1>3, <1>4

LEMMA QueryInvisible ==
  ASSUME \A q \in Retrievals : /\ ledger'[q] = ledger[q] /\ answer'[q] = answer[q]
                               /\ pc'[q] = pc[q] \/ (pc[q] # "replied" /\ pc'[q] # "replied")
  PROVE  UNCHANGED QueryView
<1>1. UNCHANGED <<QueryAnnounced, QueryRecorded>>
  BY QueryLedgerUntouched
<1>2. QueryOutcome' = QueryOutcome /\ QueryReported' = QueryReported
  BY DEF QueryOutcome, QueryReported
<1>. QED
  BY <1>1, <1>2 DEF QueryView

\* Only the answer of the backend is ever recorded.
LEMMA OneAnswerRecorded ==
  ASSUME GatewayInv, NEW q \in Retrievals
  PROVE  /\ Sent(q, Result) => answer[q] = "docs" /\ ~ Committed(q, QueryError)
         /\ Sent(q, QueryError) => answer[q] = "error" /\ ~ Committed(q, Result)
         /\ \A e : <<q, e>> \in calls => ~ Committed(q, e)
  BY DEF GatewayInv, RetrievalsOK, RetrievalAt, QueryAt, DocsAt, Sent

LEMMA QueryGainsRefine ==
  ASSUME GatewayInv, answer' = answer, NEW h \in Handlers, NEW e \in Entries, Gains(h, e),
         \A g \in Handlers \ {h} : AtRest(g)
  PROVE  [RetrievalPromise!Next]_QueryView
<1>1. \A q \in Retrievals : pc'[q] = pc[q] /\ q \in Handlers
  BY RetrievalsAssumption DEF Gains, AtRest
<1>2. QueryOutcome' = QueryOutcome /\ QueryReported' = QueryReported
  BY <1>1 DEF QueryOutcome, QueryReported
<1>3. \A q \in Retrievals \ {h} : ledger'[q] = ledger[q]
  BY <1>1 DEF AtRest
<1>4. CASE h \notin Retrievals
  BY <1>1, <1>3, <1>4, QueryInvisible
<1>5. CASE h \in Retrievals
  <2>1. \A f : Committed(h, f)' <=> Committed(h, f) \/ f = e
    BY GainsSent DEF GatewayInv, LinkOK
  <2>2. \A q \in Retrievals \ {h} : \A f : Committed(q, f)' <=> Committed(q, f)
    BY <1>3 DEF Committed
  <2>3. \A q \in Retrievals \ {h} : RecordedAnswer(q)' = RecordedAnswer(q)
    BY <2>2 DEF RecordedAnswer, Result, QueryError
  <2>4. Sent(h, e) /\ ~ Committed(h, e)
    BY <1>5, OneAnswerRecorded DEF Gains, Sent
  <2>5. CASE e = Query
    <3>1. QueryAnnounced' = QueryAnnounced \cup {h}
      BY <1>5, <2>1, <2>2, <2>5 DEF QueryAnnounced, Query
    <3>2. RecordedAnswer(h)' = RecordedAnswer(h)
      BY <2>1, <2>5, RetrievalEntriesDiffer DEF RecordedAnswer, Result, QueryError
    <3>3. QueryRecorded' = QueryRecorded
      BY <2>3, <3>2 DEF QueryRecorded
    <3>4. RetrievalPromise!Announce(h)
      BY <1>2, <3>1, <3>3
         DEF RetrievalPromise!Announce, QueryAnnounced, QueryOutcome, QueryRecorded, QueryReported
    <3>. QED
      BY <1>5, <3>4 DEF RetrievalPromise!Next
  <2>6. CASE e \in {Result, QueryError}
    <3>1. QueryAnnounced' = QueryAnnounced
      BY <2>1, <2>2, <2>6, RetrievalEntriesDiffer DEF QueryAnnounced, Query
    <3>2. RecordedAnswer(h) = None /\ answer[h] \in {"docs", "error"}
      BY <1>5, <2>4, <2>6, OneAnswerRecorded DEF RecordedAnswer
    <3>3. RecordedAnswer(h)' = answer[h]
      <4>1. CASE e = Result
        BY <1>5, <2>1, <2>4, <4>1, OneAnswerRecorded DEF RecordedAnswer, Result
      <4>2. CASE e = QueryError
        <5>1. ~ Committed(h, Result)' /\ Committed(h, QueryError)' /\ answer[h] = "error"
          BY <1>5, <2>1, <2>4, <4>2, OneAnswerRecorded, RetrievalEntriesDiffer DEF Result, QueryError
        <5>. QED
          BY <5>1 DEF RecordedAnswer
      <4>. QED
        BY <2>6, <4>1, <4>2
    <3>4. QueryRecorded[h] = None /\ QueryOutcome[h] = answer[h] /\ answer[h] # None
      BY <1>5, <3>2 DEF QueryRecorded, QueryOutcome, Answers, None
    <3>5. QueryRecorded' = [QueryRecorded EXCEPT ![h] = QueryOutcome[h]]
      BY <1>5, <2>3, <3>3, <3>4 DEF QueryRecorded
    <3>6. RetrievalPromise!Record(h)
      BY <1>2, <3>1, <3>4, <3>5
         DEF RetrievalPromise!Record, QueryAnnounced, QueryOutcome, QueryRecorded, QueryReported
    <3>. QED
      BY <1>5, <3>6 DEF RetrievalPromise!Next
  <2>7. CASE e \notin {Query, Result, QueryError}
    <3>1. QueryAnnounced' = QueryAnnounced
      BY <2>1, <2>2, <2>7 DEF QueryAnnounced, Query
    <3>2. RecordedAnswer(h)' = RecordedAnswer(h)
      BY <2>1, <2>7 DEF RecordedAnswer, Result, QueryError
    <3>3. QueryRecorded' = QueryRecorded
      BY <2>3, <3>2 DEF QueryRecorded
    <3>. QED
      BY <1>2, <3>1, <3>3 DEF QueryView
  <2>. QED
    BY <2>5, <2>6, <2>7
<1>. QED
  BY <1>4, <1>5

LEMMA QueryRunRefines ==
  ASSUME GatewayInv, NEW q \in Retrievals, RetrievalBackendStep(q)
  PROVE  [RetrievalPromise!Next]_QueryView
<1>1. UNCHANGED <<pc, calls, ledger>>
  BY DEF RetrievalBackendStep, BackendAnswers, QueryLost, linkVars
<1>2. CASE QueryLost(q)
  BY <1>1, <1>2, QueryInvisible DEF QueryLost
<1>3. CASE BackendAnswers(q)
  <2>1. PICK a \in Answers : answer' = [answer EXCEPT ![q] = a]
    BY <1>3 DEF BackendAnswers
  <2>2. RetrievalAt(q) /\ q \in asked /\ answer \in [Retrievals -> {"unseen"} \cup Answers]
    BY <1>3 DEF GatewayInv, RetrievalsOK, RetrievalTypeOK, BackendAnswers
  <2>3. Committed(q, Query) /\ answer[q] = "unseen" /\ pc[q] # "replied"
    BY <2>2 DEF RetrievalAt, QueryAt
  <2>4. answer'[q] = a /\ \A p \in Retrievals \ {q} : answer'[p] = answer[p]
    BY <2>1, <2>2
  <2>5. UNCHANGED <<QueryAnnounced, QueryRecorded>> /\ q \in QueryAnnounced
    BY <1>1, <2>3, QueryLedgerUntouched DEF QueryAnnounced
  <2>6. QueryOutcome[q] = None /\ QueryOutcome' = [QueryOutcome EXCEPT ![q] = a]
    BY <2>3, <2>4 DEF QueryOutcome, Answers
  <2>7. QueryReported' = QueryReported
    BY <1>1, <2>3, <2>4 DEF QueryReported
  <2>8. RetrievalPromise!Happen(q, a)
    BY <2>5, <2>6, <2>7
       DEF RetrievalPromise!Happen, QueryAnnounced, QueryOutcome, QueryRecorded, QueryReported
  <2>. QED
    BY <2>8 DEF RetrievalPromise!Next
<1>. QED
  BY <1>2, <1>3 DEF RetrievalBackendStep

LEMMA QueryStepsRefine ==
  ASSUME GatewayInv, NEW q \in Retrievals,
         NoBackend(q) \/ AcceptQuery(q) \/ RetrievalStep(q) \/ QuerierHangsUp(q)
  PROVE  [RetrievalPromise!Next]_QueryView
<1>1. Alone(q) /\ answer' = answer /\ q \in Handlers
  BY RetrievalKeepsRetrievals, RetrievalsAssumption
     DEF GatewayInv, NoBackend, AcceptQuery, RetrievalStep, QuerierHangsUp, RecordQuery, Ask, Fetched,
         FetchedError, FetchFails, Uploaded, ReplyQuery, RetrievalFails, retrievalVars
<1>2. /\ ledger' = ledger /\ \A p \in Retrievals \ {q} : pc'[p] = pc[p]
  BY <1>1, RetrievalsAssumption DEF Alone, AtRest
<1>3. RetrievalAt(q) /\ PcOK
  BY DEF GatewayInv, RetrievalsOK, LinkOK
<1>4. CASE ~ ReplyQuery(q)
  <2>1. pc[q] # "replied" /\ \E next \in {"failed", "gone"} \cup RetrievalActive : Goto(q, next)
    BY <1>4 DEF NoBackend, AcceptQuery, RetrievalStep, QuerierHangsUp, RecordQuery, Ask, Fetched,
       FetchedError, FetchFails, Uploaded, NextDoc, RetrievalFails, ResolveRun, ResolveStep, RunMinted,
       Err, StampingDone, GotoSending, GotoQuietly, Ok, RetrievalActive
  <2>2. pc'[q] # "replied"
    BY <1>1, <1>3, <2>1 DEF Goto, PcOK, RetrievalActive
  <2>. QED
    BY <1>1, <1>2, <2>1, <2>2, QueryInvisible
<1>5. CASE ReplyQuery(q)
  <2>1. pc[q] # "replied" /\ pc'[q] = "replied"
    BY <1>1, <1>3, <1>5 DEF ReplyQuery, Ok, GotoQuietly, Goto, PcOK
  <2>2. UNCHANGED <<QueryAnnounced, QueryRecorded>> /\ QueryOutcome' = QueryOutcome
    BY <1>1, <1>2, QueryLedgerUntouched DEF QueryOutcome
  <2>3. RecordedAnswer(q) = answer[q] /\ answer[q] \in {"docs", "error"}
    <3>1. Committed(q, Result) \/ Committed(q, QueryError)
      BY <1>5 DEF ReplyQuery, Ok
    <3>. QED
      BY <3>1, OneAnswerRecorded DEF RecordedAnswer, Sent
  <2>4. QueryRecorded[q] = answer[q] /\ QueryRecorded[q] # None /\ QueryReported[q] = None
    BY <2>1, <2>3 DEF QueryRecorded, QueryReported, None
  <2>5. QueryReported' = [QueryReported EXCEPT ![q] = QueryRecorded[q]]
    BY <1>1, <1>2, <2>1, <2>4 DEF QueryReported
  <2>6. RetrievalPromise!Report(q)
    BY <2>2, <2>4, <2>5
       DEF RetrievalPromise!Report, QueryAnnounced, QueryOutcome, QueryRecorded, QueryReported
  <2>. QED
    BY <2>6 DEF RetrievalPromise!Next
<1>. QED
  BY <1>4, <1>5

\* The backend sees no query the ledger does not know of, and the caller sees
\* no response whose outcome the ledger does not hold: the retrieval proxy keeps
\* the promise of WitnessedOutcome.
THEOREM RetrievalProxyImplementsWitnessedOutcome == Spec => RetrievalsAreWitnessed
<1>1. Init => RetrievalPromise!Init
  <2> SUFFICES ASSUME Init
               PROVE  RetrievalPromise!Init
    OBVIOUS
  <2>1. \A q \in Retrievals : /\ pc[q] = "idle" /\ answer[q] = "unseen"
                              /\ \A e : ~ Committed(q, e)
    BY RetrievalsAssumption DEF Init, LinkInit, RetrievalInit, Committed, ToSet
  <2>2. \A q \in Retrievals : RecordedAnswer(q) = None
    BY <2>1 DEF RecordedAnswer
  <2>. QED
    BY <2>1, <2>2 DEF RetrievalPromise!Init, Answers
<1>2. GatewayInv /\ [Next]_vars => [RetrievalPromise!Next]_RetrievalPromise!vars
  <2> SUFFICES ASSUME GatewayInv, [Next]_vars
               PROVE  [RetrievalPromise!Next]_QueryView
    BY DEF RetrievalPromise!vars, QueryView, QueryAnnounced, QueryOutcome, QueryRecorded, QueryReported
  <2>1. \A q \in Retrievals : q \in Handlers \ Approvals
    BY RetrievalsAssumption, RoutesAssumption
  <2>2. CASE answer' = answer /\ \A q \in Retrievals : AtRest(q)
    BY <2>2, QueryInvisible DEF AtRest
  <2>3. CASE /\ answer' = answer
             /\ \E h \in Handlers : \E e \in Entries : Gains(h, e) /\ \A g \in Handlers \ {h} : AtRest(g)
    BY <2>3, QueryGainsRefine
  <2>4. CASE RetrievalNext
    BY <2>4, QueryRunRefines, QueryStepsRefine DEF RetrievalNext
  <2>. QED
    BY <2>1, <2>2, <2>3, <2>4, OneComponentSteps
<1>. QED
  BY <1>1, <1>2, GatewayInvariant, PTL DEF Spec, RetrievalsAreWitnessed, RetrievalPromise!Spec


-----------------------------------------------------------------------------
(* The gate in the gateway: what Approval alone sees of it *)

\* The part of the link that belongs to approvals.
PcOfGate == [a \in Approvals |-> pc[a]]
CallsOfGate == { c \in calls : c[1] \in Approvals }
LedgerOfGate == [a \in Approvals |-> ledger[a]]

Gate == INSTANCE ApprovalProofs WITH
  Handlers <- Approvals, Identified <- Identified \cap Approvals,
  pc <- PcOfGate, calls <- CallsOfGate, ledger <- LedgerOfGate

LEMMA GateNames ==
  /\ Gate!Asked = Asked /\ \A s : Gate!Event(s) = Event(s) /\ Gate!Evidence(s) = Evidence(s)
  /\ \A kind : Gate!Entry(kind) = Entry(kind)
  /\ Gate!Decisions = Decisions /\ Gate!Malformed = Malformed /\ Gate!None = None
  /\ Gate!Listening = Listening /\ Gate!ApprovalActive = ApprovalActive /\ Gate!Ended = Ended
  /\ Gate!NoAnswer = NoAnswer /\ Gate!ApprovalEntries = ApprovalEntries
<1>1. \A kind : Gate!Entry(kind) = Entry(kind)
  BY DEF Gate!Entry, Entry
<1>2. /\ Gate!Decisions = Decisions /\ Gate!Malformed = Malformed /\ Gate!None = None
      /\ Gate!Listening = Listening /\ Gate!Ended = Ended /\ Gate!NoAnswer = NoAnswer
  BY DEF Gate!Decisions, Decisions, Gate!Malformed, Malformed, Gate!None, None, Gate!Listening,
     Listening, Gate!Ended, Ended, Gate!NoAnswer, NoAnswer
<1>3. Gate!ApprovalActive = ApprovalActive
  BY <1>2 DEF Gate!ApprovalActive, ApprovalActive
<1>4. Gate!Asked = Asked
  BY <1>1 DEF Gate!Asked, Asked
<1>5. \A s : Gate!Event(s) = Event(s)
  BY <1>1 DEF Gate!Event, Event
<1>6. \A s : Gate!Evidence(s) = Evidence(s)
  BY <1>1 DEF Gate!Evidence, Evidence
<1>7. Gate!ApprovalEntries = ApprovalEntries
  BY <1>1, <1>2, <1>4, <1>5, <1>6 DEF Gate!ApprovalEntries, ApprovalEntries
<1>. QED
  BY <1>1, <1>2, <1>3, <1>4, <1>5, <1>6, <1>7

LEMMA GateCommitted ==
  ASSUME NEW a \in Approvals, NEW e
  PROVE  Gate!Committed(a, e) <=> Committed(a, e)
  BY DEF Gate!Committed, Committed, Gate!ToSet, ToSet, LedgerOfGate

\* What the gate knows of the link, it knows of the whole.
LEMMA GateRests ==
  ASSUME UNCHANGED approvalVars, \A a \in Approvals : pc'[a] = pc[a] /\ ledger'[a] = ledger[a],
         LinkTypeOK, LinkTypeOK', \A a \in Approvals : \A e : <<a, e>> \in calls' <=> <<a, e>> \in calls
  PROVE  UNCHANGED Gate!requestVars
<1>1. PcOfGate' = PcOfGate /\ LedgerOfGate' = LedgerOfGate
  BY DEF PcOfGate, LedgerOfGate
<1>2. \A c \in CallsOfGate : c \in CallsOfGate'
  BY DEF CallsOfGate, LinkTypeOK
<1>3. \A c \in CallsOfGate' : c \in CallsOfGate
  BY DEF CallsOfGate, LinkTypeOK
<1>4. CallsOfGate' = CallsOfGate
  BY <1>2, <1>3
<1>. QED
  BY <1>1, <1>4 DEF Gate!requestVars, Gate!linkVars, Gate!approvalVars, approvalVars

LEMMA GateGoes ==
  ASSUME PcOK, NEW a \in Approvals, NEW next, NEW e
  PROVE  /\ GotoSending(a, next, e) => Gate!GotoSending(a, next, e)
         /\ GotoQuietly(a, next) => Gate!GotoQuietly(a, next)
<1>1. a \in Handlers
  BY ApprovalsAssumption
<1>2. Goto(a, next) => Gate!Goto(a, next)
  <2>1. ASSUME Goto(a, next)
        PROVE  PcOfGate' = [b \in Approvals |-> IF b = a THEN next ELSE PcOfGate[b]]
    BY <1>1, <2>1, ApprovalsAssumption DEF Goto, PcOfGate, PcOK
  <2>2. [PcOfGate EXCEPT ![a] = next] = [b \in Approvals |-> IF b = a THEN next ELSE PcOfGate[b]]
    BY DEF PcOfGate
  <2>. QED
    BY <2>1, <2>2 DEF Gate!Goto
<1>3. Send(a, e) => Gate!Send(a, e)
  BY DEF Send, Gate!Send, CallsOfGate
<1>4. /\ calls' = calls => CallsOfGate' = CallsOfGate
      /\ ledger' = ledger => LedgerOfGate' = LedgerOfGate
  BY DEF CallsOfGate, LedgerOfGate
<1>. QED
  BY <1>2, <1>3, <1>4 DEF GotoSending, GotoQuietly, Gate!GotoSending, Gate!GotoQuietly

LEMMA GateRequestSteps ==
  ASSUME PcOK, NEW a \in Approvals
  PROVE  /\ ResolveRun(a) /\ UNCHANGED approvalVars => Gate!ResolveRun(a) /\ UNCHANGED Gate!approvalVars
         /\ RequestStep(a) => Gate!RequestStep(a)
         /\ RequesterHangsUp(a) => Gate!RequesterHangsUp(a)
<1>1. PcOfGate[a] = pc[a] /\ a \in Handlers
  BY ApprovalsAssumption DEF PcOfGate
<1>2. \A next, e : /\ GotoSending(a, next, e) => Gate!GotoSending(a, next, e)
                   /\ GotoQuietly(a, next) => Gate!GotoQuietly(a, next)
  BY GateGoes
<1>3. \A e : Gate!Committed(a, e) <=> Committed(a, e)
  BY GateCommitted
<1>4. \A at, e : /\ Ok(a, at, e) => Gate!Ok(a, at, e)
                 /\ Err(a, at) => Gate!Err(a, at)
  BY <1>1, <1>2, <1>3 DEF Ok, Gate!Ok, Err, Gate!Err
<1>5. UNCHANGED approvalVars => UNCHANGED Gate!approvalVars
  BY DEF approvalVars, Gate!approvalVars
<1>6. ResolveRun(a) => Gate!ResolveRun(a)
  BY <1>1, <1>2, GateNames DEF ResolveRun, Gate!ResolveRun
<1>7. ResolveStep(a) => Gate!ResolveStep(a)
  BY <1>1, <1>2, <1>4, GateNames
     DEF ResolveStep, RunMinted, StampingDone, Gate!ResolveStep, Gate!RunMinted, Gate!StampingDone
<1>8. Stash(a) => Gate!Stash(a)
  BY <1>1, <1>2, GateNames DEF Stash, Gate!Stash
<1>9. RequestRecorded(a) => Gate!RequestRecorded(a)
  BY <1>2, <1>4, <1>5, GateNames DEF RequestRecorded, Gate!RequestRecorded
<1>10. Receive(a) => Gate!Receive(a)
  BY <1>1, <1>2, <1>5, GateNames DEF Receive, Gate!Receive
<1>11. SenderDropped(a) => Gate!SenderDropped(a)
  BY <1>1, <1>2, <1>5 DEF SenderDropped, Gate!SenderDropped
<1>12. DecisionRecorded(a) => Gate!DecisionRecorded(a)
  BY <1>2, <1>4, <1>5, GateNames DEF DecisionRecorded, Gate!DecisionRecorded
<1>13. Reply(a) => Gate!Reply(a)
  BY <1>1, <1>2, <1>5 DEF Reply, Gate!Reply
<1>14. RequestFails(a) => Gate!RequestFails(a)
  BY <1>4, <1>5 DEF RequestFails, Gate!RequestFails
<1>15. RequesterHangsUp(a) => Gate!RequesterHangsUp(a)
  BY <1>1, <1>2, <1>5, GateNames DEF RequesterHangsUp, Gate!RequesterHangsUp
<1>. QED
  BY <1>5, <1>6, <1>7, <1>8, <1>9, <1>10, <1>11, <1>12, <1>13, <1>14, <1>15
     DEF RequestStep, Gate!RequestStep

LEMMA GateDecideSteps ==
  ASSUME NEW d \in Deciders, NEW g \in Gateways, NEW a \in Approvals
  PROVE  /\ DecideMalformed(d, g, a) => Gate!DecideMalformed(d, g, a)
         /\ \A said \in Decisions : Decide(d, g, a, said) => Gate!Decide(d, g, a, said)
         /\ \A said \in Decisions \cup {Malformed} :
              DecideUnknown(d, g, a, said) => Gate!DecideUnknown(d, g, a, said)
<1>1. Gate!Committed(a, Asked) <=> Committed(a, Asked)
  BY GateCommitted
<1>2. PcOfGate[a] = pc[a]
  BY DEF PcOfGate
<1>3. UNCHANGED linkVars => UNCHANGED Gate!linkVars
  BY DEF linkVars, Gate!linkVars, PcOfGate, CallsOfGate, LedgerOfGate
<1>4. \A told, said : Tell(d, told, a, said) => Gate!Tell(d, told, a, said)
  BY DEF Tell, Gate!Tell
<1>5. DecideMalformed(d, g, a) => Gate!DecideMalformed(d, g, a)
  BY <1>1, <1>3, <1>4, GateNames DEF DecideMalformed, Gate!DecideMalformed
<1>6. \A said : Decide(d, g, a, said) => Gate!Decide(d, g, a, said)
  BY <1>1, <1>2, <1>3, <1>4, GateNames DEF Decide, Gate!Decide
<1>7. \A said : DecideUnknown(d, g, a, said) => Gate!DecideUnknown(d, g, a, said)
  BY <1>1, <1>3, <1>4, GateNames DEF DecideUnknown, Gate!DecideUnknown
<1>. QED
  BY <1>5, <1>6, <1>7

LEMMA GateRestarts ==
  ASSUME NEW g \in Gateways, Restart(g)
  PROVE  Gate!Restart(g)
<1>1. PcOfGate' = [h \in Approvals |-> IF h \in Approvals /\ home[h] = g /\ PcOfGate[h] \in ApprovalActive
                                       THEN "gone" ELSE PcOfGate[h]]
  BY ApprovalsAssumption DEF Restart, PcOfGate
<1>2. UNCHANGED <<CallsOfGate, LedgerOfGate, home, answers>>
  BY DEF Restart, CallsOfGate, LedgerOfGate
<1>. QED
  BY <1>1, <1>2, GateNames DEF Restart, Gate!Restart

LEMMA GateLedgerSteps ==
  ASSUME LinkTypeOK, LinkTypeOK', UNCHANGED approvalVars,
         NEW c \in calls, LedgerCommits(c) \/ LedgerRefuses(c)
  PROVE  [Gate!GateNext]_(Gate!requestVars)
<1>1. PICK h \in Handlers, e \in Entries : c = <<h, e>>
  BY DEF LinkTypeOK
<1>2. calls' = calls \ {<<h, e>>} /\ pc' = pc
  BY <1>1 DEF LedgerCommits, LedgerRefuses
<1>3. UNCHANGED Gate!approvalVars
  BY DEF approvalVars, Gate!approvalVars
<1>4. CASE h \notin Approvals
  <2>1. \A a \in Approvals : ledger'[a] = ledger[a]
    BY <1>1, <1>4, ApprovalsAssumption DEF LedgerCommits, LedgerRefuses, LinkTypeOK
  <2>2. \A a \in Approvals : \A f : <<a, f>> \in calls' <=> <<a, f>> \in calls
    BY <1>2, <1>4
  <2>. QED
    BY <1>2, <2>1, <2>2, GateRests
<1>5. CASE h \in Approvals
  <2>1. c \in CallsOfGate /\ CallsOfGate' = CallsOfGate \ {c}
    BY <1>1, <1>2, <1>5 DEF CallsOfGate
  <2>2. PcOfGate' = PcOfGate
    BY <1>2 DEF PcOfGate
  <2>3. LedgerRefuses(c) => Gate!LedgerRefuses(c)
    BY <2>1, <2>2 DEF LedgerRefuses, Gate!LedgerRefuses, LedgerOfGate
  <2>4. LedgerCommits(c) => Gate!LedgerCommits(c)
    <3> HAVE LedgerCommits(c)
    <3>1. ledger' = [ledger EXCEPT ![h] = Append(ledger[h], e)]
      BY <1>1 DEF LedgerCommits
    <3>2. LedgerOfGate' = [a \in Approvals |-> IF a = h THEN Append(ledger[h], e) ELSE ledger[a]]
      BY <3>1, ApprovalsAssumption DEF LedgerOfGate, LinkTypeOK
    <3>3. LedgerOfGate' = [LedgerOfGate EXCEPT ![h] = Append(LedgerOfGate[h], e)]
      BY <1>5, <3>2 DEF LedgerOfGate
    <3>. QED
      BY <1>1, <2>1, <2>2, <3>3 DEF Gate!LedgerCommits
  <2>5. Gate!LedgerStep
    BY <2>1, <2>3, <2>4 DEF Gate!LedgerStep
  <2>. QED
    BY <1>3, <2>5 DEF Gate!GateNext
<1>. QED
  BY <1>4, <1>5

\* A step of another component leaves the gate's part of the link alone.
LEMMA GateIsLeftAlone ==
  ASSUME LinkTypeOK, NEW h \in Handlers \ Approvals, Alone(h), UNCHANGED approvalVars
  PROVE  UNCHANGED Gate!requestVars
<1>1. /\ LinkTypeOK' /\ calls \subseteq calls' /\ ledger' = ledger
      /\ \A a \in Approvals : AtRest(a)
  BY ApprovalsAssumption DEF Alone, LinkOK
<1>. QED
  BY <1>1, GateRests DEF AtRest

LEMMA GateSimulates == GatewayInv /\ [Next]_vars => [Gate!GateNext]_(Gate!requestVars)
<1> SUFFICES ASSUME GatewayInv, [Next]_vars
             PROVE  [Gate!GateNext]_(Gate!requestVars)
  OBVIOUS
<1>0. /\ LinkOK /\ GateOK /\ ToolsOK /\ RetrievalsOK /\ ReaderOK /\ PcOK
      /\ LinkTypeOK /\ LinkTypeOK'
  <2>1. GatewayInv'
    BY GatewayNextInv
  <2>. QED
    BY <2>1 DEF GatewayInv, LinkOK
<1>1. ASSUME UNCHANGED linkVars, UNCHANGED approvalVars
      PROVE  UNCHANGED Gate!requestVars
  BY <1>0, <1>1, GateRests DEF linkVars
<1>2. CASE UNCHANGED vars
  BY <1>1, <1>2 DEF vars
<1>3. CASE ApprovalNext /\ InApproval
  <2>1. ASSUME NEW a \in Approvals,
               (ResolveRun(a) /\ UNCHANGED approvalVars) \/ RequestStep(a) \/ RequesterHangsUp(a)
        PROVE  Gate!ApprovalNext
    BY <1>0, <2>1, GateRequestSteps DEF Gate!ApprovalNext
  <2>2. ASSUME NEW d \in Deciders, NEW g \in Gateways, NEW a \in Approvals,
               \/ DecideMalformed(d, g, a)
               \/ \E said \in Decisions : Decide(d, g, a, said)
               \/ \E said \in Decisions \cup {Malformed} : DecideUnknown(d, g, a, said)
        PROVE  Gate!ApprovalNext
    BY <2>2, GateDecideSteps, GateNames DEF Gate!ApprovalNext
  <2>3. ASSUME NEW g \in Gateways, Restart(g)
        PROVE  Gate!ApprovalNext
    BY <2>3, GateRestarts DEF Gate!ApprovalNext
  <2>. QED
    BY <1>3, <2>1, <2>2, <2>3 DEF ApprovalNext, Gate!GateNext
<1>4. CASE ToolNext /\ InTool
  <2>1. PICK t \in ToolCalls :
          UnknownTool(t) \/ Accept(t) \/ ProxyStep(t) \/ CallerHangsUp(t) \/ BackendStep(t)
    BY <1>4 DEF ToolNext
  <2>2. UNCHANGED linkVars \/ Alone(t)
    BY <1>0, <2>1, BackendKeepsTools, ToolKeepsTools
  <2>3. t \in Handlers \ Approvals
    BY ToolCallsAssumption, RoutesAssumption
  <2>. QED
    BY <1>0, <1>1, <1>4, <2>2, <2>3, GateIsLeftAlone DEF InTool
<1>5. CASE RetrievalNext /\ InRetrieval
  <2>1. PICK q \in Retrievals : NoBackend(q) \/ AcceptQuery(q) \/ RetrievalStep(q) \/ QuerierHangsUp(q)
                                  \/ RetrievalBackendStep(q)
    BY <1>5 DEF RetrievalNext
  <2>2. UNCHANGED linkVars \/ Alone(q)
    BY <1>0, <2>1, BackendKeepsRetrievals, RetrievalKeepsRetrievals
  <2>3. q \in Handlers \ Approvals
    BY RetrievalsAssumption, RoutesAssumption
  <2>. QED
    BY <1>0, <1>1, <1>5, <2>2, <2>3, GateIsLeftAlone DEF InRetrieval
<1>6. CASE DossierNext /\ InDossier
  BY <1>0, <1>1, <1>6, ReaderReads DEF InDossier
<1>7. CASE LedgerActs
  <2>1. PICK c \in calls : PutBlob(c) \/ LedgerCommits(c) \/ LedgerRefuses(c)
    BY <1>7 DEF LedgerActs, RetrievalLedgerStep
  <2>2. UNCHANGED approvalVars
    BY <1>7 DEF LedgerActs
  <2>3. CASE PutBlob(c)
    BY <1>1, <2>2, <2>3 DEF PutBlob
  <2>. QED
    BY <1>0, <2>1, <2>2, <2>3, GateLedgerSteps
<1>. QED
  BY <1>2, <1>3, <1>4, <1>5, <1>6, <1>7 DEF Next

\* Nothing in the gateway connects the gate with the proxies: whatever they,
\* the reader and the ledger do, the gate behaves as Approval alone does.
THEOREM GatewayRunsItsGate == Spec => Gate!ApprovalSpec
<1>1. Init => Gate!GateInit
  BY ApprovalsAssumption
     DEF Init, LinkInit, ApprovalInit, Gate!GateInit, Gate!LinkInit, Gate!ApprovalInit,
         PcOfGate, CallsOfGate, LedgerOfGate, Gate!NoAnswer, NoAnswer
<1>. QED
  BY <1>1, GateSimulates, GatewayInvariant, PTL DEF Spec, Gate!ApprovalSpec

\* A sender is stashed before its approval is announced, and taken from the
\* map only to be used or dropped, also beside the proxies.
THEOREM GatewayWaitersAreReachable == Spec => []WaiterIsReachable
<1>1. Gate!ApprovalSpec => []Gate!WaiterIsReachable
  BY Gate!WaitersAreReachable, StampedAssumption, ApprovalEntriesAssumption, GateNames
<1>2. Gate!WaiterIsReachable => WaiterIsReachable
  BY GateNames DEF Gate!WaiterIsReachable, WaiterIsReachable, PcOfGate
<1>. QED
  BY <1>1, <1>2, GatewayRunsItsGate, PTL

\* At most one decide on an approval is told ok, and the ledger sees no other
\* decision, whatever else the gateway sends it.
THEOREM GatewayTheFirstDecisionStands == Spec => []FirstDecideWins
<1>1. Gate!ApprovalSpec => []Gate!FirstDecideWins
  BY Gate!TheFirstDecisionStands, StampedAssumption, ApprovalEntriesAssumption, GateNames
<1>2. Gate!FirstDecideWins => FirstDecideWins
  <2>1. \A a \in Approvals : \A e : Gate!Committed(a, e) <=> Committed(a, e)
    BY GateCommitted
  <2>2. \A S : Gate!Cardinality(S) = Cardinality(S)
    BY DEF Gate!Cardinality, Cardinality
  <2>. QED
    BY <2>1, <2>2, GateNames DEF Gate!FirstDecideWins, FirstDecideWins
<1>. QED
  BY <1>1, <1>2, GatewayRunsItsGate, PTL

\* WitnessedOutcome over what is announced, taken, recorded and reported.
PromiseStart(n, o, r, p) ==
  n = {} /\ o = [a \in Approvals |-> None] /\ r = [a \in Approvals |-> None] /\ p = [a \in Approvals |-> None]

PromiseStep(n, o, r, p, n2, o2, r2, p2) ==
  \/ <<n2, o2, r2, p2>> = <<n, o, r, p>>
  \/ \E a \in Approvals :
       \/ n2 = n \cup {a} /\ <<o2, r2, p2>> = <<o, r, p>>
       \/ /\ o[a] # None /\ r[a] = None /\ r2 = [r EXCEPT ![a] = o[a]]
          /\ <<n2, o2, p2>> = <<n, o, p>>
       \/ /\ r[a] # None /\ p[a] = None /\ p2 = [p EXCEPT ![a] = r[a]]
          /\ <<n2, o2, r2>> = <<n, o, r>>
       \/ /\ a \in n /\ o[a] = None /\ \E s \in Decisions : o2 = [o EXCEPT ![a] = s]
          /\ <<n2, r2, p2>> = <<n, r, p>>

\* A decision is asked for in the ledger, taken once, recorded as taken and
\* reported only after that, by the gateway as a whole.
THEOREM GatewayImplementsWitnessedOutcome == Spec => DecisionsAreWitnessed
<1>1. Gate!ApprovalSpec => Gate!DecisionsAreWitnessed
  BY Gate!ImplementsWitnessedOutcome, StampedAssumption, ApprovalEntriesAssumption, GateNames
<1>2. /\ Gate!AnnouncedOf = AnnouncedOf /\ Gate!DecidedOf = DecidedOf
      /\ Gate!RecordedOf = RecordedOf /\ Gate!ReportedOf = ReportedOf
  <2>1. \A a \in Approvals : \A e : Gate!Committed(a, e) <=> Committed(a, e)
    BY GateCommitted
  <2>2. \A a \in Approvals : Gate!CommittedDecision(a) = CommittedDecision(a)
    BY <2>1, GateNames DEF Gate!CommittedDecision, CommittedDecision
  <2>3. Gate!AnnouncedOf = AnnouncedOf
    BY <2>1, GateNames DEF Gate!AnnouncedOf, AnnouncedOf
  <2>4. Gate!DecidedOf = DecidedOf /\ Gate!ReportedOf = ReportedOf
    BY GateNames DEF Gate!DecidedOf, DecidedOf, Gate!ReportedOf, ReportedOf, PcOfGate
  <2>5. Gate!RecordedOf = RecordedOf
    <3>1. Gate!RecordedOf = [a \in Approvals |-> OneOf(Gate!CommittedDecision(a))]
      BY GateNames DEF Gate!RecordedOf, OneOf
    <3>. QED
      BY <2>2, <3>1, RecordedIsOne
  <2>. QED
    BY <2>3, <2>4, <2>5
<1>3. (/\ Gate!AnnouncedOf = AnnouncedOf /\ Gate!DecidedOf = DecidedOf
       /\ Gate!RecordedOf = RecordedOf /\ Gate!ReportedOf = ReportedOf)'
  BY <1>2, PTL
<1>4. Gate!DecisionPromise!Init => DecisionPromise!Init
  <2>1. Gate!DecisionPromise!Init =>
          PromiseStart(Gate!AnnouncedOf, Gate!DecidedOf, Gate!RecordedOf, Gate!ReportedOf)
    BY GateNames
       DEF Gate!DecisionPromise!Init, Gate!AnnouncedOf, Gate!DecidedOf, Gate!RecordedOf, Gate!ReportedOf,
           PromiseStart
  <2>2. PromiseStart(AnnouncedOf, DecidedOf, RecordedOf, ReportedOf) => DecisionPromise!Init
    BY DEF DecisionPromise!Init, AnnouncedOf, DecidedOf, RecordedOf, ReportedOf, PromiseStart
  <2>. QED
    BY <1>2, <2>1, <2>2
<1>5. [Gate!DecisionPromise!Next]_(Gate!DecisionPromise!vars) =>
        [DecisionPromise!Next]_(DecisionPromise!vars)
  <2>1. [Gate!DecisionPromise!Next]_(Gate!DecisionPromise!vars) =>
          PromiseStep(Gate!AnnouncedOf, Gate!DecidedOf, Gate!RecordedOf, Gate!ReportedOf,
                      Gate!AnnouncedOf', Gate!DecidedOf', Gate!RecordedOf', Gate!ReportedOf')
    BY GateNames
       DEF Gate!DecisionPromise!Next, Gate!DecisionPromise!vars, Gate!DecisionPromise!Announce,
           Gate!DecisionPromise!Happen, Gate!DecisionPromise!Record, Gate!DecisionPromise!Report,
           Gate!AnnouncedOf, Gate!DecidedOf, Gate!RecordedOf, Gate!ReportedOf, PromiseStep
  <2>2. PromiseStep(AnnouncedOf, DecidedOf, RecordedOf, ReportedOf,
                    AnnouncedOf', DecidedOf', RecordedOf', ReportedOf') =>
          [DecisionPromise!Next]_(DecisionPromise!vars)
    BY DEF DecisionPromise!Next, DecisionPromise!vars, DecisionPromise!Announce, DecisionPromise!Happen,
           DecisionPromise!Record, DecisionPromise!Report,
           AnnouncedOf, DecidedOf, RecordedOf, ReportedOf, PromiseStep
  <2>. QED
    BY <1>2, <1>3, <2>1, <2>2
<1>. QED
  BY <1>1, <1>4, <1>5, GatewayRunsItsGate, PTL
     DEF Gate!DecisionsAreWitnessed, DecisionsAreWitnessed, Gate!DecisionPromise!Spec, DecisionPromise!Spec


-----------------------------------------------------------------------------
(* The runs of all handlers *)

RunEntries == {Entry("run"), Entry("binding")}

\* The handler's run is known: the caller brought it, or it is minted.
HasRun(h) == h \in Identified \/ Committed(h, Entry("run"))

BeforeRun == {"idle", "minting", "stamping"}

\* A run that is minted comes first, and is stamped once.
RunAt(h) ==
  /\ pc[h] = "idle" => \A e : ~ Sent(h, e)
  /\ pc[h] = "minting" => ~ Sent(h, Entry("binding"))
  /\ pc[h] \in {"idle", "minting", "failed", "gone"} \/ HasRun(h)
  /\ \A e : Sent(h, e) => e = Entry("run") \/ HasRun(h)
  /\ h \in Identified => /\ pc[h] \notin {"minting", "stamping"}
                         /\ \A e \in RunEntries : ~ Sent(h, e)
  /\ <<h, Entry("run")>> \in calls => ledger[h] = <<>>
  /\ <<h, Entry("binding")>> \in calls => ~ Committed(h, Entry("binding"))

LeftAloneAt(h, L, i) ==
  /\ h \in Identified => L[i] \notin RunEntries
  /\ h \notin Identified => (L[i] = Entry("run") <=> i = 1)
  /\ \A j \in 1 .. i - 1 : L[i] = Entry("binding") => L[j] # L[i]

LeftAlone(h) == \A i \in 1 .. Len(ledger[h]) : LeftAloneAt(h, ledger[h], i)

RunsOK == \A h \in Handlers : RunAt(h) /\ LeftAlone(h)

\* What a step of its handler may be, as far as its run goes.
Advances(h) ==
  \/ pc[h] = "idle" /\ h \notin Identified /\ GotoSending(h, "minting", Entry("run"))
  \/ pc[h] = "minting" /\ HasRun(h) /\ GotoSending(h, "stamping", Entry("binding"))
  \/ \E next \in {"failed", "gone"} : GotoQuietly(h, next)
  \/ /\ pc[h] \in BeforeRun => HasRun(h)
     /\ pc[h] \notin {"failed", "gone"}
     /\ \E next \in States \ BeforeRun : GotoQuietly(h, next)
  \/ /\ pc[h] \notin BeforeRun \cup {"failed", "gone"}
     /\ \E next \in States \ BeforeRun, e \in Entries \ RunEntries : GotoSending(h, next, e)

LEMMA RunQuiet ==
  ASSUME NEW h, RunAt(h), LeftAlone(h), ledger'[h] = ledger[h],
         \A e : <<h, e>> \in calls' => <<h, e>> \in calls,
         pc'[h] = pc[h] \/ pc'[h] \in {"failed", "gone"} \/ (pc'[h] \notin BeforeRun /\ HasRun(h))
  PROVE  RunAt(h)' /\ LeftAlone(h)'
<1>1. \A e : (Committed(h, e)' <=> Committed(h, e)) /\ (Sent(h, e)' => Sent(h, e))
  BY DEF Committed, Sent
<1>2. HasRun(h)' <=> HasRun(h)
  BY <1>1 DEF HasRun, Entry
<1>3. RunAt(h)'
  BY <1>1, <1>2 DEF RunAt, BeforeRun, RunEntries, Entry
<1>4. LeftAlone(h)'
  BY DEF LeftAlone, LeftAloneAt, RunEntries, Entry
<1>. QED
  BY <1>3, <1>4

LEMMA RunSends ==
  ASSUME NEW h, RunAt(h), LeftAlone(h), ledger'[h] = ledger[h], NEW e,
         \A f : <<h, f>> \in calls' => <<h, f>> \in calls \/ f = e,
         \/ pc[h] = "idle" /\ h \notin Identified /\ pc'[h] = "minting" /\ e = Entry("run")
         \/ pc[h] = "minting" /\ HasRun(h) /\ pc'[h] = "stamping" /\ e = Entry("binding")
         \/ HasRun(h) /\ pc'[h] \notin BeforeRun /\ e \notin RunEntries,
         pc[h] = "idle" => ledger[h] = <<>>
  PROVE  RunAt(h)' /\ LeftAlone(h)'
<1>1. \A f : (Committed(h, f)' <=> Committed(h, f)) /\ (Sent(h, f)' => Sent(h, f) \/ f = e)
  BY DEF Committed, Sent
<1>2. HasRun(h)' <=> HasRun(h)
  BY <1>1 DEF HasRun, Entry
<1>3. Entry("run") # Entry("binding")
  BY EntriesDiffer
<1>4. \A f : Committed(h, f) => Sent(h, f)
  BY DEF Sent
<1>5. ASSUME pc[h] = "idle", h \notin Identified, pc'[h] = "minting", e = Entry("run")
      PROVE  RunAt(h)'
  BY <1>1, <1>2, <1>3, <1>5 DEF RunAt, RunEntries, Entry
<1>6. ASSUME pc[h] = "minting", HasRun(h), pc'[h] = "stamping", e = Entry("binding")
      PROVE  RunAt(h)'
  BY <1>1, <1>2, <1>3, <1>4, <1>6 DEF RunAt, RunEntries, Entry
<1>7. ASSUME HasRun(h), pc'[h] \notin BeforeRun, e \notin RunEntries
      PROVE  RunAt(h)'
  BY <1>1, <1>2, <1>3, <1>7 DEF RunAt, RunEntries, BeforeRun, Entry
<1>8. LeftAlone(h)'
  BY DEF LeftAlone, LeftAloneAt, RunEntries, Entry
<1>. QED
  BY <1>5, <1>6, <1>7, <1>8

LEMMA RunGains ==
  ASSUME LinkTypeOK, NEW h \in Handlers, NEW e \in Entries, Gains(h, e), RunAt(h), LeftAlone(h)
  PROVE  RunAt(h)' /\ LeftAlone(h)'
<1>1. /\ Len(ledger[h]) \in Nat /\ Len(ledger'[h]) = Len(ledger[h]) + 1
      /\ ledger'[h][Len(ledger[h]) + 1] = e
      /\ \A i \in 1 .. Len(ledger[h]) : ledger'[h][i] = ledger[h][i]
      /\ \A f : Committed(h, f)' <=> Committed(h, f) \/ f = e
      /\ \A f : Sent(h, f)' => Sent(h, f)
      /\ Sent(h, e)
  BY GainsSent
<1>2. /\ pc'[h] = pc[h] /\ <<h, e>> \in calls
      /\ \A f : <<h, f>> \in calls' => <<h, f>> \in calls /\ f # e
  BY DEF Gains
<1>3. HasRun(h) => HasRun(h)'
  BY <1>1 DEF HasRun, Entry
<1>4. e = Entry("run") => ledger[h] = <<>>
  BY <1>2 DEF RunAt
<1>5. e # Entry("run") => HasRun(h)
  BY <1>1 DEF RunAt
<1>6. HasRun(h)'
  BY <1>1, <1>3, <1>5 DEF HasRun, Entry
<1>7. <<h, Entry("run")>> \notin calls'
  <2>1. CASE e = Entry("run")
    BY <1>2, <2>1
  <2>2. CASE e # Entry("run")
    <3>1. h \in Identified \/ ledger[h] # <<>>
      BY <1>5, <2>2 DEF HasRun, Committed, ToSet
    <3>. QED
      BY <1>2, <3>1 DEF RunAt, RunEntries, Sent
  <2>. QED
    BY <2>1, <2>2
<1>8. RunAt(h)'
  BY <1>1, <1>2, <1>6, <1>7 DEF RunAt, RunEntries, Entry
<1>9. LeftAlone(h)'
  <2> SUFFICES ASSUME NEW i \in 1 .. Len(ledger'[h])
               PROVE  LeftAloneAt(h, ledger'[h], i)
    BY DEF LeftAlone, LeftAloneAt, RunEntries, Entry
  <2>1. CASE i \in 1 .. Len(ledger[h])
    BY <1>1, <2>1 DEF LeftAlone, LeftAloneAt
  <2>2. CASE i = Len(ledger[h]) + 1
    <3>1. ledger'[h][i] = e
      BY <1>1, <2>2
    <3>2. h \in Identified => e \notin RunEntries
      BY <1>1 DEF RunAt
    <3>3. h \notin Identified => (e = Entry("run") <=> i = 1)
      <4>1. ledger[h] = <<>> => i = 1
        BY <2>2
      <4>2. h \notin Identified /\ e # Entry("run") => Len(ledger[h]) # 0
        BY <1>1, <1>5, CommittedIsAt DEF HasRun
      <4>. QED
        BY <1>1, <1>4, <2>2, <4>1, <4>2
    <3>4. \A j \in 1 .. i - 1 : e = Entry("binding") => ledger'[h][j] # e
      <4>1. e = Entry("binding") => ~ Committed(h, e)
        BY <1>2 DEF RunAt
      <4>2. \A j \in 1 .. Len(ledger[h]) : Committed(h, ledger[h][j])
        BY CommittedIsAt
      <4>3. i - 1 = Len(ledger[h])
        BY <1>1, <2>2
      <4>. QED
        BY <1>1, <4>1, <4>2, <4>3
    <3>. QED
      BY <3>1, <3>2, <3>3, <3>4 DEF LeftAloneAt
  <2>. QED
    BY <1>1, <2>1, <2>2
<1>. QED
  BY <1>8, <1>9

LEMMA RunAdvances ==
  ASSUME LinkOK, NEW h \in Handlers, RunAt(h), LeftAlone(h), Advances(h)
  PROVE  RunAt(h)' /\ LeftAlone(h)'
<1>1. pc[h] = "idle" => ledger[h] = <<>>
  <2>1. ledger[h] \in Seq(Entries)
    BY DEF LinkOK, LinkTypeOK
  <2>2. ledger[h] # <<>> => 1 \in 1 .. Len(ledger[h])
    BY <2>1
  <2>3. ledger[h] # <<>> => Committed(h, ledger[h][1])
    BY <2>2, CommittedIsAt DEF LinkOK
  <2>. QED
    BY <2>3 DEF RunAt, Sent
<1>2. \A next : GotoQuietly(h, next) =>
        /\ pc'[h] = next /\ ledger'[h] = ledger[h]
        /\ \A e : <<h, e>> \in calls' => <<h, e>> \in calls
  BY DEF GotoQuietly, Goto, LinkOK, PcOK
<1>3. \A next, e : GotoSending(h, next, e) =>
        /\ pc'[h] = next /\ ledger'[h] = ledger[h]
        /\ \A f : <<h, f>> \in calls' => <<h, f>> \in calls \/ f = e
  BY DEF GotoSending, Goto, Send, LinkOK, PcOK
<1>4. pc[h] \notin BeforeRun \cup {"failed", "gone"} => HasRun(h)
  BY DEF RunAt, BeforeRun
<1>5. CASE pc[h] = "idle" /\ h \notin Identified /\ GotoSending(h, "minting", Entry("run"))
  BY <1>1, <1>3, <1>5, RunSends
<1>6. CASE pc[h] = "minting" /\ HasRun(h) /\ GotoSending(h, "stamping", Entry("binding"))
  BY <1>3, <1>6, RunSends
<1>7. CASE \E next \in {"failed", "gone"} : GotoQuietly(h, next)
  BY <1>2, <1>7, RunQuiet
<1>8. CASE /\ pc[h] \in BeforeRun => HasRun(h)
           /\ pc[h] \notin {"failed", "gone"}
           /\ \E next \in States \ BeforeRun : GotoQuietly(h, next)
  BY <1>2, <1>4, <1>8, RunQuiet
<1>9. CASE /\ pc[h] \notin BeforeRun \cup {"failed", "gone"}
           /\ \E next \in States \ BeforeRun, e \in Entries \ RunEntries : GotoSending(h, next, e)
  <2>1. PICK next \in States \ BeforeRun, e \in Entries \ RunEntries : GotoSending(h, next, e)
    BY <1>9
  <2>. QED
    BY <1>3, <1>4, <1>9, <2>1, RunSends DEF BeforeRun
<1>. QED
  BY <1>5, <1>6, <1>7, <1>8, <1>9 DEF Advances

\* resolve_or_mint_run, for whichever handler calls it.
LEMMA ResolvingAdvances ==
  ASSUME NEW h, RunAt(h), ResolveRun(h) \/ ResolveStep(h)
  PROVE  Advances(h)
<1>1. "ready" \in States \ BeforeRun
  BY DEF States, ApprovalActive, BeforeRun
<1>2. CASE ResolveRun(h)
  BY <1>1, <1>2 DEF ResolveRun, Advances, HasRun, BeforeRun
<1>3. CASE RunMinted(h)
  BY <1>1, <1>3 DEF RunMinted, Ok, Advances, HasRun, BeforeRun
<1>4. CASE Err(h, "minting")
  BY <1>4 DEF Err, Advances
<1>5. CASE StampingDone(h)
  BY <1>1, <1>5 DEF StampingDone, Advances, BeforeRun, RunAt
<1>. QED
  BY <1>2, <1>3, <1>4, <1>5 DEF ResolveStep

LEMMA RequestAdvances ==
  ASSUME GateOK, NEW a \in Approvals, RunAt(a),
         ResolveRun(a) \/ RequestStep(a) \/ RequesterHangsUp(a)
  PROVE  Advances(a)
<1>1. /\ {"requesting", "waiting", "recording", "evidencing", "replied"} \subseteq States \ BeforeRun
      /\ {"ready", "requesting", "waiting", "recording", "evidencing"}
           \cap (BeforeRun \cup {"failed", "gone"}) = {}
  BY DEF States, ApprovalActive, Listening, Ended, BeforeRun
<1>2. /\ Asked \in Entries \ RunEntries
      /\ \A s \in Decisions : Event(s) \in Entries \ RunEntries /\ Evidence(s) \in Entries \ RunEntries
  BY EntriesDiffer, EntriesType DEF RunEntries
<1>3. CASE ResolveRun(a) \/ ResolveStep(a)
  BY <1>3, ResolvingAdvances
<1>4. CASE Stash(a)
  BY <1>1, <1>2, <1>4 DEF Stash, Advances
<1>5. CASE Receive(a)
  BY <1>1, <1>2, <1>5 DEF Receive, Advances
<1>6. CASE DecisionRecorded(a)
  <2>1. pc[a] = "recording" /\ channel[a] \in Decisions /\ GotoSending(a, "evidencing", Evidence(channel[a]))
    BY <1>6 DEF DecisionRecorded, Ok, GateOK, ApprovalAt
  <2>. QED
    BY <1>1, <1>2, <2>1 DEF Advances
<1>7. CASE RequestRecorded(a) \/ Reply(a)
  BY <1>1, <1>7 DEF RequestRecorded, Reply, Ok, Advances
<1>8. CASE SenderDropped(a) \/ RequestFails(a) \/ RequesterHangsUp(a)
  BY <1>8 DEF SenderDropped, RequestFails, RequesterHangsUp, Err, Advances
<1>. QED
  BY <1>3, <1>4, <1>5, <1>6, <1>7, <1>8 DEF RequestStep

LEMMA ToolAdvances ==
  ASSUME ToolsOK, NEW t \in ToolCalls, RunAt(t),
         UnknownTool(t) \/ Accept(t) \/ ProxyStep(t) \/ CallerHangsUp(t)
  PROVE  Advances(t)
<1>1. /\ {"calling", "forwarding", "logging", "mirroring", "confirming", "replied"} \subseteq States \ BeforeRun
      /\ {"ready", "calling", "forwarding", "logging", "mirroring", "confirming"}
           \cap (BeforeRun \cup {"failed", "gone"}) = {}
  BY DEF States, ToolActive, Ended, BeforeRun
<1>2. /\ Call \in Entries \ RunEntries /\ Invocation \in Entries \ RunEntries
      /\ \A s \in Statuses : Outcome(s) \in Entries \ RunEntries
      /\ \A i \in 1 .. MaxEffects[t], linked \in BOOLEAN : Effect(i, linked) \in Entries \ RunEntries
  BY ToolEntriesAssumption, RunEntriesDiffer DEF ToolEntries, RunEntries
<1>3. CASE Accept(t) \/ ResolveStep(t)
  BY <1>3, ResolvingAdvances DEF Accept
<1>4. CASE RecordCall(t)
  BY <1>1, <1>2, <1>4 DEF RecordCall, Advances
<1>5. CASE Forward(t)
  BY <1>1, <1>5 DEF Forward, Ok, Advances
<1>6. CASE RecordOutcome(t)
  BY <1>1, <1>2, <1>6 DEF RecordOutcome, Advances
<1>7. CASE RecordInvocation(t)
  BY <1>1, <1>2, <1>7 DEF RecordInvocation, Ok, Advances
<1>8. CASE InvocationDone(t) \/ EffectDone(t)
  <2>1. /\ item[t] \in Nat /\ effects[t] \in Nat /\ effects[t] <= MaxEffects[t] /\ MaxEffects[t] \in Nat
        /\ invocation[t] \in BOOLEAN
    BY EffectsAssumption DEF ToolsOK, ToolTypeOK
  <2>2. \E i \in Nat \ {0}, linked \in BOOLEAN : NextEffect(t, i, linked)
    <3>1. CASE InvocationDone(t)
      <4>1. PICK linked \in {FALSE, Committed(t, Invocation)} : NextEffect(t, 1, linked)
        BY <3>1 DEF InvocationDone
      <4>2. Committed(t, Invocation) \in BOOLEAN
        BY DEF Committed
      <4>3. linked \in BOOLEAN
        BY <4>1, <4>2, Zenon
      <4>. QED
        BY <4>1, <4>3
    <3>2. CASE EffectDone(t)
      <4>1. NextEffect(t, item[t] + 1, invocation[t])
        BY <3>2 DEF EffectDone
      <4>. QED
        BY <2>1, <4>1
    <3>. QED
      BY <1>8, <3>1, <3>2
  <2>3. PICK i \in Nat \ {0}, linked \in BOOLEAN : NextEffect(t, i, linked)
    BY <2>2
  <2>4. pc[t] \in {"mirroring", "confirming"}
    BY <1>8 DEF InvocationDone, EffectDone
  <2>5. i <= effects[t] => i \in 1 .. MaxEffects[t]
    BY <2>1
  <2>6. \/ i <= effects[t] /\ GotoSending(t, "confirming", Effect(i, linked))
        \/ GotoQuietly(t, "replied")
    BY <2>3 DEF NextEffect
  <2>. QED
    BY <1>1, <1>2, <2>4, <2>5, <2>6 DEF Advances
<1>9. CASE UnknownTool(t) \/ BackendErr(t) \/ ProxyFails(t) \/ CallerHangsUp(t)
  BY <1>9 DEF UnknownTool, BackendErr, ProxyFails, CallerHangsUp, Err, Advances
<1>. QED
  BY <1>3, <1>4, <1>5, <1>6, <1>7, <1>8, <1>9 DEF ProxyStep

LEMMA QueryAdvances ==
  ASSUME RetrievalsOK, NEW q \in Retrievals, RunAt(q),
         NoBackend(q) \/ AcceptQuery(q) \/ RetrievalStep(q) \/ QuerierHangsUp(q)
  PROVE  Advances(q)
<1>1. /\ {"querying", "fetching", "uploading", "concluding", "erring", "replied"} \subseteq States \ BeforeRun
      /\ {"ready", "querying", "fetching", "uploading", "concluding", "erring"}
           \cap (BeforeRun \cup {"failed", "gone"}) = {}
  BY DEF States, RetrievalActive, Ended, BeforeRun
<1>2. /\ Query \in Entries \ RunEntries /\ Result \in Entries \ RunEntries
      /\ QueryError \in Entries \ RunEntries
      /\ \A i \in 1 .. MaxDocs : Artifact(i) \in Entries \ RunEntries
  BY RetrievalEntriesAssumption, RetrievalEntriesDiffer DEF RetrievalEntries, RunEntries
<1>3. CASE AcceptQuery(q) \/ ResolveStep(q)
  BY <1>3, ResolvingAdvances DEF AcceptQuery
<1>4. CASE RecordQuery(q) \/ FetchedError(q)
  BY <1>1, <1>2, <1>4 DEF RecordQuery, FetchedError, Advances
<1>5. CASE Ask(q) \/ ReplyQuery(q)
  BY <1>1, <1>5 DEF Ask, ReplyQuery, Ok, Advances
<1>6. CASE Fetched(q) \/ Uploaded(q)
  <2>1. doc[q] \in Nat /\ Len(docs[q]) \in Nat /\ Len(docs[q]) <= MaxDocs /\ MaxDocs \in Nat
    <3>1. docs[q] \in Seq(Contents) /\ doc[q] \in 0 .. Len(docs[q]) /\ Len(docs[q]) <= MaxDocs
      BY DEF RetrievalsOK, RetrievalTypeOK
    <3>. QED
      BY <3>1, DocsAssumption
  <2>2. PICK i \in Nat \ {0} : NextDoc(q, i)
    BY <1>6, <2>1 DEF Fetched, Uploaded
  <2>3. i <= Len(docs[q]) => i \in 1 .. MaxDocs
    BY <2>1
  <2>4. \/ i <= Len(docs[q]) /\ GotoSending(q, "uploading", Artifact(i))
        \/ GotoSending(q, "concluding", Result)
    BY <2>2 DEF NextDoc
  <2>5. pc[q] \in {"fetching", "uploading"}
    BY <1>6 DEF Fetched, Uploaded, Ok
  <2>. QED
    BY <1>1, <1>2, <2>3, <2>4, <2>5 DEF Advances
<1>7. CASE NoBackend(q) \/ FetchFails(q) \/ RetrievalFails(q) \/ QuerierHangsUp(q)
  BY <1>7 DEF NoBackend, FetchFails, RetrievalFails, QuerierHangsUp, Err, Advances
<1>. QED
  BY <1>3, <1>4, <1>5, <1>6, <1>7 DEF RetrievalStep

\* The step of one handler, as all see it.
LEMMA RunsAdvance ==
  ASSUME LinkOK, RunsOK, NEW h \in Handlers, Alone(h), Advances(h)
  PROVE  RunsOK'
<1>1. RunAt(h)' /\ LeftAlone(h)'
  BY RunAdvances DEF RunsOK
<1>2. \A g \in Handlers \ {h} : RunAt(g)' /\ LeftAlone(g)'
  <2> TAKE g \in Handlers \ {h}
  <2>1. RunAt(g) /\ LeftAlone(g) /\ AtRest(g)
    BY DEF RunsOK, Alone
  <2>. QED
    BY <2>1, RunQuiet DEF AtRest
<1>. QED
  BY <1>1, <1>2 DEF RunsOK

LEMMA RunsRest ==
  ASSUME RunsOK, \A h \in Handlers : AtRest(h)
  PROVE  RunsOK'
<1>1. ASSUME NEW h \in Handlers
      PROVE  RunAt(h)' /\ LeftAlone(h)'
  <2>1. RunAt(h) /\ LeftAlone(h) /\ AtRest(h)
    BY DEF RunsOK
  <2>. QED
    BY <2>1, RunQuiet DEF AtRest
<1>. QED
  BY <1>1 DEF RunsOK

LEMMA RunsRestart ==
  ASSUME RunsOK, NEW g \in Gateways, Restart(g)
  PROVE  RunsOK'
<1>1. ASSUME NEW h \in Handlers
      PROVE  RunAt(h)' /\ LeftAlone(h)'
  <2>1. RunAt(h) /\ LeftAlone(h)
    BY DEF RunsOK
  <2>2. /\ pc'[h] = pc[h] \/ pc'[h] = "gone"
        /\ ledger'[h] = ledger[h] /\ calls' = calls
    BY DEF Restart
  <2>. QED
    BY <2>1, <2>2, RunQuiet
<1>. QED
  BY <1>1 DEF RunsOK

LEMMA RunsInit == Init => RunsOK
<1> SUFFICES ASSUME Init, NEW h \in Handlers
             PROVE  RunAt(h) /\ LeftAlone(h)
  BY DEF RunsOK
<1>1. pc[h] = "idle" /\ ledger[h] = <<>> /\ calls = {}
  BY DEF Init, LinkInit
<1>2. \A e : ~ Sent(h, e) /\ ~ Committed(h, e)
  BY <1>1 DEF Sent, Committed, ToSet
<1>. QED
  BY <1>1, <1>2 DEF RunAt, LeftAlone

LEMMA RunsNext == GatewayInv /\ RunsOK /\ [Next]_vars => RunsOK'
<1> SUFFICES ASSUME GatewayInv, RunsOK, [Next]_vars
             PROVE  RunsOK'
  OBVIOUS
<1>0. LinkOK /\ GateOK /\ ToolsOK /\ RetrievalsOK /\ ReaderOK
  BY DEF GatewayInv
<1>1. UNCHANGED linkVars => RunsOK'
  BY RunsRest, NothingMoves
<1>2. CASE UNCHANGED vars
  BY <1>1, <1>2 DEF vars
<1>3. CASE ApprovalNext /\ InApproval
  <2>1. ASSUME NEW a \in Approvals,
               (ResolveRun(a) /\ UNCHANGED approvalVars) \/ RequestStep(a) \/ RequesterHangsUp(a)
        PROVE  RunsOK'
    <3>1. a \in Handlers /\ RunAt(a)
      BY ApprovalsAssumption DEF RunsOK
    <3>2. Alone(a)
      BY <1>0, <2>1, RequestKeepsGate
    <3>3. Advances(a)
      BY <1>0, <2>1, <3>1, RequestAdvances
    <3>. QED
      BY <1>0, <3>1, <3>2, <3>3, RunsAdvance
  <2>2. ASSUME NEW d \in Deciders, NEW g \in Gateways, NEW a \in Approvals,
               \/ DecideMalformed(d, g, a)
               \/ \E said \in Decisions : Decide(d, g, a, said)
               \/ \E said \in Decisions \cup {Malformed} : DecideUnknown(d, g, a, said)
        PROVE  RunsOK'
    BY <1>0, <1>1, <2>2, DecideKeepsGate, DecideUnknownKeepsGate
  <2>3. ASSUME NEW g \in Gateways, Restart(g)
        PROVE  RunsOK'
    BY <2>3, RunsRestart
  <2>. QED
    BY <1>3, <2>1, <2>2, <2>3 DEF ApprovalNext
<1>4. CASE ToolNext /\ InTool
  <2>1. PICK t \in ToolCalls :
          UnknownTool(t) \/ Accept(t) \/ ProxyStep(t) \/ CallerHangsUp(t) \/ BackendStep(t)
    BY <1>4 DEF ToolNext
  <2>2. t \in Handlers /\ RunAt(t)
    BY ToolCallsAssumption DEF RunsOK
  <2>3. CASE BackendStep(t)
    BY <1>0, <1>1, <2>3, BackendKeepsTools
  <2>4. CASE UnknownTool(t) \/ Accept(t) \/ ProxyStep(t) \/ CallerHangsUp(t)
    <3>1. Alone(t)
      BY <1>0, <2>4, ToolKeepsTools
    <3>2. Advances(t)
      BY <1>0, <2>2, <2>4, ToolAdvances
    <3>. QED
      BY <1>0, <2>2, <3>1, <3>2, RunsAdvance
  <2>. QED
    BY <2>1, <2>3, <2>4
<1>5. CASE RetrievalNext /\ InRetrieval
  <2>1. PICK q \in Retrievals : NoBackend(q) \/ AcceptQuery(q) \/ RetrievalStep(q) \/ QuerierHangsUp(q)
                                  \/ RetrievalBackendStep(q)
    BY <1>5 DEF RetrievalNext
  <2>2. q \in Handlers /\ RunAt(q)
    BY RetrievalsAssumption DEF RunsOK
  <2>3. CASE RetrievalBackendStep(q)
    BY <1>0, <1>1, <2>3, BackendKeepsRetrievals
  <2>4. CASE NoBackend(q) \/ AcceptQuery(q) \/ RetrievalStep(q) \/ QuerierHangsUp(q)
    <3>1. Alone(q)
      BY <1>0, <2>4, RetrievalKeepsRetrievals
    <3>2. Advances(q)
      BY <1>0, <2>2, <2>4, QueryAdvances
    <3>. QED
      BY <1>0, <2>2, <3>1, <3>2, RunsAdvance
  <2>. QED
    BY <2>1, <2>3, <2>4
<1>6. CASE DossierNext /\ InDossier
  BY <1>0, <1>1, <1>6, ReaderReads
<1>7. CASE LedgerActs
  <2>1. PICK c \in calls : PutBlob(c) \/ LedgerCommits(c) \/ LedgerRefuses(c)
    BY <1>7 DEF LedgerActs, RetrievalLedgerStep
  <2>2. CASE PutBlob(c)
    BY <1>1, <2>2 DEF PutBlob
  <2>3. CASE LedgerRefuses(c)
    BY <2>3, RunsRest DEF LedgerRefuses, AtRest
  <2>4. CASE LedgerCommits(c)
    <3>1. LinkTypeOK
      BY <1>0 DEF LinkOK
    <3>2. PICK h \in Handlers, e \in Entries : Gains(h, e) /\ \A g \in Handlers \ {h} : AtRest(g)
      BY <2>4, <3>1, CommitGains
    <3>3. RunAt(h)' /\ LeftAlone(h)'
      BY <3>1, <3>2, RunGains DEF RunsOK
    <3>4. ASSUME NEW g \in Handlers \ {h}
          PROVE  RunAt(g)' /\ LeftAlone(g)'
      <4>1. RunAt(g) /\ LeftAlone(g) /\ AtRest(g)
        BY <3>2 DEF RunsOK
      <4>. QED
        BY <4>1, RunQuiet DEF AtRest
    <3>. QED
      BY <3>3, <3>4 DEF RunsOK
  <2>. QED
    BY <2>1, <2>2, <2>3, <2>4
<1>. QED
  BY <1>2, <1>3, <1>4, <1>5, <1>6, <1>7 DEF Next

\* A run that the caller brings is neither minted nor stamped by any of the
\* gateway's handlers; a run that is minted is there before all else that its
\* handler records, and is stamped at most once.
THEOREM GatewayCallerRunsStayUntouched == Spec => []CallerRunsAreLeftAlone
<1>1. RunsOK => CallerRunsAreLeftAlone
  BY DEF RunsOK, LeftAlone, LeftAloneAt, CallerRunsAreLeftAlone, RunEntries
<1>. QED
  BY <1>1, RunsInit, RunsNext, GatewayInvariant, PTL DEF Spec

=============================================================================
