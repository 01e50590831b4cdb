---------------------------- MODULE ApprovalProofs ----------------------------
(***************************************************************************)
(* Proofs about Approval, for any number of requests, deciders and         *)
(* replicas: first about the channel between decider and requester, then   *)
(* about what the ledger holds of it.                                      *)
(***************************************************************************)
EXTENDS Approval, FiniteSetTheorems, TLAPS

-----------------------------------------------------------------------------
(* The inductive invariant *)

\* pc and answers are functions, which ApprovalTypeOK leaves open.
FunctionsOK ==
  /\ pc \in [Handlers -> {"idle"} \cup ApprovalActive \cup Ended]
  /\ answers \in [Deciders -> {NoAnswer} \cup Answer]

\* A sender in a map belongs to its requester's replica, and is undecided.
SendersAreOpen ==
  \A g \in Gateways : \A a \in pending[g] : g = home[a] /\ channel[a] = "open"

\* Where the channel of a request stands.
ChannelFollowsRequest ==
  \A a \in Approvals :
    /\ pc[a] \in {"idle", "minting", "stamping", "ready"} => channel[a] = "unused"
    /\ pc[a] \in {"recording", "evidencing", "replied"} => channel[a] \in Decisions

Won(d, a) == answers[d].told = "ok" /\ answers[d].approval = a

\* Somebody decided what the channel carries, and nobody else decided anything.
AnswersStand ==
  /\ \A d \in Deciders : answers[d].told = "ok" =>
       answers[d].said \in Decisions /\ channel[answers[d].approval] = answers[d].said
  /\ \A d, e \in Deciders, a \in Approvals : Won(d, a) /\ Won(e, a) => d = e
  /\ \A a \in Approvals : channel[a] \in Decisions => \E d \in Deciders : Won(d, a)

GateInv == /\ ApprovalTypeOK /\ FunctionsOK /\ SendersAreOpen /\ ChannelFollowsRequest
           /\ AnswersStand /\ WaiterIsReachable

Sent(h, e) == <<h, e>> \in calls \/ Committed(h, e)

\* Where a handler that sent something must have come to.
CallsInOrder ==
  /\ \A h \in Handlers, e \in Entries : pc[h] = "idle" => ~ Sent(h, e)
  /\ \A a \in Approvals, s \in Decisions :
       Sent(a, Event(s)) \/ Sent(a, Evidence(s)) => channel[a] = s
  /\ \A a \in Approvals, s \in Decisions :
       <<a, Evidence(s)>> \in calls => Committed(a, Event(s))
  /\ \A a \in Approvals : pc[a] \in {"evidencing", "replied"} => Committed(a, Event(channel[a]))

BeyondMint == {"stamping", "ready", "requesting", "waiting", "recording", "evidencing"}

\* A run that is minted comes first, and is stamped once.
RunsInOrder ==
  /\ \A h \in Identified : /\ pc[h] \notin {"minting", "stamping"}
                           /\ ~ Sent(h, Entry("run")) /\ ~ Sent(h, Entry("binding"))
  /\ \A h \in Handlers \ Identified :
       /\ pc[h] \in BeyondMint => Committed(h, Entry("run"))
       /\ \A e \in Entries \ {Entry("run")} : Sent(h, e) => Committed(h, Entry("run"))
  /\ \A h \in Handlers : /\ <<h, Entry("run")>> \in calls => ledger[h] = <<>>
                         /\ <<h, Entry("binding")>> \in calls => ~ Committed(h, Entry("binding"))
                         /\ pc[h] = "minting" => ~ Sent(h, Entry("binding"))

LinkInv == CallsInOrder /\ RunsInOrder /\ EvidenceFollowsEvent /\ CallerRunsAreLeftAlone

IInv == GateInv /\ LinkInv

-----------------------------------------------------------------------------
(* Lemmas *)

LEMMA EntriesDiffer ==
  /\ Entry("run") # Entry("binding") /\ Entry("run") # Asked /\ Entry("binding") # Asked
  /\ \A s : /\ Event(s) \notin {Entry("run"), Entry("binding"), Asked}
            /\ Evidence(s) \notin {Entry("run"), Entry("binding"), Asked}
  /\ \A s, r \in Decisions : /\ Event(s) # Evidence(r)
                             /\ s # r => Event(s) # Event(r) /\ Evidence(s) # Evidence(r)
  BY DEF Entry, Asked, Event, Evidence, Decisions

LEMMA EntriesType ==
  /\ Entry("run") \in Entries /\ Entry("binding") \in Entries /\ Asked \in Entries
  /\ \A s \in Decisions : Event(s) \in Entries /\ Evidence(s) \in Entries
  BY ApprovalEntriesAssumption DEF ApprovalEntries

\* What a commit adds.
LEMMA CommitAdds ==
  ASSUME LinkTypeOK, NEW c \in calls, LedgerCommits(c)
  PROVE  /\ \A h \in Handlers \ {c[1]} : ledger'[h] = ledger[h]
         /\ c[1] \in Handlers /\ c[2] \in Entries /\ c = <<c[1], c[2]>>
         /\ ledger[c[1]] \in Seq(Entries) /\ Len(ledger[c[1]]) \in Nat
         /\ Len(ledger'[c[1]]) = Len(ledger[c[1]]) + 1
         /\ ledger'[c[1]][Len(ledger[c[1]]) + 1] = c[2]
         /\ \A i \in 1 .. Len(ledger[c[1]]) : ledger'[c[1]][i] = ledger[c[1]][i]
<1>1. c[1] \in Handlers /\ c[2] \in Entries /\ c = <<c[1], c[2]>>
  BY DEF LinkTypeOK
<1>2. ledger' = [ledger EXCEPT ![c[1]] = Append(@, c[2])]
  BY DEF LedgerCommits
<1>. QED
  BY <1>1, <1>2 DEF LinkTypeOK

LEMMA CommittedIsAt ==
  ASSUME LinkTypeOK, NEW h \in Handlers, NEW e
  PROVE  Committed(h, e) <=> \E i \in 1 .. Len(ledger[h]) : ledger[h][i] = e
<1>1. ledger[h] \in Seq(Entries)
  BY DEF LinkTypeOK
<1>2. DOMAIN ledger[h] = 1 .. Len(ledger[h])
  BY <1>1
<1>. QED
  BY <1>2 DEF Committed, ToSet

LEMMA CommitIsCommitted ==
  ASSUME LinkTypeOK, NEW c \in calls, LedgerCommits(c)
  PROVE  /\ LinkTypeOK'
         /\ \A h \in Handlers : \A e : Committed(h, e)' <=> Committed(h, e) \/ c = <<h, e>>
         /\ \A h \in Handlers : \A e : Sent(h, e)' <=> Sent(h, e)
<1>1. calls' = calls \ {c} /\ ledger' = [ledger EXCEPT ![c[1]] = Append(@, c[2])]
  BY DEF LedgerCommits
<1>2. LinkTypeOK'
  BY <1>1, CommitAdds DEF LinkTypeOK
<1>3. ASSUME NEW h \in Handlers, NEW e
      PROVE  Committed(h, e)' <=> Committed(h, e) \/ c = <<h, e>>
  <2>1. Committed(h, e)' <=> \E i \in 1 .. Len(ledger'[h]) : ledger'[h][i] = e
    BY <1>2, CommittedIsAt DEF LinkTypeOK, Committed, ToSet
  <2>2. CASE h # c[1]
    BY <2>1, <2>2, CommitAdds, CommittedIsAt
  <2>3. CASE h = c[1]
    <3> DEFINE n == Len(ledger[h])
    <3>1. /\ n \in Nat /\ Len(ledger'[h]) = n + 1 /\ ledger'[h][n + 1] = c[2]
          /\ \A i \in 1 .. n : ledger'[h][i] = ledger[h][i]
          /\ c = <<h, c[2]>>
      BY <2>3, CommitAdds
    <3>2. Committed(h, e) <=> \E i \in 1 .. n : ledger[h][i] = e
      BY CommittedIsAt
    <3> HIDE DEF n
    <3>3. (\E i \in 1 .. n + 1 : ledger'[h][i] = e) <=> (\E i \in 1 .. n : ledger[h][i] = e) \/ c[2] = e
      BY <3>1
    <3>. QED
      BY <2>1, <3>1, <3>2, <3>3
  <2>. QED
    BY <2>2, <2>3
<1>. QED
  BY <1>1, <1>2, <1>3 DEF Sent

LEMMA SendIsSent ==
  ASSUME NEW a, NEW e, calls' = calls \cup {<<a, e>>}, ledger' = ledger
  PROVE  /\ \A h, f : Committed(h, f)' <=> Committed(h, f)
         /\ \A h, f : Sent(h, f)' <=> Sent(h, f) \/ (h = a /\ f = e)
  BY DEF Committed, Sent

LEMMA QuietIsQuiet ==
  ASSUME UNCHANGED <<calls, ledger>>
  PROVE  \A h, f : (Committed(h, f)' <=> Committed(h, f)) /\ (Sent(h, f)' <=> Sent(h, f))
  BY DEF Committed, Sent

LEMMA HandlerMoves ==
  ASSUME FunctionsOK, NEW a \in Handlers, NEW next, Goto(a, next)
  PROVE  /\ pc'[a] = next /\ \A h \in Handlers \ {a} : pc'[h] = pc[h]
         /\ next \in {"idle"} \cup ApprovalActive \cup Ended =>
              pc' \in [Handlers -> {"idle"} \cup ApprovalActive \cup Ended]
  BY DEF FunctionsOK, Goto

LEMMA InitIInv == GateInit => IInv
<1> SUFFICES ASSUME GateInit
             PROVE  IInv
  OBVIOUS
<1>1. \A h \in Handlers : \A e : ~ Sent(h, e) /\ ~ Committed(h, e)
  BY DEF GateInit, LinkInit, Sent, Committed, ToSet
<1>2. ApprovalTypeOK /\ FunctionsOK
  BY ApprovalsAssumption DEF GateInit, LinkInit, ApprovalInit, ApprovalTypeOK, FunctionsOK, LinkTypeOK
<1>3. SendersAreOpen /\ ChannelFollowsRequest /\ WaiterIsReachable
  BY ApprovalsAssumption DEF GateInit, LinkInit, ApprovalInit, SendersAreOpen, ChannelFollowsRequest,
     WaiterIsReachable, Decisions, Listening
<1>4. AnswersStand
  BY DEF GateInit, ApprovalInit, AnswersStand, Won, NoAnswer, Decisions
<1>5. CallsInOrder
  BY <1>1, ApprovalsAssumption DEF GateInit, LinkInit, CallsInOrder
<1>6. RunsInOrder
  BY <1>1, IdentifiedAssumption DEF GateInit, LinkInit, RunsInOrder, BeyondMint
<1>7. EvidenceFollowsEvent /\ CallerRunsAreLeftAlone
  BY ApprovalsAssumption DEF GateInit, LinkInit, EvidenceFollowsEvent, CallerRunsAreLeftAlone
<1>. QED
  BY <1>2, <1>3, <1>4, <1>5, <1>6, <1>7 DEF IInv, GateInv, LinkInv

-----------------------------------------------------------------------------
(* The link to the ledger *)

\* Steps that send nothing.  Nobody gets past the mint without a run, and what
\* was decided stays decided.
LEMMA LinkQuiet ==
  ASSUME LinkInv, ChannelFollowsRequest, UNCHANGED <<calls, ledger>>,
         \A a \in Approvals : channel[a] \in Decisions => channel'[a] = channel[a],
         \A h \in Handlers :
           \/ pc'[h] = pc[h] \/ pc'[h] \in {"failed", "gone"}
           \/ pc'[h] \in {"ready", "waiting"} /\ (h \in Identified \/ Committed(h, Entry("run")))
           \/ pc'[h] = "replied" /\ pc[h] = "evidencing"
  PROVE  LinkInv'
<1>. USE DEF LinkInv
<1>1. \A h, f : (Committed(h, f)' <=> Committed(h, f)) /\ (Sent(h, f)' <=> Sent(h, f))
  BY QuietIsQuiet
<1>2. CallsInOrder'
  <2>1. \A h \in Handlers, e \in Entries : pc'[h] = "idle" => ~ Sent(h, e)'
    BY <1>1 DEF CallsInOrder
  <2>2. \A a \in Approvals, s \in Decisions : Sent(a, Event(s))' \/ Sent(a, Evidence(s))' => channel'[a] = s
    BY <1>1 DEF CallsInOrder
  <2>3. \A a \in Approvals, s \in Decisions : <<a, Evidence(s)>> \in calls' => Committed(a, Event(s))'
    BY <1>1 DEF CallsInOrder
  <2>4. \A a \in Approvals : pc'[a] \in {"evidencing", "replied"} =>
          Committed(a, Event(channel[a])) /\ channel'[a] = channel[a]
    BY ApprovalsAssumption DEF CallsInOrder, ChannelFollowsRequest
  <2>5. \A a \in Approvals : pc'[a] \in {"evidencing", "replied"} => Committed(a, Event(channel[a]))'
    <3> TAKE a \in Approvals
    <3> HAVE pc'[a] \in {"evidencing", "replied"}
    <3>1. Event(channel[a])' = Event(channel[a])
      BY <2>4 DEF Event
    <3>2. Committed(a, Event(channel[a]))
      BY <2>4
    <3>. QED
      BY <3>1, <3>2 DEF Committed
  <2>. QED
    BY <2>1, <2>2, <2>3, <2>5 DEF CallsInOrder, Event, Evidence
<1>3. RunsInOrder'
  BY <1>1, IdentifiedAssumption DEF RunsInOrder, BeyondMint
<1>4. EvidenceFollowsEvent'
  BY DEF EvidenceFollowsEvent, Event, Evidence
<1>5. CallerRunsAreLeftAlone'
  BY DEF CallerRunsAreLeftAlone
<1>. QED
  BY <1>2, <1>3, <1>4, <1>5

LEMMA LinkCommits ==
  ASSUME IInv, NEW c \in calls, LedgerCommits(c), UNCHANGED channel
  PROVE  LinkInv'
<1>. USE DEF IInv, LinkInv, GateInv, ApprovalTypeOK
<1>1. /\ LinkTypeOK
      /\ \A h \in Handlers : \A e : Committed(h, e)' <=> Committed(h, e) \/ c = <<h, e>>
      /\ \A h \in Handlers : \A e : Sent(h, e)' <=> Sent(h, e)
  BY CommitIsCommitted
<1>2. calls' = calls \ {c} /\ UNCHANGED <<pc, channel>>
  BY DEF LedgerCommits
<1>3. CallsInOrder'
  <2>1. \A h \in Handlers, e \in Entries : pc'[h] = "idle" => ~ Sent(h, e)'
    BY <1>1, <1>2 DEF CallsInOrder
  <2>2. \A a \in Approvals, s \in Decisions : Sent(a, Event(s))' \/ Sent(a, Evidence(s))' => channel'[a] = s
    BY <1>1, <1>2, ApprovalsAssumption DEF CallsInOrder
  <2>3. \A a \in Approvals, s \in Decisions : <<a, Evidence(s)>> \in calls' => Committed(a, Event(s))'
    BY <1>1, <1>2, ApprovalsAssumption DEF CallsInOrder
  <2>4. \A a \in Approvals : pc'[a] \in {"evidencing", "replied"} => Committed(a, Event(channel[a]))'
    <3> TAKE a \in Approvals
    <3> HAVE pc'[a] \in {"evidencing", "replied"}
    <3> PICK s : s = channel[a]
      OBVIOUS
    <3>1. Committed(a, Event(s))
      BY <1>2 DEF CallsInOrder
    <3>2. Committed(a, Event(s))'
      BY <1>1, <3>1, ApprovalsAssumption DEF Event
    <3>. QED
      BY <1>2, <3>2
  <2>. QED
    BY <2>1, <2>2, <2>3, <2>4 DEF CallsInOrder, Event, Evidence
<1>4. RunsInOrder'
  <2>1. \A h \in Handlers : ledger[h] = <<>> \/ h \in Identified \/ Committed(h, Entry("run"))
    <3> TAKE h \in Handlers
    <3>1. ledger[h] \in Seq(Entries)
      BY <1>1 DEF LinkTypeOK
    <3>2. CASE ledger[h] # <<>> /\ h \notin Identified
      <4>1. ledger[h][1] \in Entries /\ 1 \in 1 .. Len(ledger[h])
        BY <3>1, <3>2
      <4>2. Committed(h, ledger[h][1])
        BY <1>1, <4>1, CommittedIsAt
      <4>. QED
        BY <3>2, <4>1, <4>2 DEF RunsInOrder, Sent
    <3>. QED
      BY <3>2
  <2>2. \A h \in Identified : /\ pc'[h] \notin {"minting", "stamping"}
                              /\ ~ Sent(h, Entry("run"))' /\ ~ Sent(h, Entry("binding"))'
    BY <1>1, <1>2, IdentifiedAssumption DEF RunsInOrder
  <2>3. \A h \in Handlers \ Identified :
          /\ pc'[h] \in BeyondMint => Committed(h, Entry("run"))'
          /\ \A e \in Entries \ {Entry("run")} : Sent(h, e)' => Committed(h, Entry("run"))'
    BY <1>1, <1>2 DEF RunsInOrder
  <2>4. \A h \in Handlers : <<h, Entry("run")>> \in calls' => ledger'[h] = <<>>
    <3> TAKE h \in Handlers
    <3> HAVE <<h, Entry("run")>> \in calls'
    <3>1. <<h, Entry("run")>> \in calls /\ <<h, Entry("run")>> # c /\ ledger[h] = <<>>
      BY <1>2 DEF RunsInOrder
    <3>2. h \notin Identified
      BY <3>1 DEF RunsInOrder, Sent
    <3>3. ~ Committed(h, Entry("run"))
      BY <3>1 DEF Committed, ToSet
    <3>4. \A e \in Entries \ {Entry("run")} : <<h, e>> \notin calls
      BY <3>2, <3>3 DEF RunsInOrder, Sent
    <3>5. c[1] # h
      BY <1>1, <3>1, <3>4, CommitAdds
    <3>. QED
      BY <1>1, <3>1, <3>5, CommitAdds
  <2>5. \A h \in Handlers : /\ <<h, Entry("binding")>> \in calls' => ~ Committed(h, Entry("binding"))'
                            /\ pc'[h] = "minting" => ~ Sent(h, Entry("binding"))'
    BY <1>1, <1>2 DEF RunsInOrder
  <2>. QED
    BY <2>2, <2>3, <2>4, <2>5 DEF RunsInOrder
<1>5. EvidenceFollowsEvent'
  <2> SUFFICES ASSUME NEW a \in Approvals, NEW s \in Decisions,
                      NEW i \in 1 .. Len(ledger'[a]), ledger'[a][i] = Evidence(s)
               PROVE  \E j \in 1 .. i - 1 : ledger'[a][j] = Event(s)
    BY DEF EvidenceFollowsEvent, Event, Evidence
  <2>1. a \in Handlers
    BY ApprovalsAssumption
  <2>2. CASE a # c[1] \/ i # Len(ledger[a]) + 1
    <3>1. /\ i \in 1 .. Len(ledger[a]) /\ \A j \in 1 .. i : ledger'[a][j] = ledger[a][j]
      BY <1>1, <2>1, <2>2, CommitAdds
    <3>. QED
      BY <3>1 DEF EvidenceFollowsEvent
  <2>3. CASE a = c[1] /\ i = Len(ledger[a]) + 1
    <3>1. c = <<a, Evidence(s)>>
      BY <1>1, <2>3, CommitAdds
    <3>2. Committed(a, Event(s))
      BY <3>1 DEF CallsInOrder
    <3>3. PICK j \in 1 .. Len(ledger[a]) : ledger[a][j] = Event(s)
      BY <1>1, <2>1, <3>2, CommittedIsAt
    <3>. QED
      BY <1>1, <2>3, <3>3, CommitAdds
  <2>. QED
    BY <2>2, <2>3
<1>6. CallerRunsAreLeftAlone'
  <2> SUFFICES ASSUME NEW h \in Handlers, NEW i \in 1 .. Len(ledger'[h])
               PROVE  /\ h \in Identified => ledger'[h][i] \notin {Entry("run"), Entry("binding")}
                      /\ h \notin Identified => (ledger'[h][i] = Entry("run") <=> i = 1)
                      /\ \A j \in 1 .. i - 1 : ledger'[h][i] = Entry("binding") => ledger'[h][j] # ledger'[h][i]
    BY DEF CallerRunsAreLeftAlone
  <2>1. CASE h # c[1] \/ i # Len(ledger[h]) + 1
    <3>1. /\ i \in 1 .. Len(ledger[h]) /\ \A j \in 1 .. i : ledger'[h][j] = ledger[h][j]
      BY <1>1, <2>1, CommitAdds
    <3>. QED
      BY <3>1 DEF CallerRunsAreLeftAlone
  <2>2. CASE h = c[1] /\ i = Len(ledger[h]) + 1
    <3>1. /\ ledger'[h][i] = c[2] /\ c = <<h, c[2]>> /\ c[2] \in Entries
          /\ Len(ledger[h]) \in Nat /\ \A j \in 1 .. i - 1 : ledger'[h][j] = ledger[h][j]
      BY <1>1, <2>2, CommitAdds
    <3>2. Sent(h, c[2])
      BY <3>1 DEF Sent
    <3>3. h \in Identified => c[2] \notin {Entry("run"), Entry("binding")}
      BY <3>2 DEF RunsInOrder
    <3>4. ASSUME h \notin Identified
          PROVE  c[2] = Entry("run") <=> i = 1
      <4>1. CASE c[2] = Entry("run")
        <5>1. <<h, Entry("run")>> \in calls
          BY <3>1, <4>1
        <5>2. ledger[h] = <<>>
          BY <5>1 DEF RunsInOrder
        <5>. QED
          BY <2>2, <4>1, <5>2
      <4>2. CASE c[2] # Entry("run")
        <5>1. Committed(h, Entry("run"))
          BY <3>1, <3>2, <3>4, <4>2 DEF RunsInOrder
        <5>2. \E j \in 1 .. Len(ledger[h]) : ledger[h][j] = Entry("run")
          BY <1>1, <5>1, CommittedIsAt
        <5>. QED
          BY <2>2, <3>1, <4>2, <5>2
      <4>. QED
        BY <4>1, <4>2
    <3>5. ASSUME c[2] = Entry("binding"), NEW j \in 1 .. i - 1
          PROVE  ledger'[h][j] # c[2]
      <4>1. ~ Committed(h, Entry("binding"))
        BY <3>1, <3>5 DEF RunsInOrder
      <4>2. j \in 1 .. Len(ledger[h])
        BY <2>2, <3>1
      <4>. QED
        BY <1>1, <3>1, <3>5, <4>1, <4>2, CommittedIsAt
    <3>. QED
      BY <3>1, <3>3, <3>4, <3>5
  <2>. QED
    BY <2>1, <2>2
<1>. QED
  BY <1>3, <1>4, <1>5, <1>6

LEMMA LinkRefuses ==
  ASSUME IInv, NEW c \in calls, LedgerRefuses(c), UNCHANGED channel
  PROVE  LinkInv'
<1>. USE DEF IInv, LinkInv, GateInv, ApprovalTypeOK
<1>1. calls' = calls \ {c} /\ UNCHANGED <<pc, ledger, channel>>
  BY DEF LedgerRefuses
<1>2. \A h, e : (Committed(h, e)' <=> Committed(h, e)) /\ (Sent(h, e)' => Sent(h, e))
  BY <1>1 DEF Committed, Sent
<1>3. CallsInOrder'
  BY <1>1, <1>2, ApprovalsAssumption DEF CallsInOrder, Event, Evidence
<1>4. RunsInOrder'
  BY <1>1, <1>2 DEF RunsInOrder
<1>5. EvidenceFollowsEvent' /\ CallerRunsAreLeftAlone'
  BY <1>1 DEF EvidenceFollowsEvent, CallerRunsAreLeftAlone, Event, Evidence
<1>. QED
  BY <1>3, <1>4, <1>5

\* What the request handler sends, and where.
Sending(a, next, e) ==
  \/ pc[a] = "idle" /\ a \notin Identified /\ e = Entry("run") /\ next = "minting"
  \/ pc[a] = "minting" /\ Committed(a, Entry("run")) /\ e = Entry("binding") /\ next = "stamping"
  \/ pc[a] = "ready" /\ e = Asked /\ next = "requesting"
  \/ /\ pc[a] = "waiting" /\ channel[a] \in Decisions
     /\ e = Event(channel[a]) /\ next = "recording"
  \/ /\ pc[a] = "recording" /\ Committed(a, Event(channel[a])) /\ channel[a] \in Decisions
     /\ e = Evidence(channel[a]) /\ next = "evidencing"

LEMMA LinkSends ==
  ASSUME IInv, NEW a \in Approvals, NEW next, NEW e, Sending(a, next, e), GotoSending(a, next, e),
         \A b \in Approvals : channel[b] \in Decisions => channel'[b] = channel[b]
  PROVE  LinkInv' /\ LinkTypeOK'
<1>. USE DEF IInv, LinkInv, GateInv, ApprovalTypeOK
<1>1. /\ a \in Handlers /\ calls' = calls \cup {<<a, e>>} /\ ledger' = ledger
      /\ pc'[a] = next /\ \A h \in Handlers \ {a} : pc'[h] = pc[h]
  BY ApprovalsAssumption, HandlerMoves DEF GotoSending, Send
<1>2. /\ \A h, f : Committed(h, f)' <=> Committed(h, f)
      /\ \A h, f : Sent(h, f)' <=> Sent(h, f) \/ (h = a /\ f = e)
  BY <1>1, SendIsSent
<1>3. e \in Entries /\ next \in {"minting", "stamping", "requesting", "recording", "evidencing"}
  BY EntriesType DEF Sending
<1>4. LinkTypeOK'
  BY <1>1, <1>3 DEF LinkTypeOK
<1>5. CallsInOrder'
  <2>1. \A h \in Handlers, f \in Entries : pc'[h] = "idle" => ~ Sent(h, f)'
    BY <1>1, <1>2, <1>3 DEF CallsInOrder
  <2>2. \A b \in Approvals, s \in Decisions : Sent(b, Event(s))' \/ Sent(b, Evidence(s))' => channel'[b] = s
    <3>1. \A s \in Decisions : e = Event(s) \/ e = Evidence(s) => channel[a] = s
      BY EntriesDiffer DEF Sending
    <3>2. \A b \in Approvals, s \in Decisions : Sent(b, Event(s)) \/ Sent(b, Evidence(s)) => channel[b] = s
      BY DEF CallsInOrder
    <3>3. \A b \in Approvals, s \in Decisions : Sent(b, Event(s))' \/ Sent(b, Evidence(s))' => channel[b] = s
      BY <1>2, <3>1, <3>2
    <3>. QED
      BY <3>3
  <2>3. \A b \in Approvals, s \in Decisions : <<b, Evidence(s)>> \in calls' => Committed(b, Event(s))'
    <3>1. \A s \in Decisions : e = Evidence(s) => Committed(a, Event(s))
      BY EntriesDiffer DEF Sending
    <3>2. \A b \in Approvals, s \in Decisions :
            <<b, Evidence(s)>> \in calls' => <<b, Evidence(s)>> \in calls \/ (b = a /\ Evidence(s) = e)
      BY <1>1
    <3>. QED
      BY <1>2, <3>1, <3>2 DEF CallsInOrder
  <2>4. \A b \in Approvals : pc'[b] \in {"evidencing", "replied"} => Committed(b, Event(channel[b]))'
    <3> TAKE b \in Approvals
    <3> HAVE pc'[b] \in {"evidencing", "replied"}
    <3> PICK s : s = channel[b]
      OBVIOUS
    <3>1. Committed(b, Event(s)) /\ s \in Decisions
      BY <1>1, ApprovalsAssumption DEF CallsInOrder, Sending, ChannelFollowsRequest
    <3>2. channel'[b] = s
      BY <3>1
    <3>3. Committed(b, Event(s))'
      BY <1>2, <3>1 DEF Event
    <3>. QED
      BY <3>2, <3>3
  <2>. QED
    BY <2>1, <2>2, <2>3, <2>4 DEF CallsInOrder, Event, Evidence
<1>6. RunsInOrder'
  <2>1. /\ e = Entry("run") => pc[a] = "idle" /\ a \notin Identified /\ next = "minting"
        /\ e = Entry("binding") => pc[a] = "minting" /\ next = "stamping"
        /\ e # Entry("run") => a \in Identified \/ Committed(a, Entry("run"))
    BY <1>1, EntriesDiffer DEF Sending, RunsInOrder, BeyondMint
  <2>2. \A h \in Identified : /\ pc'[h] \notin {"minting", "stamping"}
                              /\ ~ Sent(h, Entry("run"))' /\ ~ Sent(h, Entry("binding"))'
    <3>1. a \in Identified => pc[a] # "minting"
      BY DEF RunsInOrder
    <3>2. a \in Identified => next \notin {"minting", "stamping"} /\ e \notin {Entry("run"), Entry("binding")}
      BY <2>1, <3>1 DEF Sending
    <3>. QED
      BY <1>1, <1>2, <3>2, IdentifiedAssumption DEF RunsInOrder
  <2>3. \A h \in Handlers \ Identified :
          /\ pc'[h] \in BeyondMint => Committed(h, Entry("run"))'
          /\ \A f \in Entries \ {Entry("run")} : Sent(h, f)' => Committed(h, Entry("run"))'
    <3>1. next \in BeyondMint => e # Entry("run")
      BY EntriesDiffer DEF Sending, BeyondMint
    <3>. QED
      BY <1>1, <1>2, <2>1, <3>1 DEF RunsInOrder
  <2>4. \A h \in Handlers : <<h, Entry("run")>> \in calls' => ledger'[h] = <<>>
    <3>1. ASSUME pc[a] = "idle"
          PROVE  ledger[a] = <<>>
      <4>1. ledger[a] \in Seq(Entries)
        BY <1>1 DEF LinkTypeOK
      <4>2. CASE ledger[a] # <<>>
        <5>1. 1 \in 1 .. Len(ledger[a]) /\ ledger[a][1] \in Entries
          BY <4>1, <4>2
        <5>2. Committed(a, ledger[a][1])
          BY <1>1, <5>1, CommittedIsAt
        <5>. QED
          BY <1>1, <3>1, <5>1, <5>2 DEF CallsInOrder, Sent
      <4>. QED
        BY <4>2
    <3>. QED
      BY <1>1, <2>1, <3>1 DEF RunsInOrder
  <2>5. \A h \in Handlers : /\ <<h, Entry("binding")>> \in calls' => ~ Committed(h, Entry("binding"))'
                            /\ pc'[h] = "minting" => ~ Sent(h, Entry("binding"))'
    <3>1. pc[a] \in {"idle", "minting"} => ~ Sent(a, Entry("binding"))
      BY <1>1, EntriesType DEF CallsInOrder, RunsInOrder
    <3>2. next = "minting" => pc[a] = "idle" /\ e # Entry("binding")
      BY EntriesDiffer DEF Sending
    <3>3. e = Entry("binding") => ~ Committed(a, Entry("binding"))
      BY <2>1, <3>1 DEF Sent
    <3>4. \A h \in Handlers : <<h, Entry("binding")>> \in calls' => ~ Committed(h, Entry("binding"))
      BY <1>1, <3>3 DEF RunsInOrder
    <3>5. \A h \in Handlers : pc'[h] = "minting" => ~ Sent(h, Entry("binding"))'
      BY <1>1, <1>2, <3>1, <3>2 DEF RunsInOrder
    <3>. QED
      BY <1>2, <3>4, <3>5
  <2>. QED
    BY <2>2, <2>3, <2>4, <2>5 DEF RunsInOrder
<1>7. EvidenceFollowsEvent' /\ CallerRunsAreLeftAlone'
  BY <1>1 DEF EvidenceFollowsEvent, CallerRunsAreLeftAlone, Event, Evidence
<1>. QED
  BY <1>4, <1>5, <1>6, <1>7

-----------------------------------------------------------------------------
(* The request *)

\* Steps of a handler that leave its channel alone.
LEMMA GateUntouched ==
  ASSUME GateInv, LinkTypeOK', UNCHANGED approvalVars,
         pc' \in [Handlers -> {"idle"} \cup ApprovalActive \cup Ended],
         \A a \in Approvals :
           \/ pc'[a] = pc[a]
           \/ /\ pc'[a] \in ApprovalActive \cup Ended
              /\ pc'[a] \in {"minting", "stamping", "ready"} => channel[a] = "unused"
              /\ pc'[a] \in {"recording", "evidencing", "replied"} => channel[a] \in Decisions
              /\ pc'[a] \in Listening => pc[a] \in Listening
  PROVE  GateInv'
<1>. USE DEF GateInv, approvalVars
<1>1. ApprovalTypeOK' /\ FunctionsOK'
  BY DEF ApprovalTypeOK, FunctionsOK
<1>2. SendersAreOpen' /\ ChannelFollowsRequest' /\ WaiterIsReachable'
  BY DEF SendersAreOpen, ChannelFollowsRequest, WaiterIsReachable, ApprovalActive, Ended, Listening
<1>3. AnswersStand'
  BY DEF AnswersStand, Won
<1>. QED
  BY <1>1, <1>2, <1>3

LEMMA QuietStep ==
  ASSUME IInv, NEW a \in Approvals, NEW next, GotoQuietly(a, next), UNCHANGED approvalVars,
         \/ next \in {"failed", "gone"}
         \/ next = "ready" /\ channel[a] = "unused" /\ (a \in Identified \/ Committed(a, Entry("run")))
         \/ next = "waiting" /\ pc[a] = "requesting"
         \/ next = "replied" /\ pc[a] = "evidencing"
  PROVE  IInv'
<1>. USE DEF IInv
<1>1. /\ a \in Handlers /\ UNCHANGED <<calls, ledger>>
      /\ pc'[a] = next /\ \A h \in Handlers \ {a} : pc'[h] = pc[h]
      /\ pc' \in [Handlers -> {"idle"} \cup ApprovalActive \cup Ended]
  BY ApprovalsAssumption, HandlerMoves DEF GateInv, GotoQuietly, ApprovalActive, Ended, Listening
<1>2. LinkTypeOK'
  BY <1>1 DEF GateInv, ApprovalTypeOK, LinkTypeOK
<1>3. pc[a] \in BeyondMint => a \in Identified \/ Committed(a, Entry("run"))
  BY <1>1 DEF LinkInv, RunsInOrder
<1>4. LinkInv'
  BY <1>1, <1>3, LinkQuiet DEF GateInv, approvalVars, BeyondMint
<1>5. /\ next \in ApprovalActive \cup Ended
      /\ next \in {"minting", "stamping", "ready"} => channel[a] = "unused"
      /\ next \in {"recording", "evidencing", "replied"} => channel[a] \in Decisions
      /\ next \in Listening => pc[a] \in Listening
  BY DEF GateInv, ChannelFollowsRequest, ApprovalActive, Ended, Listening
<1>6. \A b \in Approvals \ {a} : pc'[b] = pc[b]
  BY <1>1, ApprovalsAssumption
<1>7. GateInv'
  BY <1>1, <1>2, <1>5, <1>6, GateUntouched
<1>. QED
  BY <1>4, <1>7

LEMMA SendingStep ==
  ASSUME IInv, NEW a \in Approvals, NEW next, NEW e, Sending(a, next, e), next # "requesting",
         GotoSending(a, next, e), UNCHANGED approvalVars
  PROVE  IInv'
<1>. USE DEF IInv
<1>1. /\ a \in Handlers /\ pc'[a] = next /\ \A h \in Handlers \ {a} : pc'[h] = pc[h]
      /\ pc' \in [Handlers -> {"idle"} \cup ApprovalActive \cup Ended]
  BY ApprovalsAssumption, HandlerMoves DEF GateInv, GotoSending, Sending, ApprovalActive
<1>2. LinkInv' /\ LinkTypeOK'
  BY LinkSends DEF approvalVars
<1>3. /\ next \in ApprovalActive \cup Ended
      /\ next \in {"minting", "stamping", "ready"} => channel[a] = "unused"
      /\ next \in {"recording", "evidencing", "replied"} => channel[a] \in Decisions
      /\ next \in Listening => pc[a] \in Listening
  BY DEF GateInv, Sending, ChannelFollowsRequest, ApprovalActive, Listening
<1>4. \A b \in Approvals \ {a} : pc'[b] = pc[b]
  BY <1>1, ApprovalsAssumption
<1>5. GateInv'
  BY <1>1, <1>2, <1>3, <1>4, GateUntouched
<1>. QED
  BY <1>2, <1>5

\* The sender is in the map before anybody can learn of it.
LEMMA StashIInv ==
  ASSUME IInv, NEW a \in Approvals, Stash(a)
  PROVE  IInv'
<1>. USE DEF IInv, GateInv
<1>1. /\ pc[a] = "ready" /\ GotoSending(a, "requesting", Asked)
      /\ pending' = [pending EXCEPT ![home[a]] = @ \cup {a}]
      /\ channel' = [channel EXCEPT ![a] = "open"] /\ UNCHANGED <<home, answers>>
  BY DEF Stash
<1>2. /\ a \in Handlers /\ pc'[a] = "requesting" /\ \A h \in Handlers \ {a} : pc'[h] = pc[h]
      /\ pc' \in [Handlers -> {"idle"} \cup ApprovalActive \cup Ended]
  BY <1>1, ApprovalsAssumption, HandlerMoves DEF GotoSending, ApprovalActive, Listening
<1>3. channel[a] = "unused" /\ home[a] \in Gateways
  BY <1>1 DEF ChannelFollowsRequest, ApprovalTypeOK
<1>4. channel'[a] = "open" /\ \A b \in Approvals \ {a} : channel'[b] = channel[b]
  BY <1>1 DEF ApprovalTypeOK
<1>5. /\ pending'[home[a]] = pending[home[a]] \cup {a}
      /\ \A g \in Gateways \ {home[a]} : pending'[g] = pending[g]
  BY <1>1, <1>3 DEF ApprovalTypeOK
<1>6. LinkInv' /\ LinkTypeOK'
  <2>1. \A b \in Approvals : channel[b] \in Decisions => channel'[b] = channel[b]
    BY <1>3, <1>4 DEF Decisions
  <2>. QED
    BY <1>1, <2>1, LinkSends DEF Sending
<1>7. ApprovalTypeOK' /\ FunctionsOK'
  BY <1>1, <1>2, <1>3, <1>6, ApprovalsAssumption DEF ApprovalTypeOK, FunctionsOK
<1>8. SendersAreOpen'
  BY <1>1, <1>4, <1>5 DEF SendersAreOpen, ApprovalTypeOK
<1>9. ChannelFollowsRequest' /\ WaiterIsReachable'
  <2>1. \A b \in Approvals \ {a} : pc'[b] = pc[b]
    BY <1>2, ApprovalsAssumption
  <2>2. ChannelFollowsRequest'
    BY <1>2, <1>4, <2>1 DEF ChannelFollowsRequest
  <2>3. \A b \in Approvals : home[b] \in Gateways
    BY DEF ApprovalTypeOK
  <2>4. WaiterIsReachable'
    BY <1>1, <1>4, <1>5, <2>1, <2>3 DEF WaiterIsReachable
  <2>. QED
    BY <2>2, <2>4
<1>10. AnswersStand'
  BY <1>1, <1>3, <1>4 DEF AnswersStand, Won, Decisions, FunctionsOK, Answer, NoAnswer
<1>. QED
  BY <1>6, <1>7, <1>8, <1>9, <1>10

LEMMA RequestIInv ==
  ASSUME IInv, NEW a \in Approvals,
         (ResolveRun(a) /\ UNCHANGED approvalVars) \/ RequestStep(a) \/ RequesterHangsUp(a)
  PROVE  IInv'
<1>. USE DEF IInv
<1>1. CASE ResolveRun(a) /\ UNCHANGED approvalVars
  <2>1. CASE a \in Identified
    <3>1. pc[a] = "idle" /\ GotoQuietly(a, "ready")
      BY <1>1, <2>1 DEF ResolveRun
    <3>2. channel[a] = "unused"
      BY <3>1 DEF GateInv, ChannelFollowsRequest
    <3>. QED
      BY <1>1, <2>1, <3>1, <3>2, QuietStep
  <2>2. CASE a \notin Identified
    <3>1. Sending(a, "minting", Entry("run")) /\ GotoSending(a, "minting", Entry("run"))
      BY <1>1, <2>2 DEF ResolveRun, Sending
    <3>. QED
      BY <1>1, <3>1, SendingStep
  <2>. QED
    BY <2>1, <2>2
<1>2. CASE RunMinted(a) /\ UNCHANGED approvalVars
  <2>1. pc[a] = "minting" /\ Committed(a, Entry("run")) /\ channel[a] = "unused"
    BY <1>2 DEF RunMinted, Ok, GateInv, ChannelFollowsRequest
  <2>2. \/ GotoSending(a, "stamping", Entry("binding")) /\ Sending(a, "stamping", Entry("binding"))
        \/ GotoQuietly(a, "ready")
    BY <1>2, <2>1 DEF RunMinted, Sending
  <2>. QED
    BY <1>2, <2>1, <2>2, SendingStep, QuietStep
<1>3. CASE StampingDone(a) /\ UNCHANGED approvalVars
  <2>1. pc[a] = "stamping" /\ GotoQuietly(a, "ready") /\ a \in Handlers
    BY <1>3, ApprovalsAssumption DEF StampingDone
  <2>2. channel[a] = "unused" /\ Committed(a, Entry("run"))
    BY <2>1 DEF GateInv, ChannelFollowsRequest, LinkInv, RunsInOrder, BeyondMint
  <2>. QED
    BY <1>3, <2>1, <2>2, QuietStep
<1>4. CASE Stash(a)
  BY <1>4, StashIInv
<1>5. CASE Receive(a)
  BY <1>5, SendingStep DEF Receive, Sending
<1>6. CASE DecisionRecorded(a)
  <2>1. channel[a] \in Decisions
    BY <1>6 DEF DecisionRecorded, Ok, GateInv, ChannelFollowsRequest
  <2>. QED
    BY <1>6, <2>1, SendingStep DEF DecisionRecorded, Ok, Sending
<1>7. CASE \E next \in {"failed", "gone"} : GotoQuietly(a, next) /\ UNCHANGED approvalVars
  BY <1>7, QuietStep
<1>8. CASE RequestRecorded(a)
  BY <1>8, QuietStep DEF RequestRecorded, Ok
<1>9. CASE Reply(a)
  BY <1>9, QuietStep DEF Reply
<1>. QED
  BY <1>1, <1>2, <1>3, <1>4, <1>5, <1>6, <1>7, <1>8, <1>9
     DEF RequestStep, ResolveStep, Err, SenderDropped, RequestFails, RequesterHangsUp

-----------------------------------------------------------------------------
(* Decisions and restarts *)

\* The sender leaves the map and its channel is decided or closed with it.
LEMMA SenderTakenIInv ==
  ASSUME IInv, NEW d \in Deciders, NEW g \in Gateways, NEW a \in pending[g],
         answers[d] = NoAnswer, NEW v \in Decisions \cup {"closed"},
         NEW told \in {"ok", "bad_request", "not_found"}, NEW said \in Decisions \cup {Malformed},
         told = "ok" <=> v \in Decisions, told = "ok" => v = said,
         pending' = [pending EXCEPT ![g] = @ \ {a}],
         channel' = [channel EXCEPT ![a] = v],
         Tell(d, told, a, said), UNCHANGED <<linkVars, home>>
  PROVE  IInv'
<1>. USE DEF IInv, GateInv
<1>1. a \in Approvals /\ channel[a] = "open" /\ g = home[a]
  BY DEF ApprovalTypeOK, SendersAreOpen
<1>2. UNCHANGED <<pc, calls, ledger, home>>
  BY DEF linkVars
<1>3. channel'[a] = v /\ \A b \in Approvals \ {a} : channel'[b] = channel[b]
  BY <1>1 DEF ApprovalTypeOK
<1>4. pending'[g] = pending[g] \ {a} /\ \A h \in Gateways \ {g} : pending'[h] = pending[h]
  BY DEF ApprovalTypeOK
<1>5. PICK r : r = [told |-> told, approval |-> a, said |-> said]
  OBVIOUS
<1>6. answers' = [answers EXCEPT ![d] = r]
  BY <1>5 DEF Tell
<1>7. r \in Answer /\ r.told = told /\ r.approval = a /\ r.said = said
  BY <1>1, <1>5 DEF Answer
<1>8. answers'[d] = r /\ \A e \in Deciders \ {d} : answers'[e] = answers[e]
  BY <1>6 DEF FunctionsOK
<1>9. ApprovalTypeOK' /\ FunctionsOK'
  <2>1. v \in {"unused", "open", "closed"} \cup Decisions
    OBVIOUS
  <2>2. LinkTypeOK'
    BY <1>2 DEF ApprovalTypeOK, LinkTypeOK
  <2>3. channel' \in [Approvals -> {"unused", "open", "closed"} \cup Decisions]
    BY <1>1, <2>1 DEF ApprovalTypeOK
  <2>4. pending' \in [Gateways -> SUBSET Approvals]
    BY DEF ApprovalTypeOK
  <2>5. FunctionsOK'
    BY <1>2, <1>6, <1>7 DEF FunctionsOK
  <2>. QED
    BY <1>2, <2>2, <2>3, <2>4, <2>5 DEF ApprovalTypeOK, FunctionsOK
<1>10. SendersAreOpen'
  BY <1>1, <1>2, <1>3, <1>4 DEF SendersAreOpen, ApprovalTypeOK
<1>11. ChannelFollowsRequest'
  BY <1>1, <1>2, <1>3 DEF ChannelFollowsRequest, Decisions
<1>12. WaiterIsReachable'
  <2>1. v # "open"
    BY DEF Decisions
  <2>2. \A b \in Approvals : home[b] \in Gateways
    BY DEF ApprovalTypeOK
  <2>. QED
    BY <1>2, <1>3, <1>4, <2>1, <2>2 DEF WaiterIsReachable
<1>13. AnswersStand'
  <2>1. answers[d].told # "ok"
    BY DEF NoAnswer
  <2>2. \A e \in Deciders : answers[e].told = "ok" =>
          answers[e].approval \in Approvals \ {a} /\ answers'[e] = answers[e]
    <3>1. \A e \in Deciders : answers[e].told = "ok" => answers[e] \in Answer
      BY DEF FunctionsOK, NoAnswer
    <3>. QED
      BY <1>1, <1>8, <2>1, <3>1 DEF AnswersStand, Decisions, Answer
  <2>3. \A e \in Deciders, b \in Approvals : Won(e, b) => b # a /\ Won(e, b)'
    BY <2>2 DEF Won
  <2>4. \A e \in Deciders, b \in Approvals : Won(e, b)' => Won(e, b) \/ (e = d /\ b = a /\ told = "ok")
    BY <1>7, <1>8 DEF Won
  <2>5. \A e \in Deciders : answers'[e].told = "ok" =>
          answers'[e].said \in Decisions /\ channel'[answers'[e].approval] = answers'[e].said
    <3> TAKE e \in Deciders
    <3>1. CASE e = d
      BY <1>3, <1>7, <1>8, <3>1
    <3>2. CASE e # d
      BY <1>3, <1>8, <2>2, <3>2 DEF AnswersStand
    <3>. QED
      BY <3>1, <3>2
  <2>6. \A e, f \in Deciders, b \in Approvals : Won(e, b)' /\ Won(f, b)' => e = f
    BY <2>3, <2>4 DEF AnswersStand
  <2>7. \A b \in Approvals : channel'[b] \in Decisions => \E e \in Deciders : Won(e, b)'
    <3> TAKE b \in Approvals
    <3> HAVE channel'[b] \in Decisions
    <3>1. CASE b = a
      <4>1. told = "ok"
        BY <1>3, <3>1 DEF Decisions
      <4>. QED
        BY <1>7, <1>8, <3>1, <4>1 DEF Won
    <3>2. CASE b # a
      BY <1>3, <2>3, <3>2 DEF AnswersStand
    <3>. QED
      BY <3>1, <3>2
  <2>. QED
    BY <2>5, <2>6, <2>7 DEF AnswersStand
<1>14. LinkInv'
  BY <1>1, <1>2, <1>3, LinkQuiet DEF Decisions
<1>. QED
  BY <1>9, <1>10, <1>11, <1>12, <1>13, <1>14

LEMMA DecideIInv ==
  ASSUME IInv, NEW d \in Deciders, NEW g \in Gateways, NEW a \in Approvals,
         DecideMalformed(d, g, a) \/ \E said \in Decisions : Decide(d, g, a, said)
  PROVE  IInv'
<1>1. PICK v \in Decisions \cup {"closed"}, told \in {"ok", "bad_request", "not_found"},
           said \in Decisions \cup {Malformed} :
        /\ told = "ok" <=> v \in Decisions
        /\ told = "ok" => v = said
        /\ channel' = [channel EXCEPT ![a] = v] /\ Tell(d, told, a, said)
  <2>1. "closed" \notin Decisions
    BY DEF Decisions
  <2>2. CASE DecideMalformed(d, g, a)
    BY <2>1, <2>2 DEF DecideMalformed
  <2>3. CASE \E said \in Decisions : Decide(d, g, a, said)
    BY <2>1, <2>3 DEF Decide
  <2>. QED
    BY <2>2, <2>3
<1>2. /\ answers[d] = NoAnswer /\ a \in pending[g] /\ UNCHANGED <<linkVars, home>>
      /\ pending' = [pending EXCEPT ![g] = @ \ {a}]
  BY DEF DecideMalformed, Decide
<1>. QED
  BY <1>1, <1>2, SenderTakenIInv

LEMMA DecideUnknownIInv ==
  ASSUME IInv, NEW d \in Deciders, NEW g \in Gateways, NEW a \in Approvals,
         NEW said \in Decisions \cup {Malformed}, DecideUnknown(d, g, a, said)
  PROVE  IInv'
<1>. USE DEF IInv, GateInv
<1>1. /\ UNCHANGED <<pc, calls, ledger, home, pending, channel>> /\ answers[d] = NoAnswer
  BY DEF DecideUnknown, linkVars
<1>2. PICK r : r = [told |-> "not_found", approval |-> a, said |-> said]
  OBVIOUS
<1>3. answers' = [answers EXCEPT ![d] = r] /\ r \in Answer /\ r.told # "ok"
  BY <1>2 DEF DecideUnknown, Tell, Answer
<1>4. answers'[d] = r /\ \A e \in Deciders \ {d} : answers'[e] = answers[e]
  BY <1>3 DEF FunctionsOK
<1>5. answers[d].told # "ok"
  BY <1>1 DEF NoAnswer
<1>6. ApprovalTypeOK' /\ FunctionsOK'
  BY <1>1, <1>3 DEF ApprovalTypeOK, FunctionsOK, LinkTypeOK
<1>7. SendersAreOpen' /\ ChannelFollowsRequest' /\ WaiterIsReachable'
  BY <1>1 DEF SendersAreOpen, ChannelFollowsRequest, WaiterIsReachable
<1>8. AnswersStand'
  <2>1. \A e \in Deciders, b \in Approvals : Won(e, b)' <=> Won(e, b)
    BY <1>3, <1>4, <1>5 DEF Won
  <2>. QED
    BY <1>1, <1>3, <1>4, <2>1 DEF AnswersStand
<1>9. LinkInv'
  BY <1>1, LinkQuiet
<1>. QED
  BY <1>6, <1>7, <1>8, <1>9

\* Nobody waits at a replica that has died, and what was decided stays so.
LEMMA RestartIInv ==
  ASSUME IInv, NEW g \in Gateways, Restart(g)
  PROVE  IInv'
<1>. USE DEF IInv, GateInv
<1>1. /\ pc' = [h \in Handlers |-> IF h \in Approvals /\ home[h] = g /\ pc[h] \in ApprovalActive
                                   THEN "gone" ELSE pc[h]]
      /\ pending' = [pending EXCEPT ![g] = {}]
      /\ channel' = [a \in Approvals |-> IF a \in pending[g] THEN "closed" ELSE channel[a]]
      /\ UNCHANGED <<calls, ledger, home, answers>>
  BY DEF Restart
<1>2. /\ \A h \in Handlers : pc'[h] = pc[h] \/ pc'[h] = "gone"
      /\ \A a \in Approvals : home[a] = g => pc'[a] \notin Listening
  BY <1>1, ApprovalsAssumption DEF ApprovalActive, Listening
<1>3. \A a \in Approvals : /\ channel'[a] = channel[a] \/ (channel[a] = "open" /\ channel'[a] = "closed")
                           /\ a \notin pending[g] => channel'[a] = channel[a]
  BY <1>1 DEF SendersAreOpen
<1>4. pending'[g] = {} /\ \A h \in Gateways \ {g} : pending'[h] = pending[h]
  BY <1>1 DEF ApprovalTypeOK
<1>5. ApprovalTypeOK' /\ FunctionsOK'
  <2>1. pc' \in [Handlers -> {"idle"} \cup ApprovalActive \cup Ended]
    BY <1>1 DEF FunctionsOK, Ended
  <2>2. channel' \in [Approvals -> {"unused", "open", "closed"} \cup Decisions]
    BY <1>1 DEF ApprovalTypeOK
  <2>3. pending' \in [Gateways -> SUBSET Approvals] /\ LinkTypeOK'
    BY <1>1 DEF ApprovalTypeOK, LinkTypeOK
  <2>. QED
    BY <1>1, <2>1, <2>2, <2>3, ApprovalsAssumption DEF ApprovalTypeOK, FunctionsOK
<1>6. SendersAreOpen'
  <2>1. \A h \in Gateways \ {g} : \A a \in pending[h] : a \in Approvals /\ a \notin pending[g]
    BY DEF SendersAreOpen, ApprovalTypeOK
  <2>. QED
    BY <1>1, <1>3, <1>4, <2>1 DEF SendersAreOpen
<1>7. ChannelFollowsRequest'
  BY <1>2, <1>3, ApprovalsAssumption DEF ChannelFollowsRequest, Decisions
<1>8. WaiterIsReachable'
  <2>1. \A a \in Approvals : home[a] \in Gateways /\ pc'[a] \in {pc[a], "gone"}
    BY <1>2, ApprovalsAssumption DEF ApprovalTypeOK
  <2>. QED
    BY <1>1, <1>2, <1>3, <1>4, <2>1 DEF WaiterIsReachable, Listening
<1>9. AnswersStand'
  <2>1. \A a \in Approvals : /\ channel[a] \in Decisions => channel'[a] = channel[a]
                             /\ channel'[a] \in Decisions => channel[a] \in Decisions
    BY <1>3 DEF Decisions
  <2>2. \A d \in Deciders : answers[d].told = "ok" => answers[d].approval \in Approvals
    BY DEF FunctionsOK, NoAnswer, Answer
  <2>. QED
    BY <1>1, <2>1, <2>2 DEF AnswersStand, Won
<1>10. LinkInv'
  <2>1. \A a \in Approvals : channel[a] \in Decisions => channel'[a] = channel[a]
    BY <1>3 DEF Decisions
  <2>. QED
    BY <1>1, <1>2, <2>1, LinkQuiet
<1>. QED
  BY <1>5, <1>6, <1>7, <1>8, <1>9, <1>10

LEMMA LedgerIInv ==
  ASSUME IInv, LedgerStep, UNCHANGED approvalVars
  PROVE  IInv'
<1>. USE DEF IInv
<1>1. PICK c \in calls : LedgerCommits(c) \/ LedgerRefuses(c)
  BY DEF LedgerStep
<1>2. pc' = pc /\ channel' = channel
  BY <1>1 DEF LedgerCommits, LedgerRefuses, approvalVars
<1>3. LinkTypeOK /\ LinkTypeOK'
  <2>1. LinkTypeOK
    BY DEF GateInv, ApprovalTypeOK
  <2>2. CASE LedgerCommits(c)
    BY <2>1, <2>2, CommitIsCommitted
  <2>3. CASE LedgerRefuses(c)
    BY <2>1, <2>3 DEF LedgerRefuses, LinkTypeOK
  <2>. QED
    BY <1>1, <2>1, <2>2, <2>3
<1>4. GateInv'
  BY <1>2, <1>3, GateUntouched DEF GateInv, FunctionsOK
<1>5. LinkInv'
  BY <1>1, <1>2, LinkCommits, LinkRefuses
<1>. QED
  BY <1>4, <1>5

-----------------------------------------------------------------------------
(* The theorems *)

LEMMA NextIInv == IInv /\ [GateNext]_requestVars => IInv'
<1> SUFFICES ASSUME IInv, [GateNext]_requestVars
             PROVE  IInv'
  OBVIOUS
<1>1. CASE UNCHANGED requestVars
  <2>1. UNCHANGED <<pc, calls, ledger, approvalVars>>
    BY <1>1 DEF requestVars, linkVars
  <2>2. LinkTypeOK' /\ pc' \in [Handlers -> {"idle"} \cup ApprovalActive \cup Ended]
    BY <2>1 DEF IInv, GateInv, ApprovalTypeOK, LinkTypeOK, FunctionsOK
  <2>3. GateInv'
    BY <2>1, <2>2, GateUntouched DEF IInv
  <2>4. LinkInv'
    BY <2>1, LinkQuiet DEF IInv, GateInv, approvalVars
  <2>. QED
    BY <2>3, <2>4 DEF IInv
<1>2. CASE ApprovalNext
  BY <1>2, RequestIInv, DecideIInv, DecideUnknownIInv, RestartIInv DEF ApprovalNext
<1>3. CASE LedgerStep /\ UNCHANGED approvalVars
  BY <1>3, LedgerIInv
<1>. QED
  BY <1>1, <1>2, <1>3 DEF GateNext

LEMMA Invariant == ApprovalSpec => []IInv
  BY InitIInv, NextIInv, PTL DEF ApprovalSpec

\* The variables keep their types.
THEOREM ApprovalTypeCorrect == ApprovalSpec => []ApprovalTypeOK
<1>1. IInv => ApprovalTypeOK
  BY DEF IInv, GateInv
<1>. QED
  BY <1>1, Invariant, PTL

\* A requester that still listens can be reached through its replica's map.
THEOREM WaitersAreReachable == ApprovalSpec => []WaiterIsReachable
<1>1. IInv => WaiterIsReachable
  BY DEF IInv, GateInv
<1>. QED
  BY <1>1, Invariant, PTL

\* One decider at most is told ok, and the ledger sees no other decision.
THEOREM TheFirstDecisionStands == ApprovalSpec => []FirstDecideWins
<1>1. ASSUME IInv
      PROVE  FirstDecideWins
  <2> SUFFICES ASSUME NEW a \in Approvals
               PROVE  LET won == { d \in Deciders : /\ answers[d].told = "ok"
                                                    /\ answers[d].approval = a }
                      IN  /\ Cardinality(won) <= 1
                          /\ \A s \in Decisions :
                               Committed(a, Event(s)) \/ Committed(a, Evidence(s))
                                 => \E d \in won : answers[d].said = s
    BY DEF FirstDecideWins
  <2> DEFINE won == { d \in Deciders : answers[d].told = "ok" /\ answers[d].approval = a }
  <2>1. \A d \in Deciders : d \in won <=> Won(d, a)
    BY DEF Won
  <2>2. Cardinality(won) <= 1
    <3>1. won = {} \/ \E d : won = {d}
      <4>1. \A d, e \in won : d = e
        BY <1>1, <2>1 DEF IInv, GateInv, AnswersStand
      <4> HIDE DEF won
      <4>. QED
        BY <4>1
    <3> HIDE DEF won
    <3>2. CASE won = {}
      BY <3>2, FS_EmptySet
    <3>3. CASE \E d : won = {d}
      <4>1. PICK d : won = {d}
        BY <3>3
      <4>2. Cardinality({d}) = 1
        BY FS_Singleton
      <4>. QED
        BY <4>1, <4>2
    <3>. QED
      BY <3>1, <3>2, <3>3
  <2>3. ASSUME NEW s \in Decisions, Committed(a, Event(s)) \/ Committed(a, Evidence(s))
        PROVE  \E d \in won : answers[d].said = s
    <3>1. channel[a] = s
      BY <1>1, <2>3 DEF IInv, LinkInv, CallsInOrder, Sent
    <3>2. PICK d \in Deciders : Won(d, a)
      BY <1>1, <3>1 DEF IInv, GateInv, AnswersStand
    <3>3. answers[d].said = s
      BY <1>1, <3>1, <3>2 DEF IInv, GateInv, AnswersStand, Won
    <3>. QED
      BY <2>1, <3>2, <3>3
  <2>. QED
    BY <2>2, <2>3
<1>. QED
  BY <1>1, Invariant, PTL

\* A human_approval row stands on its decision event.
THEOREM EvidenceStandsOnEvents == ApprovalSpec => []EvidenceFollowsEvent
<1>1. IInv => EvidenceFollowsEvent
  BY DEF IInv, LinkInv
<1>. QED
  BY <1>1, Invariant, PTL

\* A run that the caller brings is neither minted nor stamped, and a run that
\* is minted comes first.
THEOREM CallerRunsStayUntouched == ApprovalSpec => []CallerRunsAreLeftAlone
<1>1. IInv => CallerRunsAreLeftAlone
  BY DEF IInv, LinkInv
<1>. QED
  BY <1>1, Invariant, PTL

-----------------------------------------------------------------------------
(* The refinement: what DecisionPromise sees of the gate *)

AnnouncedOf == { a \in Approvals : Committed(a, Asked) }
DecidedOf == [a \in Approvals |-> IF channel[a] \in Decisions THEN channel[a] ELSE None]
RecordedOf == [a \in Approvals |-> IF CommittedDecision(a) = {} THEN None
                                   ELSE CHOOSE s \in CommittedDecision(a) : TRUE]
ReportedOf == [a \in Approvals |-> IF pc[a] = "replied" THEN channel[a] ELSE None]

PromiseView == <<AnnouncedOf, DecidedOf, RecordedOf, ReportedOf>>

\* One of S, of which there is none or one.
OneOf(S) == IF S = {} THEN None ELSE CHOOSE s \in S : TRUE

LEMMA OneOfThese ==
  /\ OneOf({}) = None
  /\ \A s : OneOf({s}) = s
  BY DEF OneOf

LEMMA RecordedIsOne ==
  /\ RecordedOf = [a \in Approvals |-> OneOf(CommittedDecision(a))]
  /\ RecordedOf' = [a \in Approvals |-> OneOf(CommittedDecision(a)')]
  BY DEF RecordedOf, OneOf

LEMMA RecordedUntouched ==
  ASSUME \A a \in Approvals : CommittedDecision(a)' = CommittedDecision(a)
  PROVE  RecordedOf' = RecordedOf
<1>1. \A a \in Approvals : OneOf(CommittedDecision(a)') = OneOf(CommittedDecision(a))
  OBVIOUS
<1>. QED
  BY <1>1, RecordedIsOne

LEMMA LedgerViewUntouched ==
  ASSUME ledger' = ledger
  PROVE  UNCHANGED <<AnnouncedOf, RecordedOf>>
<1>1. \A a, e : Committed(a, e)' <=> Committed(a, e)
  BY DEF Committed
<1>2. \A a : CommittedDecision(a)' = CommittedDecision(a)
  BY <1>1 DEF CommittedDecision, Event
<1>3. AnnouncedOf' = AnnouncedOf
  BY <1>1 DEF AnnouncedOf, Asked
<1>4. RecordedOf' = RecordedOf
  BY <1>2, RecordedUntouched
<1>. QED
  BY <1>3, <1>4

LEMMA Invisible ==
  ASSUME ledger' = ledger,
         \A a \in Approvals :
           /\ channel'[a] = channel[a] \/ {channel[a], channel'[a]} \cap Decisions = {}
           /\ pc'[a] = pc[a] \/ (pc[a] # "replied" /\ pc'[a] # "replied")
           /\ pc[a] = "replied" => channel[a] \in Decisions
  PROVE  UNCHANGED PromiseView
<1>1. UNCHANGED <<AnnouncedOf, RecordedOf>>
  BY LedgerViewUntouched
<1>2. DecidedOf' = DecidedOf
  BY DEF DecidedOf
<1>3. ReportedOf' = ReportedOf
  BY DEF ReportedOf
<1>. QED
  BY <1>1, <1>2, <1>3 DEF PromiseView

\* Only one decision is ever recorded, so it is the one the channel carried.
LEMMA OneDecisionRecorded ==
  ASSUME IInv, NEW a \in Approvals
  PROVE  /\ CommittedDecision(a) \subseteq {channel[a]}
         /\ pc[a] = "evidencing" => CommittedDecision(a) = {channel[a]}
<1>1. \A s \in CommittedDecision(a) : s = channel[a]
  BY DEF CommittedDecision, IInv, LinkInv, CallsInOrder, Sent
<1>2. pc[a] = "evidencing" => channel[a] \in CommittedDecision(a)
  BY DEF CommittedDecision, IInv, LinkInv, CallsInOrder, GateInv, ChannelFollowsRequest
<1>. QED
  BY <1>1, <1>2

LEMMA ReplyRefines ==
  ASSUME IInv, NEW a \in Approvals, Reply(a)
  PROVE  DecisionPromise!Next
<1>1. /\ pc[a] = "evidencing" /\ a \in Handlers /\ UNCHANGED <<ledger, channel>>
      /\ pc'[a] = "replied" /\ \A h \in Handlers \ {a} : pc'[h] = pc[h]
  BY ApprovalsAssumption, HandlerMoves DEF Reply, GotoQuietly, approvalVars, IInv, GateInv
<1>2. UNCHANGED <<AnnouncedOf, RecordedOf>>
  BY <1>1, LedgerViewUntouched
<1>3. DecidedOf' = DecidedOf
  BY <1>1 DEF DecidedOf
<1>4. CommittedDecision(a) = {channel[a]} /\ channel[a] \in Decisions
  BY <1>1, OneDecisionRecorded DEF IInv, GateInv, ChannelFollowsRequest
<1>5. RecordedOf[a] = channel[a] /\ channel[a] # None
  BY <1>4 DEF RecordedOf, Decisions, None
<1>6. ReportedOf[a] = None
  BY <1>1 DEF ReportedOf
<1>7. ReportedOf' = [ReportedOf EXCEPT ![a] = RecordedOf[a]]
  BY <1>1, <1>5, ApprovalsAssumption DEF ReportedOf
<1>8. DecisionPromise!Report(a)
  BY <1>2, <1>3, <1>5, <1>6, <1>7
     DEF DecisionPromise!Report, AnnouncedOf, DecidedOf, RecordedOf, ReportedOf
<1>. QED
  BY <1>8 DEF DecisionPromise!Next

LEMMA DecideRefines ==
  ASSUME IInv, NEW d \in Deciders, NEW g \in Gateways, NEW a \in Approvals, NEW said \in Decisions,
         Decide(d, g, a, said)
  PROVE  [DecisionPromise!Next]_PromiseView
<1>1. /\ Committed(a, Asked) /\ a \in pending[g] /\ UNCHANGED <<pc, calls, ledger>>
      /\ channel' = [channel EXCEPT ![a] = IF pc[a] \in Listening THEN said ELSE "closed"]
  BY DEF Decide, linkVars
<1>2. channel[a] = "open"
  BY <1>1 DEF IInv, GateInv, SendersAreOpen
<1>3. /\ channel'[a] = (IF pc[a] \in Listening THEN said ELSE "closed")
      /\ \A b \in Approvals \ {a} : channel'[b] = channel[b]
  BY <1>1 DEF IInv, GateInv, ApprovalTypeOK
<1>4. \A b \in Approvals : pc[b] = "replied" => channel[b] \in Decisions
  BY DEF IInv, GateInv, ChannelFollowsRequest
<1>5. CASE pc[a] \notin Listening
  <2>1. {channel[a], channel'[a]} \cap Decisions = {}
    BY <1>2, <1>3, <1>5 DEF Decisions
  <2>. QED
    BY <1>1, <1>3, <1>4, <2>1, Invisible
<1>6. CASE pc[a] \in Listening
  <2>1. UNCHANGED <<AnnouncedOf, RecordedOf>> /\ a \in AnnouncedOf
    BY <1>1, LedgerViewUntouched DEF AnnouncedOf
  <2>2. DecidedOf[a] = None
    BY <1>2 DEF DecidedOf, Decisions
  <2>3. DecidedOf' = [DecidedOf EXCEPT ![a] = said]
    BY <1>3, <1>6 DEF DecidedOf
  <2>4. ReportedOf' = ReportedOf
    BY <1>1, <1>2, <1>3, <1>4 DEF ReportedOf, Decisions
  <2>5. DecisionPromise!Happen(a, said)
    BY <2>1, <2>2, <2>3, <2>4
       DEF DecisionPromise!Happen, AnnouncedOf, DecidedOf, RecordedOf, ReportedOf
  <2>. QED
    BY <2>5 DEF DecisionPromise!Next
<1>. QED
  BY <1>5, <1>6

LEMMA CommitRefines ==
  ASSUME IInv, NEW c \in calls, LedgerCommits(c), UNCHANGED approvalVars
  PROVE  [DecisionPromise!Next]_PromiseView
<1>1. \A a \in Approvals : \A e : Committed(a, e)' <=> Committed(a, e) \/ c = <<a, e>>
  BY CommitIsCommitted, ApprovalsAssumption DEF IInv, GateInv, ApprovalTypeOK
<1>2. UNCHANGED <<pc, channel>>
  BY DEF LedgerCommits, approvalVars
<1>3. DecidedOf' = DecidedOf /\ ReportedOf' = ReportedOf
  BY <1>2 DEF DecidedOf, ReportedOf
<1>4. \A a \in Approvals, s \in Decisions : s \in CommittedDecision(a)' <=>
        s \in CommittedDecision(a) \/ c = <<a, Event(s)>>
  BY <1>1 DEF CommittedDecision, Event
<1>5. \A a \in Approvals : /\ CommittedDecision(a) \subseteq Decisions
                           /\ CommittedDecision(a)' \subseteq Decisions
  BY DEF CommittedDecision
<1>6. CASE \E a \in Approvals : c = <<a, Asked>>
  <2>1. PICK a \in Approvals : c = <<a, Asked>>
    BY <1>6
  <2>2. AnnouncedOf' = AnnouncedOf \cup {a}
    BY <1>1, <2>1 DEF AnnouncedOf, Asked
  <2>3. \A b \in Approvals : CommittedDecision(b)' = CommittedDecision(b)
    BY <1>4, <1>5, <2>1, EntriesDiffer
  <2>4. RecordedOf' = RecordedOf
    BY <2>3, RecordedUntouched
  <2>5. DecisionPromise!Announce(a)
    BY <1>3, <2>2, <2>4
       DEF DecisionPromise!Announce, AnnouncedOf, DecidedOf, RecordedOf, ReportedOf
  <2>. QED
    BY <2>5 DEF DecisionPromise!Next
<1>7. CASE ~ \E a \in Approvals : c = <<a, Asked>>
  <2>1. AnnouncedOf' = AnnouncedOf
    BY <1>1, <1>7 DEF AnnouncedOf, Asked
  <2>2. CASE \E a \in Approvals, s \in Decisions : c = <<a, Event(s)>> /\ s \notin CommittedDecision(a)
    <3>1. PICK a \in Approvals, s \in Decisions : c = <<a, Event(s)>> /\ s \notin CommittedDecision(a)
      BY <2>2
    <3>2. channel[a] = s
      BY <3>1 DEF IInv, LinkInv, CallsInOrder, Sent
    <3>3. CommittedDecision(a) = {}
      BY <3>1, <3>2, OneDecisionRecorded
    <3>4. CommittedDecision(a)' = {s}
      BY <1>4, <1>5, <3>1, <3>3, EntriesDiffer
    <3>5. \A b \in Approvals \ {a} : CommittedDecision(b)' = CommittedDecision(b)
      BY <1>4, <1>5, <3>1
    <3>6. RecordedOf[a] = None /\ DecidedOf[a] = s /\ s # None
      BY <3>2, <3>3 DEF RecordedOf, DecidedOf, Decisions, None
    <3>7. RecordedOf' = [RecordedOf EXCEPT ![a] = s]
      <4>1. OneOf(CommittedDecision(a)') = s
        BY <3>4, OneOfThese
      <4>2. \A b \in Approvals \ {a} : OneOf(CommittedDecision(b)') = OneOf(CommittedDecision(b))
        BY <3>5
      <4>. QED
        BY <4>1, <4>2, RecordedIsOne
    <3>8. DecisionPromise!Record(a)
      BY <1>3, <2>1, <3>6, <3>7
         DEF DecisionPromise!Record, AnnouncedOf, DecidedOf, RecordedOf, ReportedOf
    <3>. QED
      BY <3>8 DEF DecisionPromise!Next
  <2>3. CASE ~ \E a \in Approvals, s \in Decisions : c = <<a, Event(s)>> /\ s \notin CommittedDecision(a)
    <3>1. \A b \in Approvals : CommittedDecision(b)' = CommittedDecision(b)
      BY <1>4, <1>5, <2>3
    <3>2. RecordedOf' = RecordedOf
      BY <3>1, RecordedUntouched
    <3>. QED
      BY <1>3, <2>1, <3>2 DEF PromiseView
  <2>. QED
    BY <2>2, <2>3
<1>. QED
  BY <1>6, <1>7

\* A step of the handler that is no reply moves nothing the promise sees.
LEMMA RequestRefines ==
  ASSUME IInv, NEW a \in Approvals,
         (ResolveRun(a) /\ UNCHANGED approvalVars) \/ RequestStep(a) \/ RequesterHangsUp(a)
  PROVE  [DecisionPromise!Next]_PromiseView
<1>1. \A b \in Approvals : pc[b] = "replied" => channel[b] \in Decisions
  BY DEF IInv, GateInv, ChannelFollowsRequest
<1>2. CASE Reply(a)
  BY <1>2, ReplyRefines
<1>3. CASE Stash(a)
  <2>1. pc[a] = "ready" /\ GotoSending(a, "requesting", Asked) /\ channel' = [channel EXCEPT ![a] = "open"]
    BY <1>3 DEF Stash
  <2>2. /\ pc'[a] = "requesting" /\ ledger' = ledger
        /\ \A b \in Approvals \ {a} : pc'[b] = pc[b]
    BY <2>1, ApprovalsAssumption, HandlerMoves DEF GotoSending, IInv, GateInv
  <2>3. channel[a] = "unused" /\ channel'[a] = "open" /\ \A b \in Approvals \ {a} : channel'[b] = channel[b]
    BY <2>1 DEF IInv, GateInv, ChannelFollowsRequest, ApprovalTypeOK
  <2>4. {channel[a], channel'[a]} \cap Decisions = {}
    BY <2>3 DEF Decisions
  <2>. QED
    BY <1>1, <2>1, <2>2, <2>3, <2>4, Invisible
<1>4. CASE ~ Reply(a) /\ ~ Stash(a)
  <2>1. /\ ledger' = ledger /\ channel' = channel /\ pc[a] # "replied"
        /\ \E next \in ({"failed", "gone"} \cup ApprovalActive) : Goto(a, next)
    BY <1>4 DEF RequestStep, ResolveRun, ResolveStep, RunMinted, Err, StampingDone, RequestRecorded,
       Receive, SenderDropped, DecisionRecorded, RequestFails, RequesterHangsUp, GotoSending,
       GotoQuietly, Ok, approvalVars, ApprovalActive, Listening
  <2>2. pc'[a] # "replied" /\ \A b \in Approvals \ {a} : pc'[b] = pc[b]
    BY <2>1, ApprovalsAssumption, HandlerMoves DEF IInv, GateInv, ApprovalActive, Listening
  <2>. QED
    BY <1>1, <2>1, <2>2, Invisible
<1>. QED
  BY <1>2, <1>3, <1>4

LEMMA StepRefines == IInv /\ [GateNext]_requestVars => [DecisionPromise!Next]_DecisionPromise!vars
<1> SUFFICES ASSUME IInv, [GateNext]_requestVars
             PROVE  [DecisionPromise!Next]_PromiseView
  BY DEF DecisionPromise!vars, PromiseView, AnnouncedOf, DecidedOf, RecordedOf, ReportedOf
<1>1. \A b \in Approvals : pc[b] = "replied" => channel[b] \in Decisions
  BY DEF IInv, GateInv, ChannelFollowsRequest
<1>2. CASE UNCHANGED requestVars
  BY <1>1, <1>2, Invisible DEF requestVars, linkVars, approvalVars
<1>3. CASE \E a \in Approvals :
             (ResolveRun(a) /\ UNCHANGED approvalVars) \/ RequestStep(a) \/ RequesterHangsUp(a)
  BY <1>3, RequestRefines
<1>4. ASSUME NEW d \in Deciders, NEW g \in Gateways, NEW a \in Approvals,
             \/ DecideMalformed(d, g, a)
             \/ \E said \in Decisions : Decide(d, g, a, said)
             \/ \E said \in Decisions \cup {Malformed} : DecideUnknown(d, g, a, said)
      PROVE  [DecisionPromise!Next]_PromiseView
  <2>1. CASE DecideMalformed(d, g, a)
    <3>1. /\ a \in pending[g] /\ UNCHANGED <<pc, ledger>>
          /\ channel' = [channel EXCEPT ![a] = "closed"]
      BY <2>1 DEF DecideMalformed, linkVars
    <3>2. channel[a] = "open" /\ channel'[a] = "closed" /\ \A b \in Approvals \ {a} : channel'[b] = channel[b]
      BY <3>1 DEF IInv, GateInv, SendersAreOpen, ApprovalTypeOK
    <3>3. {channel[a], channel'[a]} \cap Decisions = {}
      BY <3>2 DEF Decisions
    <3>. QED
      BY <1>1, <3>1, <3>2, <3>3, Invisible
  <2>2. CASE \E said \in Decisions : Decide(d, g, a, said)
    BY <2>2, DecideRefines
  <2>3. CASE \E said \in Decisions \cup {Malformed} : DecideUnknown(d, g, a, said)
    <3>1. UNCHANGED <<pc, ledger, channel>>
      BY <2>3 DEF DecideUnknown, linkVars
    <3>. QED
      BY <1>1, <3>1, Invisible
  <2>. QED
    BY <1>4, <2>1, <2>2, <2>3
<1>5. ASSUME NEW g \in Gateways, Restart(g)
      PROVE  [DecisionPromise!Next]_PromiseView
  <2>1. /\ ledger' = ledger
        /\ pc' = [h \in Handlers |-> IF h \in Approvals /\ home[h] = g /\ pc[h] \in ApprovalActive
                                     THEN "gone" ELSE pc[h]]
        /\ channel' = [a \in Approvals |-> IF a \in pending[g] THEN "closed" ELSE channel[a]]
    BY <1>5 DEF Restart
  <2>2. \A a \in Approvals : pc'[a] = pc[a] \/ (pc[a] # "replied" /\ pc'[a] # "replied")
    BY <2>1, ApprovalsAssumption DEF ApprovalActive, Listening
  <2>3. \A a \in Approvals : channel'[a] = channel[a] \/ (channel[a] = "open" /\ channel'[a] = "closed")
    BY <2>1 DEF IInv, GateInv, SendersAreOpen
  <2>4. \A a \in Approvals : channel'[a] = channel[a] \/ {channel[a], channel'[a]} \cap Decisions = {}
    BY <2>3 DEF Decisions
  <2>. QED
    BY <1>1, <2>1, <2>2, <2>4, Invisible
<1>6. CASE LedgerStep /\ UNCHANGED approvalVars
  <2>1. PICK c \in calls : LedgerCommits(c) \/ LedgerRefuses(c)
    BY <1>6 DEF LedgerStep
  <2>2. CASE LedgerCommits(c)
    BY <1>6, <2>2, CommitRefines
  <2>3. CASE LedgerRefuses(c)
    BY <1>1, <1>6, <2>3, Invisible DEF LedgerRefuses, approvalVars
  <2>. QED
    BY <2>1, <2>2, <2>3
<1>. QED
  BY <1>2, <1>3, <1>4, <1>5, <1>6 DEF GateNext, ApprovalNext

\* The gate keeps the promise of WitnessedOutcome: asked for in the ledger,
\* decided once, recorded as decided, and reported only after that.
THEOREM ImplementsWitnessedOutcome == ApprovalSpec => DecisionsAreWitnessed
<1>1. GateInit => DecisionPromise!Init
  <2> SUFFICES ASSUME GateInit
               PROVE  DecisionPromise!Init
    OBVIOUS
  <2>1. \A a \in Approvals : /\ pc[a] = "idle" /\ channel[a] = "unused"
                             /\ \A e : ~ Committed(a, e)
    BY ApprovalsAssumption DEF GateInit, LinkInit, ApprovalInit, Committed, ToSet
  <2>2. \A a \in Approvals : CommittedDecision(a) = {}
    BY <2>1 DEF CommittedDecision
  <2>. QED
    BY <2>1, <2>2 DEF DecisionPromise!Init, Decisions
<1>. QED
  BY <1>1, Invariant, StepRefines, PTL DEF ApprovalSpec, DecisionsAreWitnessed, DecisionPromise!Spec

=============================================================================
