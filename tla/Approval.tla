------------------------------ MODULE Approval ------------------------------
(***************************************************************************)
(* The approval gate of the gateway (approval/mod.rs): a request blocks on *)
(* a oneshot channel until somebody posts a decision for its approval id.  *)
(*                                                                         *)
(* The channel's sender waits in a map in the memory of the gateway that   *)
(* serves the request; every other replica has a map of its own, and a     *)
(* restart empties it.  A decider may reach any replica, several deciders  *)
(* may act at once, and each learns the approval id from the               *)
(* approval_requested event in the ledger.                                 *)
(***************************************************************************)
EXTENDS LedgerClient, FiniteSets

CONSTANTS
  Approvals,   \* POST /approval/request calls
  Deciders,    \* POST /approval/{id}/decide calls
  Gateways     \* gateway replicas

ASSUME ApprovalsAssumption == Approvals \subseteq Handlers

VARIABLES
  home,      \* the replica that serves each request
  pending,   \* per replica, the approvals whose sender is in its map
  channel,   \* state of each approval's oneshot channel
  answers    \* per decider, what it asked and what it was told

approvalVars == <<home, pending, channel, answers>>
requestVars == <<linkVars, approvalVars>>

Decisions == {"granted", "denied"}
Malformed == "malformed"

Asked == Entry("approval_requested")
Event(d) == Entry(IF d = "granted" THEN "approval_granted" ELSE "approval_denied")
Evidence(d) == Entry(IF d = "granted" THEN "human_approval_granted" ELSE "human_approval_denied")

ApprovalEntries == {Entry("run"), Entry("binding"), Asked}
                     \cup { Event(d) : d \in Decisions } \cup { Evidence(d) : d \in Decisions }

ASSUME ApprovalEntriesAssumption == ApprovalEntries \subseteq Entries

\* The request handler is running, and holds the channel's receiver.
Listening == {"requesting", "waiting"}
ApprovalActive == {"minting", "stamping", "ready", "recording", "evidencing"} \cup Listening

NoAnswer == [told |-> "nothing"]
Answer == [told : {"ok", "bad_request", "not_found"}, approval : Approvals,
           said : Decisions \cup {Malformed}]

ApprovalTypeOK ==
  /\ LinkTypeOK
  /\ \A a \in Approvals : pc[a] \in {"idle"} \cup ApprovalActive \cup Ended
  /\ home \in [Approvals -> Gateways]
  /\ pending \in [Gateways -> SUBSET Approvals]
  /\ channel \in [Approvals -> {"unused", "open", "closed"} \cup Decisions]
  /\ \A d \in Deciders : answers[d] \in {NoAnswer} \cup Answer

ApprovalInit ==
  /\ home \in [Approvals -> Gateways]
  /\ pending = [g \in Gateways |-> {}]
  /\ channel = [a \in Approvals |-> "unused"]
  /\ answers = [d \in Deciders |-> NoAnswer]

-----------------------------------------------------------------------------
(* request *)

\* Mutant of Stash: the event goes out first, the map is filled after it.
StashLate(a) ==
  /\ pc[a] = "ready"
  /\ channel' = [channel EXCEPT ![a] = "open"]
  /\ GotoSending(a, "requesting", Asked)
  /\ UNCHANGED <<home, pending, answers>>

\* The sender goes into the map before the event goes to the ledger.
Stash(a) ==
  /\ pc[a] = "ready"
  /\ pending' = [pending EXCEPT ![home[a]] = @ \cup {a}]
  /\ channel' = [channel EXCEPT ![a] = "open"]
  /\ GotoSending(a, "requesting", Asked)
  /\ UNCHANGED <<home, answers>>

RequestRecorded(a) ==
  /\ Ok(a, "requesting", Asked)
  /\ GotoQuietly(a, "waiting")
  /\ UNCHANGED approvalVars

\* Mutant of Receive: the row is recorded and the event forgotten.
ReceiveEvidenceOnly(a) ==
  /\ pc[a] = "waiting" /\ channel[a] \in Decisions
  /\ GotoSending(a, "evidencing", Evidence(channel[a]))
  /\ UNCHANGED approvalVars

\* rx.await returns the decision, and its event goes to the ledger.
Receive(a) ==
  /\ pc[a] = "waiting" /\ channel[a] \in Decisions
  /\ GotoSending(a, "recording", Event(channel[a]))
  /\ UNCHANGED approvalVars

\* Mutant of SenderDropped: a closed channel is awaited again.
SenderDroppedIgnored(a) ==
  /\ pc[a] = "waiting" /\ channel[a] = "closed"
  /\ UNCHANGED requestVars

\* rx.await fails: the sender was dropped.
SenderDropped(a) ==
  /\ pc[a] = "waiting" /\ channel[a] = "closed"
  /\ GotoQuietly(a, "failed")
  /\ UNCHANGED approvalVars

\* Mutant of DecisionRecorded: the error of the event append is swallowed.
DecisionRecordedOrNot(a) ==
  /\ pc[a] = "recording"
  /\ GotoSending(a, "evidencing", Evidence(channel[a]))
  /\ UNCHANGED approvalVars

DecisionRecorded(a) ==
  /\ Ok(a, "recording", Event(channel[a]))
  /\ GotoSending(a, "evidencing", Evidence(channel[a]))
  /\ UNCHANGED approvalVars

\* 200 with the decision, whether or not the human_approval row was recorded.
Reply(a) ==
  /\ pc[a] = "evidencing"
  /\ GotoQuietly(a, "replied")
  /\ UNCHANGED approvalVars

\* The run, or one of the two events, could not be recorded: 500.  A stashed
\* sender stays in the map.
RequestFails(a) ==
  /\ \E at \in {"requesting", "recording"} : Err(a, at)
  /\ UNCHANGED approvalVars

\* The requester hangs up and axum drops the handler; no clean-up code runs.
RequesterHangsUp(a) ==
  /\ pc[a] \in ApprovalActive
  /\ GotoQuietly(a, "gone")
  /\ UNCHANGED approvalVars

-----------------------------------------------------------------------------
(* decide *)

Tell(d, answer, a, said) ==
  answers' = [answers EXCEPT ![d] = [told |-> answer, approval |-> a, said |-> said]]

\* remove(&id) finds nothing on this replica: 404.
DecideUnknown(d, g, a, said) ==
  /\ answers[d] = NoAnswer /\ Committed(a, Asked)
  /\ a \notin pending[g]
  /\ Tell(d, "not_found", a, said)
  /\ UNCHANGED <<linkVars, home, pending, channel>>

\* Mutant of DecideMalformed: an unknown decision is passed on.
DecideUnchecked(d, g, a) ==
  /\ answers[d] = NoAnswer /\ Committed(a, Asked)
  /\ a \in pending[g]
  /\ pending' = [pending EXCEPT ![g] = @ \ {a}]
  /\ channel' = [channel EXCEPT ![a] = Malformed]
  /\ Tell(d, "ok", a, Malformed)
  /\ UNCHANGED <<linkVars, home>>

\* The sender is out of the map when the body turns out to be no decision,
\* and is dropped with the 400.
DecideMalformed(d, g, a) ==
  /\ answers[d] = NoAnswer /\ Committed(a, Asked)
  /\ a \in pending[g]
  /\ pending' = [pending EXCEPT ![g] = @ \ {a}]
  /\ channel' = [channel EXCEPT ![a] = "closed"]
  /\ Tell(d, "bad_request", a, Malformed)
  /\ UNCHANGED <<linkVars, home>>

\* Mutant of Decide: the entry is looked up and not removed.
DecideKeepingEntry(d, g, a, said) ==
  /\ answers[d] = NoAnswer /\ Committed(a, Asked)
  /\ a \in pending[g]
  /\ IF pc[a] \in Listening
     THEN channel' = [channel EXCEPT ![a] = said] /\ Tell(d, "ok", a, said)
     ELSE channel' = [channel EXCEPT ![a] = "closed"] /\ Tell(d, "not_found", a, said)
  /\ UNCHANGED <<linkVars, home, pending>>

\* send succeeds while the receiver lives; afterwards it is a 404.
Decide(d, g, a, said) ==
  /\ answers[d] = NoAnswer /\ Committed(a, Asked)
  /\ a \in pending[g]
  /\ pending' = [pending EXCEPT ![g] = @ \ {a}]
  /\ IF pc[a] \in Listening
     THEN channel' = [channel EXCEPT ![a] = said] /\ Tell(d, "ok", a, said)
     ELSE channel' = [channel EXCEPT ![a] = "closed"] /\ Tell(d, "not_found", a, said)
  /\ UNCHANGED <<linkVars, home>>

-----------------------------------------------------------------------------
(* Gateway process *)

\* The replica dies and comes back with an empty map.
Restart(g) ==
  /\ pc' = [h \in Handlers |-> IF h \in Approvals /\ home[h] = g /\ pc[h] \in ApprovalActive
                               THEN "gone" ELSE pc[h]]
  /\ pending' = [pending EXCEPT ![g] = {}]
  /\ channel' = [a \in Approvals |-> IF a \in pending[g] THEN "closed" ELSE channel[a]]
  /\ UNCHANGED <<calls, ledger, home, answers>>

-----------------------------------------------------------------------------
(* Specification *)

RequestStep(a) ==
  \/ ResolveStep(a) /\ UNCHANGED approvalVars
  \/ Stash(a) \/ RequestRecorded(a) \/ Receive(a) \/ SenderDropped(a)
  \/ DecisionRecorded(a) \/ Reply(a) \/ RequestFails(a)

ApprovalNext ==
  \/ \E a \in Approvals :
       (ResolveRun(a) /\ UNCHANGED approvalVars) \/ RequestStep(a) \/ RequesterHangsUp(a)
  \/ \E d \in Deciders, g \in Gateways, a \in Approvals :
       \/ DecideMalformed(d, g, a)
       \/ \E said \in Decisions : Decide(d, g, a, said)
       \/ \E said \in Decisions \cup {Malformed} : DecideUnknown(d, g, a, said)
  \/ \E g \in Gateways : Restart(g)

GateNext == ApprovalNext \/ (LedgerStep /\ UNCHANGED approvalVars)

GateInit == LinkInit /\ ApprovalInit

ApprovalSpec == GateInit /\ [][GateNext]_requestVars

\* The ledger deals with every call it is sent, and a handler whose call was
\* dealt with is polled.  Nobody has to decide, retry or reconnect.
FairApprovalSpec ==
  /\ ApprovalSpec
  /\ WF_requestVars(LedgerStep /\ UNCHANGED approvalVars)
  /\ \A a \in Approvals : WF_requestVars(Answered(a) /\ RequestStep(a))

-----------------------------------------------------------------------------
(* Properties *)

\* A requester that listens on an open channel can be reached through the map
\* of its replica: the sender is stashed before the event that tells deciders
\* about it, so that a very fast decider does not miss it, and it is never
\* removed without either a decision or a closed channel.
WaiterIsReachable ==
  \A a \in Approvals : pc[a] \in Listening /\ channel[a] = "open" => a \in pending[home[a]]

\* First decide wins: at most one decide on an approval is told ok, its
\* decision is the only one the ledger ever sees, and no decision event or
\* human_approval row exists that nobody was told ok for.
FirstDecideWins ==
  \A a \in Approvals :
    LET won == { d \in Deciders : /\ answers[d].told = "ok"
                                  /\ answers[d].approval = a }
    IN  /\ Cardinality(won) <= 1
        /\ \A s \in Decisions :
             Committed(a, Event(s)) \/ Committed(a, Evidence(s))
               => \E d \in won : answers[d].said = s

\* A human_approval row only mirrors a decision event that came before it.
EvidenceFollowsEvent ==
  \A a \in Approvals, s \in Decisions : \A i \in 1 .. Len(ledger[a]) :
    ledger[a][i] = Evidence(s) => \E j \in 1 .. i - 1 : ledger[a][j] = Event(s)

CommittedDecision(a) == { s \in Decisions : Committed(a, Event(s)) }

DecisionPromise == INSTANCE WitnessedOutcome WITH
  Subjects <- Approvals, Outcomes <- Decisions,
  announced <- { a \in Approvals : Committed(a, Asked) },
  outcome <- [a \in Approvals |-> IF channel[a] \in Decisions THEN channel[a] ELSE None],
  recorded <- [a \in Approvals |-> IF CommittedDecision(a) = {} THEN None
                                   ELSE CHOOSE s \in CommittedDecision(a) : TRUE],
  reported <- [a \in Approvals |-> IF pc[a] = "replied" THEN channel[a] ELSE None]

\* A decision is asked for in the ledger, taken once, recorded as taken, and
\* reported to the requester only after that.
DecisionsAreWitnessed == DecisionPromise!Spec

\* "surface that as an error rather than hanging forever": a requester whose
\* channel is decided or closed gets an answer.
ResolvedRequestsEnd ==
  \A a \in Approvals : channel[a] \in Decisions \cup {"closed"} ~> pc[a] \in Ended

=============================================================================
