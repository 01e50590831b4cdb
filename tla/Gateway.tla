------------------------------ MODULE Gateway -------------------------------
(***************************************************************************)
(* The gateway as an agent meets it: the approval gate, the tool proxy and *)
(* the retrieval proxy over one ledger link, and a reader of the dossier of*)
(* one of their runs.  Nothing in the gateway connects the three.          *)
(*                                                                         *)
(* A restart of a replica is Restart of Approval for the requests it       *)
(* serves, and the client of each proxied call hanging up.                 *)
(***************************************************************************)
EXTENDS Approval, ToolProxy, Retrieval, RunDossier

CONSTANT MaxRequests   \* bound on the requests that arrive, the dossier's included

ASSUME MaxRequestsAssumption == MaxRequests \in Nat

vars == <<linkVars, approvalVars, toolVars, retrievalVars, dossierVars>>

\* One handler for each request.
ASSUME RoutesAssumption ==
  /\ Approvals \cap ToolCalls = {} /\ Approvals \cap Retrievals = {}
  /\ ToolCalls \cap Retrievals = {}

TypeOK == ApprovalTypeOK /\ ToolTypeOK /\ RetrievalTypeOK /\ DossierTypeOK

Init == LinkInit /\ ApprovalInit /\ ToolInit /\ RetrievalInit /\ DossierInit

Requested == Cardinality({ h \in Handlers : pc[h] # "idle" }) + (IF subject = None THEN 0 ELSE 1)

LedgerActs == RetrievalLedgerStep /\ UNCHANGED <<approvalVars, toolVars, dossierVars>>

\* What the steps of one component leave alone.
InApproval == UNCHANGED <<toolVars, retrievalVars, dossierVars>>
InTool == UNCHANGED <<approvalVars, retrievalVars, dossierVars>>
InRetrieval == UNCHANGED <<approvalVars, toolVars, dossierVars>>
InDossier == UNCHANGED <<approvalVars, toolVars, retrievalVars>>

Next == /\ \/ ApprovalNext /\ InApproval
           \/ ToolNext /\ InTool
           \/ RetrievalNext /\ InRetrieval
           \/ DossierNext /\ InDossier
           \/ LedgerActs
        /\ Requested' <= MaxRequests

Spec == Init /\ [][Next]_vars

\* The ledger and the two kinds of backend deal with what they are sent; a
\* handler whose calls were dealt with is polled.
FairSpec ==
  /\ Spec
  /\ WF_vars(LedgerActs)
  /\ \A a \in Approvals : WF_vars(Answered(a) /\ RequestStep(a) /\ InApproval)
  /\ \A t \in Routed :
       /\ WF_vars(BackendStep(t) /\ InTool)
       /\ WF_vars(Answered(t) /\ t \notin forwarded /\ ProxyStep(t) /\ InTool)
  /\ \A q \in Backed :
       /\ WF_vars(RetrievalBackendStep(q) /\ InRetrieval)
       /\ WF_vars(Answered(q) /\ q \notin asked /\ RetrievalStep(q) /\ InRetrieval)

-----------------------------------------------------------------------------
(* Properties *)

\* Every row stands on what it is about.  A human_approval comes after the
\* event of its decision, an invocation and its effects after the outcome of
\* their call, also when calls to the ledger are late or lost.
RowsFollowEvents == EvidenceFollowsEvent /\ RowsFollowOutcome

\* What a retrieval_result names can be fetched: the rows of its documents are
\* there before it, and the bytes of each row before the row.
ResultsAreFetchable == ResultFollowsArtifacts /\ ArtifactsHaveBlobs

=============================================================================
