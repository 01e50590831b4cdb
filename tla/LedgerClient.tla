---------------------------- MODULE LedgerClient ----------------------------
(***************************************************************************)
(* What every proxying handler of the gateway shares: its HTTP calls to    *)
(* the ledger, and the run it works under (provenance.rs).                 *)
(*                                                                         *)
(* A call is one request, never retried and without a timeout.  The ledger *)
(* applies it or refuses it, each create handler atomically (see           *)
(* HashChain and ChainLog), and it may do so after the caller has stopped  *)
(* listening: the connection can break, the client can hang up, and the    *)
(* gateway can die while a call is in flight.                              *)
(***************************************************************************)
EXTENDS Sequences, SequencesExt

CONSTANTS
  Handlers,    \* invocations of proxying handlers, over all gateways
  Identified,  \* those whose request carries x-trackward-run-id
  Stamped,     \* TRUE when the gateways resolved a registry binding at startup
  Entries      \* what the handlers may record

ASSUME IdentifiedAssumption == Identified \subseteq Handlers
ASSUME StampedAssumption == Stamped \in BOOLEAN

VARIABLES
  pc,       \* where each handler is
  calls,    \* <<handler, entry>> calls on their way to the ledger
  ledger    \* per handler, the entries the ledger committed, in commit order

linkVars == <<pc, calls, ledger>>

None == "none"

\* A handler that will not take another step.
Ended == {"replied", "failed", "gone"}

Entry(kind) == [kind |-> kind, item |-> 0, linked |-> FALSE]

LinkTypeOK ==
  /\ calls \subseteq Handlers \X Entries
  /\ ledger \in [Handlers -> Seq(Entries)]

LinkInit ==
  /\ pc = [h \in Handlers |-> "idle"]
  /\ calls = {}
  /\ ledger = [h \in Handlers |-> <<>>]

-----------------------------------------------------------------------------
(* Calls *)

Send(h, e) == calls' = calls \cup {<<h, e>>}

Committed(h, e) == e \in ToSet(ledger[h])

\* Nothing that h sent is still on its way.
Answered(h) == \A c \in calls : c[1] # h

\* The ledger's create handler commits, whoever still waits for the answer.
LedgerCommits(c) ==
  /\ c \in calls
  /\ calls' = calls \ {c}
  /\ ledger' = [ledger EXCEPT ![c[1]] = Append(@, c[2])]
  /\ UNCHANGED pc

\* The call is refused, or lost on the way or in the ledger.
LedgerRefuses(c) ==
  /\ c \in calls
  /\ calls' = calls \ {c}
  /\ UNCHANGED <<pc, ledger>>

Goto(h, next) == pc' = [pc EXCEPT ![h] = next]

\* Some call in flight is dealt with.
LedgerStep == \E c \in calls : LedgerCommits(c) \/ LedgerRefuses(c)

\* A step that only sends `e` and goes to `next`.
GotoSending(h, next, e) == Goto(h, next) /\ Send(h, e) /\ UNCHANGED ledger

\* A step that sends nothing.
GotoQuietly(h, next) == Goto(h, next) /\ UNCHANGED <<calls, ledger>>

\* The call for `e` returns Ok: only if it was committed.
Ok(h, at, e) == pc[h] = at /\ Committed(h, e)

\* `?` on a call: the handler ends with 500.  A refusal, or a connection that
\* breaks, whatever became of the call.
Err(h, at) == pc[h] = at /\ GotoQuietly(h, "failed")

-----------------------------------------------------------------------------
(* resolve_or_mint_run *)

\* Mutant of ResolveRun: the caller's run id is ignored.
ResolveRunMinting(h) == pc[h] = "idle" /\ GotoSending(h, "minting", Entry("run"))

ResolveRun(h) ==
  /\ pc[h] = "idle"
  /\ IF h \in Identified THEN GotoQuietly(h, "ready")
     ELSE GotoSending(h, "minting", Entry("run"))

RunMinted(h) ==
  /\ Ok(h, "minting", Entry("run"))
  /\ IF Stamped THEN GotoSending(h, "stamping", Entry("binding"))
     ELSE GotoQuietly(h, "ready")

\* A binding that could not be recorded is logged and forgotten.
StampingDone(h) == pc[h] = "stamping" /\ GotoQuietly(h, "ready")

ResolveStep(h) == RunMinted(h) \/ Err(h, "minting") \/ StampingDone(h)

-----------------------------------------------------------------------------
(* Properties *)

\* "If the caller did provide a run_id, we assume they own the binding": such a
\* run is neither minted nor stamped; a minted run exists before anything else
\* of its handler, and is stamped at most once.
CallerRunsAreLeftAlone ==
  \A h \in Handlers : \A i \in 1 .. Len(ledger[h]) :
    /\ h \in Identified => ledger[h][i] \notin {Entry("run"), Entry("binding")}
    /\ h \notin Identified => (ledger[h][i] = Entry("run") <=> i = 1)
    /\ \A j \in 1 .. i - 1 : ledger[h][i] = Entry("binding") => ledger[h][j] # ledger[h][i]

=============================================================================
