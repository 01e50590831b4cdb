----------------------------- MODULE ToolProxy ------------------------------
(***************************************************************************)
(* POST /tool/{tool}: the gateway records the call, forwards it to the     *)
(* backend, records the outcome, and mirrors it as a tool_invocation row   *)
(* and the side_effect rows the backend declared.                          *)
(*                                                                         *)
(* The two event appends end the handler when they fail; the rows are best *)
(* effort.  The backend may run a request whose caller is gone, and the    *)
(* gateway may miss the response to a request that ran.                    *)
(***************************************************************************)
EXTENDS LedgerClient, Naturals

CONSTANTS
  ToolCalls,   \* POST /tool/{tool} calls
  Routed,      \* those whose tool has a backend URL
  MaxEffects   \* per call, the bound on the side effects its backend declares

ASSUME ToolCallsAssumption == ToolCalls \subseteq Handlers /\ Routed \subseteq ToolCalls
ASSUME EffectsAssumption == MaxEffects \in [ToolCalls -> Nat]

VARIABLES
  forwarded,   \* requests on their way to their backend
  backend,     \* status with which a backend ran each request
  effects,     \* side effects its response declares
  invocation,  \* handler local: tool_invocation_id is Some
  item         \* handler local: the entry of side_effects it is at

toolVars == <<forwarded, backend, effects, invocation, item>>
proxyVars == <<linkVars, toolVars>>

Statuses == {"ok", "error"}

Call == Entry("tool_call")
Outcome(s) == Entry(IF s = "ok" THEN "tool_result" ELSE "tool_error")
Invocation == Entry("tool_invocation")
Effect(i, linked) == [kind |-> "side_effect", item |-> i, linked |-> linked]

ToolEntries ==
  {Entry("run"), Entry("binding"), Call, Invocation} \cup { Outcome(s) : s \in Statuses }
    \cup { Effect(i, linked) : i \in UNION { 1 .. MaxEffects[t] : t \in ToolCalls },
                               linked \in BOOLEAN }

ASSUME ToolEntriesAssumption == ToolEntries \subseteq Entries

ToolActive == {"minting", "stamping", "ready", "calling", "forwarding", "logging", "mirroring",
           "confirming"}

ToolTypeOK ==
  /\ LinkTypeOK
  /\ \A t \in ToolCalls : pc[t] \in {"idle"} \cup ToolActive \cup Ended
  /\ forwarded \subseteq ToolCalls
  /\ backend \in [ToolCalls -> {"unseen"} \cup Statuses]
  /\ effects \in [ToolCalls -> Nat]
  /\ invocation \in [ToolCalls -> BOOLEAN]
  /\ item \in [ToolCalls -> Nat]
  /\ \A t \in ToolCalls : item[t] <= effects[t] /\ effects[t] <= MaxEffects[t]

ToolInit ==
  /\ forwarded = {}
  /\ backend = [t \in ToolCalls |-> "unseen"]
  /\ effects = [t \in ToolCalls |-> 0]
  /\ invocation = [t \in ToolCalls |-> FALSE]
  /\ item = [t \in ToolCalls |-> 0]

-----------------------------------------------------------------------------
(* proxy *)

\* An unknown tool is a 404 that touches nothing.
UnknownTool(t) ==
  /\ pc[t] = "idle" /\ t \notin Routed
  /\ GotoQuietly(t, "failed")
  /\ UNCHANGED toolVars

Accept(t) == t \in Routed /\ ResolveRun(t) /\ UNCHANGED toolVars

RecordCall(t) ==
  /\ pc[t] = "ready"
  /\ GotoSending(t, "calling", Call)
  /\ UNCHANGED toolVars

\* Mutant of Forward: the tool_call event is not waited for.
ForwardUnrecorded(t) ==
  /\ pc[t] = "calling"
  /\ forwarded' = forwarded \cup {t}
  /\ GotoQuietly(t, "forwarding")
  /\ UNCHANGED <<backend, effects, invocation, item>>

Forward(t) ==
  /\ Ok(t, "calling", Call)
  /\ forwarded' = forwarded \cup {t}
  /\ GotoQuietly(t, "forwarding")
  /\ UNCHANGED <<backend, effects, invocation, item>>

\* The response arrived: tool_result for a 2xx status, tool_error otherwise.
RecordOutcome(t) ==
  /\ pc[t] = "forwarding" /\ backend[t] \in Statuses
  /\ GotoSending(t, "logging", Outcome(backend[t]))
  /\ UNCHANGED toolVars

\* Mutant of BackendErr: a failed send is awaited again.
BackendErrIgnored(t) == pc[t] = "forwarding" /\ UNCHANGED proxyVars

\* send() or bytes() fails: 500, nothing recorded.
BackendErr(t) ==
  /\ pc[t] = "forwarding"
  /\ GotoQuietly(t, "failed")
  /\ UNCHANGED toolVars

RecordInvocation(t) ==
  /\ Ok(t, "logging", Outcome(backend[t]))
  /\ GotoSending(t, "mirroring", Invocation)
  /\ UNCHANGED toolVars

\* Mutant of NextEffect: one entry too many.
NextEffectPastEnd(t, i, linked) ==
  IF backend[t] = "ok" /\ i <= effects[t] + 1
  THEN item' = [item EXCEPT ![t] = i] /\ GotoSending(t, "confirming", Effect(i, linked))
  ELSE UNCHANGED item /\ GotoQuietly(t, "replied")

\* The next declared side effect goes to the ledger, or the reply to the caller.
NextEffect(t, i, linked) ==
  IF backend[t] = "ok" /\ i <= effects[t]
  THEN item' = [item EXCEPT ![t] = i] /\ GotoSending(t, "confirming", Effect(i, linked))
  ELSE UNCHANGED item /\ GotoQuietly(t, "replied")

\* Mutant of InvocationDone: the id is taken as valid before the row exists.
InvocationAssumed(t) ==
  /\ pc[t] = "mirroring"
  /\ invocation' = [invocation EXCEPT ![t] = TRUE]
  /\ NextEffect(t, 1, TRUE)
  /\ UNCHANGED <<forwarded, backend, effects>>

\* record_tool_invocation(..).ok(): the row's id, or None on any error.
InvocationDone(t) ==
  /\ pc[t] = "mirroring"
  /\ \E linked \in {FALSE, Committed(t, Invocation)} :
       /\ invocation' = [invocation EXCEPT ![t] = linked]
       /\ NextEffect(t, 1, linked)
  /\ UNCHANGED <<forwarded, backend, effects>>

\* An effect that could not be recorded is logged and skipped.
EffectDone(t) ==
  /\ pc[t] = "confirming"
  /\ NextEffect(t, item[t] + 1, invocation[t])
  /\ UNCHANGED <<forwarded, backend, effects, invocation>>

ProxyFails(t) ==
  /\ \E at \in {"calling", "logging"} : Err(t, at)
  /\ UNCHANGED toolVars

\* The client hangs up, or the gateway dies.
CallerHangsUp(t) ==
  /\ pc[t] \in ToolActive
  /\ GotoQuietly(t, "gone")
  /\ UNCHANGED toolVars

-----------------------------------------------------------------------------
(* Backend *)

BackendRuns(t) ==
  /\ t \in forwarded
  /\ forwarded' = forwarded \ {t}
  /\ \E s \in Statuses : backend' = [backend EXCEPT ![t] = s]
  /\ \E n \in 0 .. MaxEffects[t] : effects' = [effects EXCEPT ![t] = n]
  /\ UNCHANGED <<linkVars, invocation, item>>

\* The request never reaches the backend.
RequestLost(t) ==
  /\ t \in forwarded
  /\ forwarded' = forwarded \ {t}
  /\ UNCHANGED <<linkVars, backend, effects, invocation, item>>

-----------------------------------------------------------------------------
(* Specification *)

ProxyStep(t) ==
  \/ ResolveStep(t) /\ UNCHANGED toolVars
  \/ RecordCall(t) \/ Forward(t) \/ RecordOutcome(t) \/ BackendErr(t) \/ RecordInvocation(t)
  \/ InvocationDone(t) \/ EffectDone(t) \/ ProxyFails(t)

BackendStep(t) == BackendRuns(t) \/ RequestLost(t)

ToolNext == \E t \in ToolCalls :
  UnknownTool(t) \/ Accept(t) \/ ProxyStep(t) \/ CallerHangsUp(t) \/ BackendStep(t)

-----------------------------------------------------------------------------
(* Properties *)

\* The rows that mirror a call come after its outcome event, a side effect is
\* recorded at most once and only if the backend declared it in a 2xx
\* response, and one that names a tool_invocation comes after that row.
RowsFollowOutcome ==
  \A t \in ToolCalls : \A i \in 1 .. Len(ledger[t]) :
    LET Before(e) == \E j \in 1 .. i - 1 : ledger[t][j] = e
        row == ledger[t][i]
    IN  /\ row = Invocation => Before(Outcome(backend[t]))
        /\ row.kind = "side_effect" =>
             /\ Before(Outcome("ok")) /\ row.item <= effects[t]
             /\ row.linked => Before(Invocation)
             /\ \A linked \in BOOLEAN : ~ Before(Effect(row.item, linked))

Recorded(t) == { s \in Statuses : Committed(t, Outcome(s)) }

CallPromise == INSTANCE WitnessedOutcome WITH
  Subjects <- ToolCalls, Outcomes <- Statuses,
  announced <- { t \in ToolCalls : Committed(t, Call) },
  outcome <- [t \in ToolCalls |-> IF backend[t] \in Statuses THEN backend[t] ELSE None],
  recorded <- [t \in ToolCalls |-> IF Recorded(t) = {} THEN None
                                   ELSE CHOOSE s \in Recorded(t) : TRUE],
  reported <- [t \in ToolCalls |-> IF pc[t] = "replied" THEN backend[t] ELSE None]

\* No backend runs a call the ledger does not know of, and no caller sees a
\* response whose outcome the ledger does not hold.
CallsAreWitnessed == CallPromise!Spec

\* Every call that is accepted ends, whatever is lost underway.
ProxiedCallsEnd == \A t \in Routed : pc[t] \in ToolActive ~> pc[t] \in Ended

=============================================================================
