-------------------------- MODULE WitnessedOutcome --------------------------
(***************************************************************************)
(* What the gateway promises about anything it mediates, a human decision  *)
(* or a tool call: it is announced in the ledger before it can happen, it  *)
(* happens at most once, it is recorded as it happened, and only a         *)
(* recorded outcome is reported to the caller.                             *)
(***************************************************************************)
CONSTANTS Subjects, Outcomes, None

VARIABLES announced, outcome, recorded, reported

vars == <<announced, outcome, recorded, reported>>

Init ==
  /\ announced = {}
  /\ outcome = [s \in Subjects |-> None]
  /\ recorded = [s \in Subjects |-> None]
  /\ reported = [s \in Subjects |-> None]

Announce(s) ==
  /\ announced' = announced \cup {s}
  /\ UNCHANGED <<outcome, recorded, reported>>

Happen(s, o) ==
  /\ s \in announced /\ outcome[s] = None
  /\ outcome' = [outcome EXCEPT ![s] = o]
  /\ UNCHANGED <<announced, recorded, reported>>

Record(s) ==
  /\ outcome[s] # None /\ recorded[s] = None
  /\ recorded' = [recorded EXCEPT ![s] = outcome[s]]
  /\ UNCHANGED <<announced, outcome, reported>>

Report(s) ==
  /\ recorded[s] # None /\ reported[s] = None
  /\ reported' = [reported EXCEPT ![s] = recorded[s]]
  /\ UNCHANGED <<announced, outcome, recorded>>

Next == \E s \in Subjects :
          Announce(s) \/ Record(s) \/ Report(s) \/ \E o \in Outcomes : Happen(s, o)

Spec == Init /\ [][Next]_vars

=============================================================================
