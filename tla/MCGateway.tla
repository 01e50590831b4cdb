----------------------------- MODULE MCGateway ------------------------------
(* Instances of Gateway for TLC. *)
EXTENDS Gateway, TLC

CONSTANTS a1, t1, t2, q1, q2, d1, g1, c1, c2

MCEntries == ApprovalEntries \cup ToolEntries \cup RetrievalEntries
\* Up to two side effects for a call that reaches its backend.
MCEffects == [t \in ToolCalls |-> IF t = t1 THEN 2 ELSE 0]

=============================================================================
