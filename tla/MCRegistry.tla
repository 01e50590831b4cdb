----------------------------- MODULE MCRegistry -----------------------------
(* Small instances of Registry. *)
EXTENDS Registry

CONSTANTS g1, c1, c2, k1, k2

File(commit, prompt, policy) == [commit |-> commit, prompt |-> prompt, policy |-> policy]

Old == File(k1, c1, c1)
New == { File(k2, c1, c2), File(k2, c1, Missing) }

\* A rolling upgrade: the prompt stays, the policy changes or goes.
AllFiles == {Old} \cup New
Upgrade == [ g \in Gateways |-> IF g = g1 THEN {Old} ELSE New ]

\* Replicas of one deployment.
OldFiles == {Old}
OneImage == [ g \in Gateways |-> OldFiles ]

=============================================================================
