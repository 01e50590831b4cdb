------------------------------ MODULE ChainLog ------------------------------
(***************************************************************************)
(* What the ledger's write path promises of its hash chains, with no       *)
(* transactions, locks or failures in sight: a row joins its chain in one  *)
(* step, numbered after every row already there and linked to the row that *)
(* sorts last among them.  HashChain is shown to implement this module.    *)
(***************************************************************************)
EXTENDS ChainOrder

CONSTANTS Chains,     \* the (table, run) pairs
          Numbered,   \* the chains whose rows carry a seq: the events chains
          LegacyRows, \* per chain, how many unchained rows preceded it
          Ids,        \* row ids
          Times       \* values of created_at

VARIABLE log          \* per chain, its committed rows in commit order

Init == log = [c \in Chains |-> <<>>]

\* One atomic append of a row with any id and created_at.
AppendRow(c, id, created) ==
  LET row == [ id      |-> id,
               created |-> created,
               seq     |-> IF c \in Numbered
                           THEN MaxSeq(log[c], LegacyRows[c]) + 1 ELSE 0,
               prev    |-> TailId(log[c]) ]
  IN  log' = [log EXCEPT ![c] = Append(@, row)]

Next == \E c \in Chains, id \in Ids, created \in Times : AppendRow(c, id, created)

Spec == Init /\ [][Next]_log

=============================================================================
