----------------------------- MODULE ChainOrder -----------------------------
(***************************************************************************)
(* The rows of one hash chain and the tail lookup over them.               *)
(*                                                                         *)
(* A chain is a pair (table, run_id).  A row carries the columns that the  *)
(* chain machinery reads: id, created_at, seq (events only, 0 elsewhere)   *)
(* and prev_hash.  SHA-256 over the canonical bytes is taken as injective, *)
(* and those bytes contain the row's id, so a row_hash is named by the id  *)
(* of the row it belongs to; prev_hash = NULL is Genesis.                  *)
(***************************************************************************)
EXTENDS Naturals, Sequences

\* prev_hash of the first row of a chain (NULL, hashed as GENESIS_PREV).
Genesis == 0

RowType == [id : Nat \ {0}, created : Nat, seq : Nat, prev : Nat]

RowsOf(log) == { log[i] : i \in 1 .. Len(log) }

\* ORDER BY created_at DESC, id DESC puts a before b.
Later(a, b) == \/ a.created > b.created
               \/ a.created = b.created /\ a.id > b.id

\* a is what LIMIT 1 leaves of the rows S: none of them sorts before it.
IsNewest(a, S) == a \in S /\ \A b \in S : ~ Later(b, a)

\* The tail's row_hash, or Genesis when the query returns no row.
TailId(log) ==
  IF log = <<>> THEN Genesis
  ELSE (CHOOSE a \in RowsOf(log) : IsNewest(a, RowsOf(log))).id

\* SELECT COALESCE(MAX(seq), 0), over the chained rows and `legacy` unchained
\* rows that were numbered 1 .. legacy before the chain migration.
MaxSeq(log, legacy) ==
  LET seqs == { row.seq : row \in RowsOf(log) } \cup {legacy}
  IN  CHOOSE m \in seqs : \A n \in seqs : n <= m

\* The first n rows, in commit order.
RowsUpTo(log, n) == { log[i] : i \in 1 .. n }

=============================================================================
