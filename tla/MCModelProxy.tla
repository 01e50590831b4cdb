---------------------------- MODULE MCModelProxy ----------------------------
(* Instances of ModelProxy for TLC. *)
EXTENDS ModelProxy, TLC

CONSTANTS x1, x2

MCExchanges == {x1, x2}

=============================================================================
