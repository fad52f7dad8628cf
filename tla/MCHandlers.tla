----------------------------- MODULE MCHandlers -----------------------------
(* A small instance of the handlers called by concurrent threads, for TLC: *)
(* two transfers of 6 out of the 10 on account a, as in                    *)
(* test_concurrent_transfers_from_same_account.                            *)
EXTENDS TransactionHandler

CONSTANTS a, b

MCFunds == [w \in {a, b} \X {"balance", "buying_power"} |-> 10]
MCContexts == {[kind |-> "transfer", from |-> a, to |-> b, amount |-> 6]}
=============================================================================
