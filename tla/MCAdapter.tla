----------------------------- MODULE MCAdapter -----------------------------
(* A small instance of the adapter for TLC: one payment, one account. *)
EXTENDS TransactionAdapter

CONSTANTS a, none

MCFunds == [w \in {a} \X {"balance", "buying_power"} |-> 2]
MCContexts == {[kind |-> "payment", from |-> a, to |-> none, amount |-> 1]}
=============================================================================
