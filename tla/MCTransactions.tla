--------------------------- MODULE MCTransactions ---------------------------
(* Small instances of the transaction system for TLC. *)
EXTENDS TransactionProperties

CONSTANTS a, b, none   \* two accounts, and no account

MCAccounts == {a, b}

MCFunds == [w \in MCAccounts \X {"balance", "buying_power"} |-> 2]

New(kind, from, to, amount) ==
  [kind |-> kind, from |-> from, to |-> to, amount |-> amount]

(* Money moves both ways between the accounts, any two spends of the same  *)
(* wallet of account a exceed what it holds, and one payment has no        *)
(* account.                                                                *)
MCContexts ==
  {New("transfer", a, b, 2), New("transfer", b, a, 1), New("payment", a, none, 1),
   New("investment_buy", a, none, 2), New("investment_sell", a, none, 1),
   New("payment", none, none, 1)}
=============================================================================
