------------------------------- MODULE Ledger -------------------------------
(***************************************************************************)
(* What the transaction system promises, with no threads, no queue and no  *)
(* log: a transaction is decided once, in one step.  It is applied, as a   *)
(* whole and only when the funds it spends are there, or it is rejected    *)
(* and changes nothing.  (transaction_coordinator.py: "serialized and      *)
(* atomic"; transaction_handler.py: "Double-spending prevention, Overdraft *)
(* protection".)                                                           *)
(***************************************************************************)
EXTENDS Integers

CONSTANTS Accounts, NoAccount, Txs, Contexts, OpeningFunds

VARIABLES ctx,       \* the context of each transaction
          funds,     \* what each wallet holds
          decision   \* what became of each transaction

vars == <<ctx, funds, decision>>

Wallets == Accounts \X {"balance", "buying_power"}

Source(c) == <<c.from, IF c.kind = "investment_buy" THEN "buying_power" ELSE "balance">>
Target(c) == <<c.to, "balance">>

(* A sale moves nothing yet; the other kinds spend, and a transfer pays    *)
(* what it spends to its target.                                           *)
Debit(c, w) == IF c.kind # "investment_sell" /\ w = Source(c) THEN c.amount ELSE 0
Credit(c, w) == IF c.kind = "transfer" /\ w = Target(c) THEN c.amount ELSE 0

Init ==
  /\ ctx \in [Txs -> Contexts]
  /\ funds = OpeningFunds
  /\ decision = [t \in Txs |-> "open"]

Apply(t) ==
  /\ decision[t] = "open"
  /\ \A w \in Wallets : Debit(ctx[t], w) <= funds[w]
  /\ funds' = [w \in Wallets |-> funds[w] - Debit(ctx[t], w) + Credit(ctx[t], w)]
  /\ decision' = [decision EXCEPT ![t] = "applied"]
  /\ UNCHANGED ctx

Reject(t) ==
  /\ decision[t] = "open"
  /\ decision' = [decision EXCEPT ![t] = "rejected"]
  /\ UNCHANGED <<ctx, funds>>

Next == \E t \in Txs : Apply(t) \/ Reject(t)

Spec == Init /\ [][Next]_vars

=============================================================================
