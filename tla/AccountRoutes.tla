--------------------------- MODULE AccountRoutes ---------------------------
(***************************************************************************)
(* The requests that move money between accounts: routes/transfers.py,     *)
(* routes/transactions.py, routes/p2p.py, the card payment of              *)
(* routes/cards.py and the payroll and expenses of routes/business.py.     *)
(*                                                                         *)
(* A handler is a coroutine that awaits nothing between opening its        *)
(* session and its last commit, so a request is one step; what is in       *)
(* question is what the session makes of it.  A refused request changes    *)
(* nothing.  Notifications are kept as [account, amount, tx], the mail to  *)
(* contacts is not.                                                        *)
(***************************************************************************)
EXTENDS GoalUpdateService

CONSTANTS Users,
          Kind,            \* Kind[a]: its account_type
          Business,        \* the accounts whose extra_data says is_business
          CreditLimit,     \* CreditLimit[a], 0 for none
          Amounts,         \* bound: the amounts a request may name
          Charges,         \* bound: the ones a payroll or an expense may
          Fees,            \* bound: the transfer fees it may name
          MaxMade          \* bound: the sum of the id counters of what they create

VARIABLE db

ASSUME StoreMaps ==
    /\ Classes = {"Account", "Transaction", "Notification",
                  "Goal", "GoalContribution", "RecurringRule"}
    /\ Typed = {"Account", "Transaction", "Notification", "Goal"}
    /\ Untracked = {"GoalContribution", "RecurringRule"}

Accounts == DOMAIN db.store["Account"]
Balance(a) == db.store["Account"][a]
Transactions == db.store["Transaction"]

TransactionTypes == {"debit", "credit", "transfer", "p2p_transfer"}

(* A transaction of x.  half is history, that x ended in half a cent. *)
Posting(a, x, type, party) ==
    [account |-> a, amount |-> Rounded(x), type |-> type, status |-> "completed",
     party |-> party, rule |-> 0, half |-> Halfway(x)]

RoomFor(n) ==
    db.counter["Transaction"] + db.counter["Goal"] + db.counter["GoalContribution"]
        + db.counter["RecurringRule"] + n <= MaxMade

(* validate_account_ownership and the query that follows it. *)
Holding(a) == Load(Open(db), "Account", a)

(* validate_sufficient_funds and validate_credit_limit. *)
SufficientFunds(a, x) == Kind[a] \in {"checking", "savings"} => Balance(a) >= x

WithinCredit(a, new) ==
    (Kind[a] = "credit_card" /\ CreditLimit[a] # 0) => new >= -CreditLimit[a]

(* One transaction and the change of its account's balance, committed. *)
Booked(a, d, posting) ==
    Commit(Record(Change(Holding(a), 1, d), "Transaction", posting))

Notified(u, t, a, x) ==
    Record(u, "Notification", [account |-> a, amount |-> x, tx |-> u.objs[t].id])

(* The two sides of a transfer whose accounts are objects 1 and 2, in the  *)
(* order the routes write them; the transactions become objects 3 and 4.   *)
BothSides(u, debit, credit, out, in) ==
    Record(Change(Record(Change(u, 1, -out), "Transaction", debit), 2, in),
           "Transaction", credit)

---------------------------------------------------------------------------
(* transfers.py *)

(* Seeded bug: both parties are notified of the sender's transaction. *)
TransferMoney_OneId(a, b, x) ==
    /\ RoomFor(2)
    /\ Balance(a) >= x
    /\ LET moved == BothSides(Load(Holding(a), "Account", b),
                              Posting(a, x, "debit", b), Posting(b, x, "credit", a), x, x)
       IN db' = Close(Commit(Notified(Notified(moved, 3, a, x), 3, b, x)))

TransferMoney(a, b, x) ==
    /\ RoomFor(2)
    /\ Balance(a) >= x
    /\ LET moved == BothSides(Load(Holding(a), "Account", b),
                              Posting(a, x, "debit", b), Posting(b, x, "credit", a), x, x)
       IN db' = Close(Commit(Notified(Notified(moved, 3, a, x), 4, b, x)))

TransferExternal(a, x) ==
    /\ RoomFor(1)
    /\ Balance(a) >= x
    /\ LET moved == Record(Change(Holding(a), 1, -x), "Transaction", Posting(a, x, "debit", 0))
       IN db' = Close(Commit(Notified(moved, 2, a, x)))

DepositMoney(a, x) == /\ RoomFor(1)
                      /\ db' = Close(Booked(a, x, Posting(a, x, "credit", 0)))

WithdrawMoney(a, x) == /\ RoomFor(1)
                       /\ Balance(a) >= x
                       /\ db' = Close(Booked(a, -x, Posting(a, x, "debit", 0)))

(* A bill payment differs from a withdrawal in its wording only. *)
PayBill(a, x) == WithdrawMoney(a, x)

(* The recipient's account is the first of its accounts: the query for one *)
(* of type CHECKING finds none, as types are stored in lower case.         *)
DefaultAccount(w) == CHOOSE a \in Accounts :
                        Owner[a] = w /\ \A c \in Accounts : Owner[c] = w => a <= c

(* Seeded bug: the fee is left out of the check of the funds. *)
SendMoney_FeeUnchecked(a, w, x, fee) ==
    /\ RoomFor(2)
    /\ w # Owner[a] /\ \E c \in Accounts : Owner[c] = w
    /\ Balance(a) >= x
    /\ LET b == DefaultAccount(w)
           moved == BothSides(Load(Holding(a), "Account", b),
                              Posting(a, x + fee, "debit", b), Posting(b, x, "credit", a),
                              x + fee, x)
       IN db' = Close(Commit(Notified(Notified(moved, 3, a, x), 4, b, x)))

SendMoney(a, w, x, fee) ==
    /\ RoomFor(2)
    /\ w # Owner[a] /\ \E c \in Accounts : Owner[c] = w
    /\ Balance(a) >= x + fee
    /\ LET b == DefaultAccount(w)
           moved == BothSides(Load(Holding(a), "Account", b),
                              Posting(a, x + fee, "debit", b), Posting(b, x, "credit", a),
                              x + fee, x)
       IN db' = Close(Commit(Notified(Notified(moved, 3, a, x), 4, b, x)))

---------------------------------------------------------------------------
(* transactions.py: a transaction of any other type than debit adds to the *)
(* balance, and only a credit is shared out to goals.                      *)
CreateTransaction(a, x, type) ==
    LET d == IF type = "debit" THEN -x ELSE x
        booked == Booked(a, d, Posting(a, x, type, 0))
    IN /\ RoomFor(1)
       /\ type = "debit" => SufficientFunds(a, x)
       /\ WithinCredit(a, Balance(a) + d)
       /\ db' = Close(ProcessTransactionForGoals(booked, 2))

CreateTransfer(a, b, x) ==
    /\ RoomFor(2)
    /\ a # b
    /\ Owner[a] = Owner[b]
    /\ SufficientFunds(a, x)
    /\ LET moved == BothSides(Load(Holding(a), "Account", b),
                              Posting(a, x, "debit", b), Posting(b, x, "credit", a), x, x)
       IN db' = Close(ProcessTransactionForGoals(Commit(moved), 4))

DeleteTransaction(t) ==
    /\ Transactions[t].status = "pending"
    /\ db' = Close(Commit(Delete(Load(Load(Open(db), "Transaction", t),
                                      "Account", Transactions[t].account), 1)))

---------------------------------------------------------------------------
(* Seeded bug: the transaction is posted without the fee. *)
CreateP2PTransfer_FeeUnposted(a, x, instant) ==
    LET total == IF instant THEN x + x \div 100 ELSE x
    IN /\ RoomFor(1)
       /\ Whole(x)
       /\ Balance(a) >= total
       /\ db' = Close(Booked(a, -total, Posting(a, -x, "p2p_transfer", 0)))

(* p2p.py: the amount, of whole cents, is stored with its sign, a percent  *)
(* of it is the fee of an instant transfer, and any other one is left      *)
(* pending.  The fee is exact; balance and transaction are rounded apart.  *)
CreateP2PTransfer(a, x, instant) ==
    LET total == IF instant THEN x + x \div 100 ELSE x
    IN /\ RoomFor(1)
       /\ Whole(x)
       /\ Balance(a) >= total
       /\ db' = Close(Booked(a, -total,
                   [Posting(a, -total, "p2p_transfer", 0) EXCEPT
                       !.status = IF instant THEN "completed" ELSE "pending"]))

(* cards.py: the credit card's account is loaded first. *)
PayCard(c, a, x) ==
    /\ RoomFor(2)
    /\ Kind[c] = "credit_card"
    /\ Owner[a] = Owner[c]
    /\ Balance(a) >= x
    /\ LET u == Change(Change(Load(Holding(c), "Account", a), 2, -x), 1, x)
       IN db' = Close(Commit(Record(Record(u, "Transaction", Posting(a, x, "debit", c)),
                                    "Transaction", Posting(c, x, "credit", a))))

(* business.py: neither amount is validated to be positive. *)
ProcessPayroll(a, x) == /\ a \in Business
                        /\ RoomFor(1)
                        /\ Balance(a) >= x
                        /\ db' = Close(Booked(a, -x, Posting(a, x, "debit", 0)))

RecordExpense(a, x) == /\ a \in Business
                       /\ RoomFor(1)
                       /\ db' = Close(Booked(a, -x, Posting(a, x, "debit", 0)))

AccountRequest ==
    \/ \E a \in Accounts, x \in Amounts :
          \/ \E b \in Accounts : \/ TransferMoney(a, b, x)
                                 \/ CreateTransfer(a, b, x)
                                 \/ PayCard(b, a, x)
          \/ TransferExternal(a, x)
          \/ DepositMoney(a, x)
          \/ WithdrawMoney(a, x)
          \/ PayBill(a, x)
          \/ \E w \in Users, fee \in Fees : SendMoney(a, w, x, fee)
          \/ \E type \in TransactionTypes : CreateTransaction(a, x, type)
          \/ \E instant \in BOOLEAN : CreateP2PTransfer(a, x, instant)
    \/ \E a \in Accounts, x \in Charges : ProcessPayroll(a, x) \/ RecordExpense(a, x)
    \/ \E t \in DOMAIN Transactions : DeleteTransaction(t)
=============================================================================
