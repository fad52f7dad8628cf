-------------------------- MODULE RecurringRoutes --------------------------
(***************************************************************************)
(* routes/recurring.py: rules that book a transaction when they are        *)
(* executed.  A rule is [account, amount, type, active, moved], moved      *)
(* being whether its next occurrence was worked out again; its amount is   *)
(* stored as the request names it, and whatever is no debit is credited.   *)
(***************************************************************************)
EXTENDS AccountRoutes

VARIABLE told       \* told[r]: the is_active the last response about rule r gave

Rules == db.store["RecurringRule"]

HoldingRule(r) == Load(Open(db), "RecurringRule", r)

(* Seeded bug: the new rule is answered but not committed. *)
CreateRecurringRule_Uncommitted(a, x, type) ==
    LET u == Record(Open(db), "RecurringRule",
                 [account |-> a, amount |-> x, type |-> type, active |-> TRUE, moved |-> FALSE])
    IN /\ RoomFor(1)
       /\ db' = Close(u)
       /\ told' = [r \in DOMAIN told \cup {u.objs[1].id} |->
                      IF r = u.objs[1].id THEN TRUE ELSE told[r]]

CreateRecurringRule(a, x, type) ==
    LET u == Commit(Record(Open(db), "RecurringRule",
                 [account |-> a, amount |-> x, type |-> type, active |-> TRUE, moved |-> FALSE]))
    IN /\ RoomFor(1)
       /\ db' = Close(u)
       /\ told' = [r \in DOMAIN told \cup {u.objs[1].id} |->
                      IF r = u.objs[1].id THEN TRUE ELSE told[r]]

(* The response reports the object, not the store. *)
SwitchRule(r, on) ==
    /\ db' = Close(Commit(Assign(HoldingRule(r), 1, [Rules[r] EXCEPT !.active = on])))
    /\ told' = [told EXCEPT ![r] = on]

ToggleRecurringRule(r) == SwitchRule(r, ~Rules[r].active)

DeleteRecurringRule(r) == SwitchRule(r, FALSE)

ExecuteRecurringRule(r) ==
    LET rule == Rules[r]
        held == Load(HoldingRule(r), "Account", rule.account)
        changed == Change(held, 2, IF rule.type = "debit" THEN -rule.amount ELSE rule.amount)
        moved == Assign(changed, 1, [rule EXCEPT !.moved = TRUE])
    IN /\ RoomFor(1)
       /\ rule.active
       /\ rule.type = "debit" => SufficientFunds(rule.account, rule.amount)
       /\ db' = Close(Commit(Record(moved, "Transaction",
                  [Posting(rule.account, rule.amount, rule.type, 0) EXCEPT !.rule = r])))
       /\ UNCHANGED told

RuleRequest ==
    \/ \E a \in Accounts, x \in Amounts, type \in TransactionTypes :
          CreateRecurringRule(a, x, type)
    \/ \E r \in DOMAIN Rules : \/ ToggleRecurringRule(r)
                               \/ DeleteRecurringRule(r)
                               \/ ExecuteRecurringRule(r)
=============================================================================
