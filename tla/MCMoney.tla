------------------------------ MODULE MCMoney ------------------------------
(* A user with a checking account and a credit card, another one with a    *)
(* business account, and a goal linked to the checking account, which may  *)
(* get goals that a credit cannot all serve or cannot serve at all, and    *)
(* one that is linked to it later.  A goal's 67 % of an amount ends in     *)
(* half a cent, and so do the fees.                                        *)
EXTENDS MoneyRoutes

MCOwner == <<"ann", "ann", "bob">>
MCKind == <<"checking", "credit_card", "checking">>
MCCreditLimit == <<0, 15000, 0>>

MCCharges == {15000, -50}

NoRecord == <<>>

Goal(account, current, percent, fixed, priority) ==
    [user |-> "ann", account |-> account, target |-> 15000, current |-> current,
     status |-> "active", percent |-> percent, fixed |-> fixed, priority |-> priority]

MCSeed ==
    [c \in Classes |->
        CASE c = "Account" -> <<30100, 0, 0>>
          [] c = "Goal" -> <<Goal(1, 0, 0, 15000, 1)>>
          [] OTHER -> NoRecord]

MCNewGoals == {Goal(1, 2000, 67, 0, 2), Goal(1, 2000, Unset, 0, 2), Goal(0, -2000, 0, 0, 2)}
=============================================================================
