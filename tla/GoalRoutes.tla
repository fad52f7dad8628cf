----------------------------- MODULE GoalRoutes -----------------------------
(***************************************************************************)
(* The requests that change savings goals: routes/goals.py and the goal    *)
(* part of routes/savings.py, which share one store.  An account of 0 is a *)
(* request that names none.                                                *)
(***************************************************************************)
EXTENDS AccountRoutes

CONSTANTS NewGoals,      \* bound: the goals a create request may describe
          NewAccounts,   \* bound: the accounts an update request may name
          NewStatuses,   \* bound: the statuses an update request may name
          NewPercents    \* bound: the percentages it may name

Goals == db.store["Goal"]
Contributions == db.store["GoalContribution"]

GoalStatuses == {"active", "completed", "paused", "cancelled"}

HoldingGoal(g) == Load(Open(db), "Goal", g)

Gift(u, g, x) ==
    Record(u, "GoalContribution", [goal |-> g, amount |-> Rounded(x), source |-> 0])

(* The accounts of the user of goal g. *)
OwnAccounts(g) == {a \in Accounts : Owner[a] = Goals[g].user}

(* A goal is made with no account or with one of its user's. *)
AccountIsOwn(goal) ==
    goal.account # 0 => goal.account \in Accounts /\ Owner[goal.account] = goal.user

ActiveGoals(a) == {g \in DOMAIN Goals : Goals[g].account = a /\ Goals[g].status = "active"}

(* The sum of the values of f, a function on ids. *)
Total(f) ==
    LET n == Largest(DOMAIN f)
        sum[i \in 0..n] == IF i = 0 THEN 0
                           ELSE IF i \in DOMAIN f THEN sum[i - 1] + f[i] ELSE sum[i - 1]
    IN sum[n]

Percent(G) == Total([g \in {h \in G : Goals[h].percent # Unset} |-> Goals[g].percent])

(* validate_allocation_rules, beside the goals of others: it raises for an *)
(* account with an active goal that has no percentage.                     *)
ValidAllocation(others, percent) ==
    /\ \A g \in others : Goals[g].percent # Unset
    /\ Percent(others) + percent <= 100

---------------------------------------------------------------------------
(* goals.py *)

(* Seeded bug: the percentages are not validated. *)
CreateGoal_Unvalidated(goal) ==
    /\ RoomFor(1)
    /\ AccountIsOwn(goal)
    /\ db' = Close(Commit(Record(Open(db), "Goal", goal)))

CreateGoal(goal) ==
    /\ RoomFor(1)
    /\ AccountIsOwn(goal)
    /\ goal.account # 0 /\ goal.percent > 0
          => ValidAllocation(ActiveGoals(goal.account), goal.percent)
    /\ db' = Close(Commit(Record(Open(db), "Goal", goal)))

(* update_goal, which ends with a look at whether the goal is reached ...  *)
UpdateGoal(g, goal) ==
    LET reached == goal.current >= goal.target /\ goal.status = "active"
    IN db' = Close(Commit(Assign(HoldingGoal(g), 1,
                 [goal EXCEPT !.status = IF reached THEN "completed" ELSE @])))

(* ... and validates a percentage only when the request names one and the  *)
(* goal has an account.                                                    *)
UpdateGoalStatus(g, status) == UpdateGoal(g, [Goals[g] EXCEPT !.status = status])

UpdateGoalPercent(g, percent) ==
    /\ Goals[g].account # 0
          => ValidAllocation(ActiveGoals(Goals[g].account) \ {g}, percent)
    /\ UpdateGoal(g, [Goals[g] EXCEPT !.percent = percent])

ContributeToGoal(g, x) ==
    /\ RoomFor(1)
    /\ Goals[g].status = "active"
    /\ db' = Close(Commit(Gift(Assign(HoldingGoal(g), 1,
                                 Credited(Goals[g], Rounded(Goals[g].current + x))), g, x)))

CancelGoal(g) ==
    db' = Close(Commit(Assign(HoldingGoal(g), 1, [Goals[g] EXCEPT !.status = "cancelled"])))

---------------------------------------------------------------------------
(* savings.py *)

(* A goal made here has no allocation, so there is none to validate. *)
CreateSavingsGoal(goal) ==
    /\ RoomFor(1)
    /\ AccountIsOwn(goal)
    /\ goal.percent = 0 /\ goal.fixed = 0
    /\ db' = Close(Commit(Record(Open(db), "Goal", goal)))

(* A contribution comes from an account if one is named, and is taken by a *)
(* goal of any status, which only completes from active.                   *)
Saved(goal, x) ==
    LET current == Rounded(goal.current + x)
    IN [goal EXCEPT !.current = current,
                    !.status = IF current >= goal.target /\ @ = "active"
                               THEN "completed" ELSE @]

(* Seeded bug: the contribution is not recorded. *)
ContributeFromAccount_Unrecorded(g, a, x) ==
    /\ RoomFor(2)
    /\ Balance(a) >= x
    /\ LET held == Change(Load(HoldingGoal(g), "Account", a), 2, -x)
           saved == Assign(held, 1, Saved(Goals[g], x))
       IN db' = Close(Commit(Record(saved, "Transaction", Posting(a, x, "debit", 0))))

ContributeFromAccount(g, a, x) ==
    /\ RoomFor(2)
    /\ Balance(a) >= x
    /\ LET held == Change(Load(HoldingGoal(g), "Account", a), 2, -x)
           saved == Assign(held, 1, Saved(Goals[g], x))
       IN db' = Close(Commit(Gift(Record(saved, "Transaction", Posting(a, x, "debit", 0)),
                                  g, x)))

ContributeUnfunded(g, x) ==
    /\ RoomFor(1)
    /\ db' = Close(Commit(Gift(Assign(HoldingGoal(g), 1, Saved(Goals[g], x)), g, x)))

WithdrawFromGoal(g, a, x) ==
    LET held == IF a = 0 THEN HoldingGoal(g)
                ELSE Change(Load(HoldingGoal(g), "Account", a), 2, x)
        taken == Assign(held, 1, [Goals[g] EXCEPT !.current = Rounded(@ - x)])
    IN /\ Goals[g].current >= x
       /\ a # 0 => RoomFor(1)
       /\ db' = Close(Commit(IF a = 0 THEN taken
                             ELSE Record(taken, "Transaction", Posting(a, x, "credit", 0))))

(* update_savings_goal assigns whatever attribute the request names, with  *)
(* no rule applied: the status, the amount the goal holds, its percentage, *)
(* an account of anyone's or of no one's.                                  *)
UpdateSavingsGoal(g, goal) == db' = Close(Commit(Assign(HoldingGoal(g), 1, goal)))

OverwriteAmount(g) ==
    \E x \in Amounts : UpdateSavingsGoal(g, [Goals[g] EXCEPT !.current = Rounded(x)])

OverwritePercent(g) ==
    \E percent \in NewPercents : UpdateSavingsGoal(g, [Goals[g] EXCEPT !.percent = percent])

RelinkGoal(g) ==
    \E a \in NewAccounts : UpdateSavingsGoal(g, [Goals[g] EXCEPT !.account = a])

(* configure_auto_transfer links the goal to the account it names, which   *)
(* does no more than the settings no other request reads.                  *)
ConfigureAutoTransfer(g) ==
    \E a \in OwnAccounts(g) :
        db' = Close(Commit(Assign(HoldingGoal(g), 1, [Goals[g] EXCEPT !.account = a])))

DeleteSavingsGoal(g) == db' = Close(Commit(Delete(HoldingGoal(g), 1)))

GoalRequest ==
    \/ \E goal \in NewGoals : CreateGoal(goal) \/ CreateSavingsGoal(goal)
    \/ \E g \in DOMAIN Goals :
          \/ \E status \in NewStatuses :
                \/ UpdateGoalStatus(g, status)
                \/ UpdateSavingsGoal(g, [Goals[g] EXCEPT !.status = status])
          \/ \E percent \in NewPercents : UpdateGoalPercent(g, percent)
          \/ CancelGoal(g)
          \/ DeleteSavingsGoal(g)
          \/ \E x \in Amounts :
                \/ ContributeToGoal(g, x)
                \/ ContributeUnfunded(g, x)
                \/ \E a \in OwnAccounts(g) : ContributeFromAccount(g, a, x)
                \/ \E a \in {0} \cup OwnAccounts(g) : WithdrawFromGoal(g, a, x)
=============================================================================
