------------------------- MODULE GoalUpdateService -------------------------
(***************************************************************************)
(* services/goal_update_service.py: the automatic contributions a credit   *)
(* makes to the goals linked to its account.                               *)
(*                                                                         *)
(* Records are what the routes' properties tell apart.  An Account record  *)
(* is its balance; a Goal is [user, account, target, current, status,      *)
(* percent, fixed, priority], with 0 as the account of one linked to none; *)
(* a GoalContribution [goal, amount, source], with 0 as the source of one  *)
(* made by hand; a Transaction [account, amount, type, status, party,      *)
(* rule, half].                                                            *)
(***************************************************************************)
EXTENDS MemorySession, MoneyFormat

CONSTANT Owner      \* Owner[a]: the user of account a

(* A new balance of the account in object h.  The float is stored as it    *)
(* is; a query makes an Account of it, which rounds it, and nothing reads  *)
(* it otherwise.                                                           *)
Change(u, h, d) == Assign(u, h, Rounded(u.objs[h].data + d))

Record(u, c, data) == LET m == Make(u, c, data) IN Add(m, Len(m.objs))

(* The goal of highest priority, the oldest of those that share it. *)
Foremost(goal, S) ==
    CHOOSE g \in S : \A h \in S : \/ goal[g].priority > goal[h].priority
                                  \/ goal[g].priority = goal[h].priority /\ g <= h

(* The active goals that the owner of account a linked to it, the ones of  *)
(* highest priority first.                                                 *)
LinkedGoals(u, a) ==
    LET goal == u.store["Goal"]
        linked == {g \in DOMAIN goal : /\ goal[g].account = a
                                       /\ goal[g].status = "active"
                                       /\ goal[g].user = Owner[a]}
        n == Cardinality(linked)
        rest[k \in 0..n] == IF k = 0 THEN linked
                            ELSE rest[k - 1] \ {Foremost(goal, rest[k - 1])}
    IN [k \in 1..n |-> Foremost(goal, rest[k - 1])]

(* What is stored as the percentage of a goal made without one (None), a   *)
(* value that neither this service nor the validation can calculate with.  *)
Unset == -1

Least(S) == CHOOSE x \in S : \A y \in S : x <= y

(* A percentage of what is left goes before a fixed amount, and neither    *)
(* goes past what is left or past the target.  It is not rounded to cents. *)
Share(goal, left) ==
    LET missing == goal.target - goal.current
    IN IF missing <= 0 THEN 0
       ELSE IF goal.percent > 0 THEN Least({(left * goal.percent) \div 100, left, missing})
       ELSE IF goal.fixed > 0 THEN Least({goal.fixed, left, missing})
       ELSE 0

(* What reaching an amount makes of a goal's record. *)
Credited(goal, current) ==
    [goal EXCEPT !.current = current,
                 !.status = IF current >= goal.target THEN "completed" ELSE @]

(* The contribution of x to the goal g that object h holds. *)
Contributed(u, h, g, x, source) ==
    Record(Assign(u, h, Credited(u.objs[h].data, SafeAdd(u.objs[h].data.current, x))),
           "GoalContribution", [goal |-> g, amount |-> Rounded(x), source |-> source])

(* Seeded bug: nothing is taken from what is left. *)
Allocate_KeepsLeft(r, h, g, source) ==
    LET goal == r.unit.objs[h].data
        x == Share(goal, r.left)
    IN IF r.raised \/ goal.current >= goal.target THEN r
       ELSE IF goal.percent = Unset THEN [r EXCEPT !.raised = TRUE]
       ELSE IF x <= 0 THEN r
       ELSE [r EXCEPT !.unit = Contributed(@, h, g, x, source), !.made = TRUE]

(* One goal, held by object h and stored under id g, of the loop over the  *)
(* linked goals; r is the unit of work, what is left of the transaction,   *)
(* whether a contribution was made and whether the loop has raised.        *)
Allocate(r, h, g, source) ==
    LET goal == r.unit.objs[h].data
        x == Share(goal, r.left)
    IN IF r.raised \/ r.left <= 0 \/ goal.current >= goal.target THEN r
       ELSE IF goal.percent = Unset THEN [r EXCEPT !.raised = TRUE]
       ELSE IF x <= 0 THEN r
       ELSE [r EXCEPT !.unit = Contributed(@, h, g, x, source),
                      !.left = @ - x, !.made = TRUE]

(* process_transaction_for_goals for the committed transaction in object t: *)
(* debits and transfers between accounts are passed over.  A loop that      *)
(* raises leaves what it did uncommitted, and the transaction booked.       *)
ProcessTransactionForGoals(u, t) ==
    LET tx == u.objs[t].data
        goals == LinkedGoals(u, tx.account)
        account == Load(u, "Account", tx.account)
        first == Len(account.objs)
        loaded[k \in 0..Len(goals)] ==
            IF k = 0 THEN account ELSE Load(loaded[k - 1], "Goal", goals[k])
        after[k \in 0..Len(goals)] ==
            IF k = 0 THEN [unit |-> loaded[Len(goals)], left |-> tx.amount,
                           made |-> FALSE, raised |-> FALSE]
            ELSE Allocate(after[k - 1], first + k, goals[k], u.objs[t].id)
        result == after[Len(goals)]
    IN IF tx.type # "credit" \/ tx.party # 0 THEN u
       ELSE IF result.made /\ ~result.raised THEN Commit(result.unit) ELSE result.unit
=============================================================================
