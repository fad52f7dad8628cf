---------------------------- MODULE MoneyRoutes ----------------------------
(***************************************************************************)
(* The money routes together: any request at any time, each over the       *)
(* stores the ones before it left.  The history variables remember what    *)
(* the stores do not.                                                      *)
(***************************************************************************)
EXTENDS GoalRoutes, RecurringRoutes

CONSTANTS Seed,          \* the seeded stores
          MaxDropped     \* bound: what dropped and unvalidated may hold before an
                         \* update overwrites an amount or a percentage or links
                         \* a goal to another account

VARIABLES erased,   \* erased[a]: what the deleted transactions of account a came to
          base,     \* base[g]: what goal g was created with, less what was taken out
          dropped,  \* the goals that were deleted, had their amount overwritten or
                    \* were made with a negative one
          unvalidated \* the accounts of goals that an update took a share for
                      \* without a look at the others

history == <<erased, base, dropped, unvalidated>>
vars == <<db, told, history>>

(* What the records of each class hold; no request makes an account. *)
Owned == DOMAIN Seed["Account"]

Postings == [account : Owned, amount : Cents, type : TransactionTypes,
             status : {"completed", "pending"}, party : Owned \cup {0}, rule : Nat,
             half : BOOLEAN]

Notes == [account : Owned, amount : Int, tx : Nat]

GoalRecords == [user : Users, account : Nat, target : Cents \cap Nat, current : Cents,
                status : GoalStatuses, percent : Nat \cup {Unset},
                fixed : Cents \cap Nat, priority : Nat]

\* a share of less than half a cent makes a contribution of nothing
Gifts == [goal : Positive, amount : Cents \cap Nat, source : Nat]

RuleRecords == [account : Owned, amount : Positive, type : TransactionTypes,
                active : BOOLEAN, moved : BOOLEAN]

Records(c) == CASE c = "Account" -> Cents
                [] c = "Transaction" -> Postings
                [] c = "Notification" -> Notes
                [] c = "Goal" -> GoalRecords
                [] c = "GoalContribution" -> Gifts
                [] c = "RecurringRule" -> RuleRecords

(* The seed has no rules and no contributions (data_manager.py:47).        *)
(* Amounts are validated to be positive; the ones of a payroll and an      *)
(* expense are not (business_models.py:198, :237), nor are fees.           *)
ASSUME SeedAssumption ==
    /\ DOMAIN Seed = Classes
    /\ \A c \in Classes : /\ Largest(DOMAIN Seed[c]) \in Nat
                          /\ DOMAIN Seed[c] \subseteq 1..Largest(DOMAIN Seed[c])
                          /\ Seed[c] \in [DOMAIN Seed[c] -> Records(c)]
    /\ DOMAIN Seed["RecurringRule"] = {} /\ DOMAIN Seed["GoalContribution"] = {}

ASSUME RequestAssumption ==
    /\ Amounts \subseteq Positive /\ Charges \subseteq Int /\ Fees \subseteq Int
    /\ NewGoals \subseteq GoalRecords /\ NewAccounts \subseteq Nat
    /\ NewStatuses \subseteq GoalStatuses /\ NewPercents \subseteq Nat

Indebted(goals) == {g \in DOMAIN goals : goals[g].current < 0}

Init == /\ db = [store |-> Seed, counter |-> InitialCounter(Seed)]
        /\ told = <<>>
        /\ erased = [a \in DOMAIN Seed["Account"] |-> 0]
        /\ base = [g \in DOMAIN Seed["Goal"] |-> Seed["Goal"][g].current]
        /\ dropped = Indebted(Seed["Goal"])
        /\ unvalidated = {}

(* What a posting adds to the balance its account shows. *)
Net(posting) == IF posting.type = "debit" THEN -posting.amount ELSE posting.amount

(* amount and percent are the goals in which the request overwrote those. *)
Remember(amount, percent) ==
    LET goals == db'.store["Goal"]
        kept == DOMAIN Goals \cap DOMAIN goals
        Less(g) == IF goals[g].current < Goals[g].current
                   THEN Goals[g].current - goals[g].current ELSE 0
        lost == DOMAIN Transactions \ DOMAIN db'.store["Transaction"]
    IN /\ erased' = [a \in DOMAIN erased |-> erased[a] +
                        Total([t \in {s \in lost : Transactions[s].account = a} |->
                                  Net(Transactions[t])])]
       /\ base' = [g \in DOMAIN goals |-> IF g \in dropped \cup amount THEN 0
                                          ELSE IF g \in kept THEN base[g] - Less(g)
                                          ELSE goals[g].current]
       /\ dropped' = dropped \cup amount \cup (DOMAIN Goals \ DOMAIN goals)
                            \cup (Indebted(goals) \ DOMAIN Goals)
       /\ unvalidated' = unvalidated \cup {goals[g].account :
             g \in percent \cup {h \in kept : /\ goals[h].status = "active"
                                              /\ \/ Goals[h].status # "active"
                                                 \/ Goals[h].account # goals[h].account}}

(* Any route ends in an exception, before its first write, for a request   *)
(* that its checks refuse.                                                 *)
RefuseRequest == UNCHANGED <<db, told>>

Next == \/ /\ \/ AccountRequest /\ UNCHANGED told
              \/ GoalRequest /\ UNCHANGED told
              \/ RuleRequest
              \/ RefuseRequest
           /\ Remember({}, {})
        \/ \E g \in DOMAIN Goals :
              /\ Cardinality(dropped) + Cardinality(unvalidated) < MaxDropped
              /\ \/ OverwriteAmount(g) /\ Remember({g}, {})
                 \/ OverwritePercent(g) /\ Remember({}, {g})
                 \/ (RelinkGoal(g) \/ ConfigureAutoTransfer(g)) /\ Remember({}, {})
              /\ UNCHANGED told

Spec == Init /\ [][Next]_vars

---------------------------------------------------------------------------
TypeOK ==
    /\ \A c \in Classes : \A i \in DOMAIN db.store[c] : db.store[c][i] \in Records(c)
    /\ Accounts = Owned
    /\ DOMAIN told = DOMAIN Rules

(* The balance of an account is its opening balance and what its stored    *)
(* and its deleted transactions came to, for every account that was never  *)
(* transferred to itself and saw no amount end in half a cent: a withdrawn *)
(* pending payment leaves the account debited (transactions.py:500); a     *)
(* transfer of an account to itself posts two lines but writes only the    *)
(* second balance (transfers.py:94); and of 1.515, an instant payment of   *)
(* 1.50 with its fee, 1.52 is posted and 1.51 taken from 100.00, for they  *)
(* are rounded apart and away from zero (p2p.py:158, :170).                *)
Lines(tx, a) == [t \in {s \in DOMAIN tx : tx[s].account = a} |-> Net(tx[t])]

\* what a would have held before the transactions seeded with it
Opening(a) == Seed["Account"][a] - Total(Lines(Seed["Transaction"], a))

BalancesReconcile ==
    \A a \in Accounts :
        (\A t \in DOMAIN Transactions :
            Transactions[t].account = a => /\ Transactions[t].party # a
                                           /\ ~Transactions[t].half) =>
            Balance(a) = Opening(a) + erased[a] + Total(Lines(Transactions, a))

(* No sequence of requests overdraws a checking account that is not a      *)
(* business's, though each route checks the funds for itself and several   *)
(* change two accounts at once.  A business account is of whatever type it *)
(* is made with (business.py:778), and an expense takes from it unchecked. *)
CheckingNeverOverdrawn ==
    \A a \in Accounts : Kind[a] = "checking" /\ a \notin Business => Balance(a) >= 0

(* A notification of a transfer carries the id of a transaction of its     *)
(* account as long as the newest transaction was never deleted.  The id is *)
(* read before the commit gives the transaction another one                *)
(* (memory_adapter.py:769); the two agree while the class counter and the  *)
(* store count alike.                                                      *)
Undisturbed == db.counter["Transaction"] = Largest(DOMAIN Transactions) + 1

NotificationsNameTheirTransaction ==
    Undisturbed => \A n \in DOMAIN db.store["Notification"] :
        LET note == db.store["Notification"][n]
        IN /\ note.tx \in DOMAIN Transactions
           /\ Transactions[note.tx].account = note.account

(* A goal holds what it was created with and what its contributions, by    *)
(* hand and automatic, brought, less what was withdrawn, for goals whose   *)
(* amount no update overwrote (savings.py:261), whose id no deleted goal   *)
(* had, for the contributions of that one stay under it, and that were not *)
(* made with a negative amount (core_models.py:279): adding to one rounds  *)
(* half a cent down, and the contribution's up.                            *)
ToGoal(gifts, g) == [c \in {d \in DOMAIN gifts : gifts[d].goal = g} |-> gifts[c].amount]

GoalsAddUp ==
    \A g \in DOMAIN Goals \ dropped :
        Goals[g].current = base[g] + Total(ToGoal(Contributions, g))

(* The goals linked to an account never take more of one credit than it    *)
(* brought, however their percentages and fixed amounts add up, but for    *)
(* the rounding of each share to cents, half a cent up: what is left is    *)
(* worked out from the unrounded ones (goal_update_service.py:126), so a   *)
(* goal of 30 % and one of a fixed 0.05 take 0.02 and 0.04 of 0.05.  No    *)
(* other transaction is shared out.                                        *)
OfCredit(gifts, t) == [c \in {d \in DOMAIN gifts : gifts[d].source = t} |-> gifts[c].amount]

\* the parts by which the contributions from t are more than half a cent each
Excess(gifts, t) ==
    [c \in {d \in DOMAIN gifts : gifts[d].source = t} |-> 2 * gifts[c].amount - Cent]

CreditIsNotOverAllocated ==
    \A t \in DOMAIN Transactions :
        IF Transactions[t].type = "credit"
        THEN Total(Excess(Contributions, t)) <= 2 * Transactions[t].amount
        ELSE Total(OfCredit(Contributions, t)) <= 0

(* The percentages of an account's active goals stay within a hundred      *)
(* unless a goal of it was made active again, which validates no           *)
(* percentage (goals.py:220), was given its percentage by savings.py       *)
(* (:261) or was linked to it after it was made (:261, :701): the rule of  *)
(* goal_update_service.py:189 holds for accounts whose goals saw none of   *)
(* these.                                                                  *)
ValidatedSharesFit ==
    \A a \in Accounts : a \in unvalidated \/ Percent(ActiveGoals(a)) <= 100

(* A rule that the last response called inactive is not executed; an       *)
(* execution answers "Cannot execute inactive rule" (recurring.py:191).    *)
Executions(r, tx) == {t \in DOMAIN tx : tx[t].rule = r}

InactiveRulesAreNotExecuted ==
    [][\A r \in DOMAIN told : ~told[r] =>
          Executions(r, db'.store["Transaction"]) = Executions(r, Transactions)]_vars
=============================================================================
