CONSTANTS
    Classes = {"Account", "Transaction", "Notification", "Goal", "GoalContribution", "RecurringRule"}
    Typed = {"Account", "Transaction", "Notification", "Goal"}
    Untracked = {"GoalContribution", "RecurringRule"}
    Generic = "BaseMemoryModel"
    Users = {"ann", "bob"}
    Owner <- MCOwner
    Kind <- MCKind
    Business = {3}
    CreditLimit <- MCCreditLimit
    Cent = 100
    Amounts = {15000}
    Charges <- MCCharges
    Fees = {150, 15150}
    MaxMade = 7
    MaxDropped = 1
    NewGoals <- MCNewGoals
    NewStatuses = {"active"}
    NewAccounts = {1}
    NewPercents = {67}
    Seed <- MCSeed
SPECIFICATION Spec
INVARIANTS
    TypeOK
    BalancesReconcile
    CheckingNeverOverdrawn
    NotificationsNameTheirTransaction
    GoalsAddUp
    CreditIsNotOverAllocated
    ValidatedSharesFit
