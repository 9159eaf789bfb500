CONSTANTS
    MaxSays = 3
    MaxDone = 1
    MaxPushes = 1
    Budgets <- ThreeBudgets
SPECIFICATION FairSpec
CHECK_DEADLOCK FALSE

PROPERTIES PendingIsRecovered
