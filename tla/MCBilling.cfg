CONSTANTS
    u1 = u1
    e1 = e1
    e2 = e2
    Users = {u1}
    Engagements = {e1, e2}
    Owner <- MCOwner
    Amounts = {1, 2}
    Configs <- MCConfigs
    MaxRevision = 1
    MaxCredit = 4
    MaxTime = 2
SPECIFICATION BillingSpec
INVARIANTS
    BillingTypeOK
    LedgerIsSourceOfTruth
    WindowWithinCap
    EveryHoldCountedOnce
