CONSTANTS
    u1 = u1
    e1 = e1
    e2 = e2
    a1 = a1
    a2 = a2
    a3 = a3
    Users = {u1}
    Engagements = {e1, e2}
    Attempts = {a1, a2, a3}
    Owner <- OneOwner
    Target <- Keys
    Amounts = {1, 2, 3}
    Configs <- TightConfig
    MaxRevision = 2
    MaxCredit = 4
    MaxTime = 0
SPECIFICATION Spec
CONSTRAINT Scenarios
INVARIANTS
    LedgerMatchesEngagement
    DebitCoveredByHold
    ReleasedClaimHasNoGrant
    SettledCloseLeavesNoAuthority
PROPERTIES
    RetiredGrantsStay
    ImplementsCustomerHold
CHECK_DEADLOCK FALSE
