CONSTANTS
    Emails = {e1}
    Identities = {i1}
    Links = {l1}
    Sessions = {s1, s2}
    Keys = {k1}
    Operators = {op1, op2}
    Bootstrap = op1
    Builds = {b1}
    Requests = {r1, r2}
    Accounts <- MCAccounts
    MaxPassword = 2
    MaxRequests = 4
SPECIFICATION IdentitySpec
SYMMETRY MCSymmetry
INVARIANTS
    PasswordChangeEndsSessions
    ApprovalGrantsOnce
    OwnerLeftUnlessOverlapped
PROPERTIES
    ExistingAccountStays
    RevocationIsFinal
CHECK_DEADLOCK FALSE
