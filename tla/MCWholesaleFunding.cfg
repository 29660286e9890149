CONSTANTS
    x1 = x1
    x2 = x2
    r1 = r1
    w1 = w1
    p = p
    NoOne = NoOne
    Accounts = {x1, x2}
    Payee <- OnePayee
    Workers = {w1, p}
    Poller = {p}
    Requests = {r1}
    Request <- OwnRequest
    Serves <- Routed
    Required <- Reservations
    Target = 1
    ReplenishBelow = 1
    MaxPayee = 3
    MaxAggregate = 3
    MaxSingle = 2
    Opening <- Openings
    MaxVersion = 1
SPECIFICATION FairFundingSpec
INVARIANTS
    MintHasRecord
    AcknowledgedIsCredited
PROPERTIES
    ClaimsWithinLimits
    AttemptsEnd
