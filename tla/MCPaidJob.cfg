CONSTANTS
    NoOne = NoOne
    u1 = u1
    j1 = j1
    j2 = j2
    s1 = s1
    Jobs = {j1, j2}
    Owner <- OneOwner
    Settlers = {s1}
    Routes <- Offers
    MaxUnits = 2
    Usage = {1}
    Amount = 3
    PerUnits = 2
    Batch = 2
    Deadline = TRUE
    TicketFunded = {}
    Slips <- Wrong
    Faults <- Troubled
    Finished = {j2}
SPECIFICATION FairJobSpec
INVARIANTS
    AccountedOnce
    ChargeMatchesDebit
PROPERTIES
    JobsEnd
CHECK_DEADLOCK FALSE
