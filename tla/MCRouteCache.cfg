CONSTANTS
    c1 = c1
    c2 = c2
    k1 = k1
    k2 = k2
    CatalogTime = 2
    Callers = {c1, c2}
    Entries <- Advertised
    Listings <- Views
    Wants <- Filters
    Rankings <- RouteLists
    Clients = {k1, k2}
    Tokens <- OthersToken
    PreparationTtl = 3
    Ttl = 1
    CatalogStale = 1
    CatalogTimeout = 1
    SelectionTimeout = 1
    MaxTasks = 2
    MaxInvalidations = 1
    MaxPublications = 1
    MaxTime = 3
SPECIFICATION MCSpec
INVARIANTS
    OpenedRouteIsRanked
PROPERTIES
    EmptyIsConclusive
    UnmarkedIsCurrent
    InvalidationHolds
    CallersAnswered
CHECK_DEADLOCK FALSE
