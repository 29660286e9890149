CONSTANTS
    s1 = s1
    s2 = s2
    Sessions = {s1, s2}
SPECIFICATION FairJanitorSpec
PROPERTIES
    DeadClaimReleased
    AuthorizedNeverReleased
