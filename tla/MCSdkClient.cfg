CONSTANTS
    MaxUnits = 4
    Keys = 3
    AutoClose = TRUE
    ExchangeAttempts = 3
    SettleRetries = 3
SPECIFICATION MCSpec
INVARIANTS
    CapsAgree
    NoGrantForgotten
    SettledIsOver
PROPERTIES
    SubmitEnds
CHECK_DEADLOCK FALSE
