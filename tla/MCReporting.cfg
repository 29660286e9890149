CONSTANTS
    Requests = {r1, r2}
    Connections = 2
    Threshold = 2
    Window = 1
    Retention = 1
    BufferCap = 2
    MaxBatch = 1
    FlushRetries = 2
    WebhookRetries = 1
    Editable <- MCEditable
    MaxMails = 1
    MaxArrivals = 4
    MaxTime = 2
    MaxRestarts = 1
SPECIFICATION MCSpec
INVARIANTS RefusalRecorded
PROPERTIES CrossingIsReported RedeliveryIsSilent ReportsEnd
CHECK_DEADLOCK FALSE
