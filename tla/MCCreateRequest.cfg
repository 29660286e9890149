CONSTANTS
    a1 = a1
    a2 = a2
    a3 = a3
    f1 = f1
    f2 = f2
    Attempts = {a1, a2, a3}
    Fingerprints = {f1, f2}
    Fingerprint <- OtherBody
    Operations = {"sessions.create", "sessions.prepare"}
    InflightTimeout = 1
    Retention = 2
    MaxTime = 5
    ClockSteps <- Clocks
SPECIFICATION RequestSpec
CONSTRAINT PrepareHorizon
INVARIANT OneLiveAttempt
PROPERTIES
    IdentityIsStable
    ReleaseLeavesNewerAttempt
