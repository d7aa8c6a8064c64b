CONSTANTS
    w1 = w1
    w2 = w2
    work = work
    cleanup = cleanup
    Nobody = Nobody
    Workers <- MCWorkers
    Jobs <- MCJobs
    Cleanup <- MCCleanup
    Handles <- EveryKind
    MaxAttempts = 2
    LeaseTime = 2
    HeartbeatTime = 1
    Cooldown = 1
    Skew <- SyncedClocks
    MaxSkew = 0
SPECIFICATION RecoveringSpec
PROPERTIES
    OrdinaryJobSettles
    CleanupIsDone
