CONSTANTS
    w1 = w1
    w2 = w2
    work = work
    cleanup = cleanup
    Nobody = Nobody
    Workers <- MCWorkers
    Jobs <- MCJobs
    Cleanup <- MCCleanup
    Handles <- EveryKind
    MaxAttempts = 2
    LeaseTime = 4
    HeartbeatTime = 1
    Cooldown = 2
    Skew <- SkewedClocks
    MaxSkew = 1
SPECIFICATION Spec
INVARIANTS
    IInv
    NoRowIsStranded
    HealthyWorkerKeepsLease
PROPERTIES
    OnlyLatestAttemptFinishes
    LeaseIsExclusive
    ImplementsContract
