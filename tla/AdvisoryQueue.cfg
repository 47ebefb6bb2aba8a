SPECIFICATION FairSpec
CONSTANTS
    d1 = d1
    d2 = d2
    Jobs <- MCJobs
    Deliveries = {d1, d2}
    DeliveryOf <- MCDeliveryOf
    Workers = {w1, w2}
    MaxAttempts = 3
    Faults = {"crash", "database"}
    MaxFaults = 2
    NoJob = NoJob
INVARIANTS
    TypeOK
    OneWorkerPerJob
    MemoryMatchesRow
    AttemptsBounded
PROPERTIES
    SettledIsFinal
    QueuedJobSettles
    ImplementsLifecycle
CHECK_DEADLOCK FALSE
