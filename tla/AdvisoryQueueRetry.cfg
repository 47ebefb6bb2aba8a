SPECIFICATION FairSpec
CONSTANTS
    d1 = d1
    d2 = d2
    Jobs <- MCJobs
    Deliveries = {d1, d2}
    DeliveryOf <- MCDeliveryOf
    Workers = {w1, w2}
    MaxAttempts = 2
    Faults = {"database"}
    MaxFaults = 1
    NoJob = NoJob
PROPERTIES
    EveryFailureIsRetried
CHECK_DEADLOCK FALSE
