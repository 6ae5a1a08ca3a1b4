CONSTANTS
    d1 = d1
    d2 = d2
    w1 = w1
    w2 = w2
    Deliveries = {d1, d2}
    Workers = {w1, w2}
    NoDelivery = NoDelivery
    MaxAttempts = 2
    MaxCrashes = 1
    Slow = FALSE
SPECIFICATION Spec
CHECK_DEADLOCK FALSE
INVARIANTS TypeOK PayloadIffUnsettled OneWorkerPerDelivery AttemptsAccounted
PROPERTIES ErasedStaysErased KeepsPromise
