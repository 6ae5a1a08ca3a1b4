CONSTANTS
    d1 = d1
    d2 = d2
    w1 = w1
    w2 = w2
    Deliveries = {d1}
    Workers = {w1, w2}
    NoDelivery = NoDelivery
    MaxAttempts = 2
    MaxCrashes = 0
    Slow = TRUE
SPECIFICATION SafetySpec
CHECK_DEADLOCK FALSE
PROPERTY ErasedStaysErased
