CONSTANTS
    Prices = {2, 3}
    MaxQuantity = 1
    LoopCap = 3
    RetryLimit = 1
    MaxSupersedes = 1
    MaxMessages = 3
    MaxFaults = 1
SPECIFICATION Spec
INVARIANTS
    TranscriptMatchesCart
    OrdersAreAgreed
CHECK_DEADLOCK FALSE
