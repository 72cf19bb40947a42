CONSTANTS
    Prices = {2}
    MaxQuantity = 1
    LoopCap = 3
    RetryLimit = 1
    MaxSupersedes = 1
    MaxMessages = 3
    MaxFaults = 0
SPECIFICATION Spec
INVARIANTS
    AgreedToWhatTheyHeard
CHECK_DEADLOCK FALSE
