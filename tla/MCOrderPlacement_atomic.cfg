\* The outside fails in the ways place_order prepares for.
SPECIFICATION FairSpec
CONSTANTS
    c1 = c1
    c2 = c2
    Customers = {c1, c2}
    v1 = v1
    v2 = v2
    Variants = {v1, v2}
    Carts <- CrossingCarts
    Stock <- Scarce
    Attempts = 2
    Faults <- LocalFaults
    MaxCarts = 1
    MaxConfirms = 2
    MaxStorefront = 0
PROPERTIES
    PlacedOrNeverHappened
    EveryConfirmAnswered
CHECK_DEADLOCK FALSE
