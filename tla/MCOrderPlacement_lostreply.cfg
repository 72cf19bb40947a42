\* orderCreate takes effect and its reply is lost.
SPECIFICATION Spec
CONSTANTS
    c1 = c1
    c2 = c2
    Customers = {c1}
    v1 = v1
    v2 = v2
    Variants = {v1, v2}
    Carts <- CrossingCarts
    Stock <- Scarce
    Attempts = 3
    Faults <- LostReplies
    MaxCarts = 1
    MaxConfirms = 2
    MaxStorefront = 0
INVARIANTS
    EverySaleAccountedFor
CHECK_DEADLOCK FALSE
