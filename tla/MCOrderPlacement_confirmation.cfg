\* COMMIT fails after the notifications are written.
SPECIFICATION Spec
CONSTANTS
    c1 = c1
    c2 = c2
    Customers = {c1}
    v1 = v1
    v2 = v2
    Variants = {v1, v2}
    Carts <- CrossingCarts
    Stock <- Scarce
    Attempts = 3
    Faults <- RefusedCommits
    MaxCarts = 1
    MaxConfirms = 2
    MaxStorefront = 0
INVARIANTS
    ToldIsRecorded
CHECK_DEADLOCK FALSE
