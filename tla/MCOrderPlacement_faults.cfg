\* Replies are lost, commits are in doubt, the process restarts.
SPECIFICATION Spec
CONSTANTS
    c1 = c1
    c2 = c2
    Customers = {c1, c2}
    v1 = v1
    v2 = v2
    Variants = {v1, v2}
    Carts <- SmallCarts
    Stock <- Scarce
    Attempts = 2
    Faults <- FarFaults
    MaxCarts = 2
    MaxConfirms = 2
    MaxStorefront = 1
SYMMETRY Interchangeable
INVARIANTS
    OneOrderPerCart
    NeverOversold
CHECK_DEADLOCK FALSE
