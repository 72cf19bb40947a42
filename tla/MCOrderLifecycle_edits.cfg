\* Edits, cancellations and webhooks of two orders over the same variants.
SPECIFICATION EitherSpec
CONSTANTS
    o1 = o1
    o2 = o2
    v1 = v1
    v2 = v2
    w1 = w1
    w2 = w2
    Orders = {o1, o2}
    Variants = {v1, v2}
    Workers = {w1, w2}
    Placed <- TwoOrders
    LocalStock <- OneLocally
    Shelf <- TwoOnShelf
    Requests <- Changes
    Reports <- Webhooks
    Faults <- AllFaults
    MaxStarts = 1
    MaxCopies <- OneTwice
    p1 = p1
    p2 = p2
    p3 = p3
    Pieces = {v1, v2}
    OldOrders = {p1, p2, p3}
    Clerks = {k1, k2}
    Stock <- LastUnits
    OnOrder <- OfEachKind
    Deployments = {"shopify", "sqlite", "postgres"}
    MaxEdits = 2
    MaxSales = 1
    MaxCounts = 1
    MaxFailures = 1
    None = None
SYMMETRY Threads
INVARIANTS
    DisagreementsKnown
    ReportsApplied
    EveryUnitSomewhere
    NothingSoldTwice
PROPERTIES
    StatusesMoveForward
CHECK_DEADLOCK FALSE
