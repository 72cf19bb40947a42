CONSTANTS
    c1 = c1
    c2 = c2
    c3 = c3
    c4 = c4
    p1 = p1
    Comments = {c1, c2}
    People = {p1}
    Commenter <- OnePerson
    Under <- FollowUp
    Says <- OfEachKind
    Instances = {i1, i2}
    FloodLimit = 2
    DmLimit = 1
    MaxDeliveries = 2
    MaxFaults = 1
    None = None
SPECIFICATION Spec
INVARIANTS
    PromisesKept
CHECK_DEADLOCK FALSE
