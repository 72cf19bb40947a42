SPECIFICATION MirrorSpec
CONSTANTS
    Gids = {g1, g2, g3}
    Stocked = {g1, g2}
    MaxId = 4
    Sizes = {s, m}
    Workers = {w1}
    Scheduler = scheduler
    Blank = blank
    Foreign = foreign
    NoProduct = none
    Staff <- AllStaff
    MaxStaff = 1
    MaxShop = 1
    MaxMirrorFaults = 1
    Faults <- AllFaults
CHECK_DEADLOCK FALSE
INVARIANTS
    PhantomsKnown
PROPERTIES
    EveryProductArrives
