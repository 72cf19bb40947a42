\* The archive has reached its cap when a turn begins.
SPECIFICATION SessionSpec
CONSTANTS
    m1 = m1
    m2 = m2
    m3 = m3
    p1 = p1
    Inbound = {m1, m2, m3}
    Pushes = {p1}
    HistoryCap = 3
    ExpiryCarry = 2
    ArchiveCap = 7
    MaxIdle = 1
SYMMETRY Interchangeable
INVARIANT FoldedBackIn
CHECK_DEADLOCK FALSE
