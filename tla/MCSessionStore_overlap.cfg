\* READ COMMITTED: a transaction may write between another's SELECT and UPDATE.
SPECIFICATION SessionSpec
CONSTANTS
    m1 = m1
    m2 = m2
    p1 = p1
    Inbound = {m1, m2}
    Pushes = {p1}
    HistoryCap = 6
    ExpiryCarry = 2
    ArchiveCap = 0
    MaxIdle = 0
SYMMETRY Interchangeable
INVARIANT NothingOverwritten
CHECK_DEADLOCK FALSE
