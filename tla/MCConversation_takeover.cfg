\* A text and a sticker, and a member of staff who takes over.
SPECIFICATION Spec
CONSTANTS
    m1 = m1
    m2 = m2
    m3 = m3
    s1 = s1
    Messages = {m1, m2, m3}
    Unsupported = {m3}
    Staff = {s1}
    Faults <- NoFaults
    MaxCopies <- OneTwice
    MaxHandoffs = 1
    MaxClicks = 1
    MaxRestarts = 0
INVARIANTS
    TakeoverHolds
CHECK_DEADLOCK FALSE
