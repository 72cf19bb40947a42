CONSTANTS
    p1 = p1
    p2 = p2
    Pollers = {p1, p2}
    NoPoller = NoPoller
    First = 1
    Second = 2
    LastCall = 4
    Window = 5
    MaxMessages = 2
    MaxRestarts = 1
SPECIFICATION Spec
SYMMETRY Interchangeable
INVARIANTS
    NudgedOncePerStep
PROPERTIES
    StopIsForGood
    SilenceIsDecided
CHECK_DEADLOCK FALSE
