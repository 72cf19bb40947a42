\* Two texts and a sticker, one member of staff who clicks twice, one end of the process.
SPECIFICATION FairSpec
CONSTANTS
    m1 = m1
    m2 = m2
    m3 = m3
    s1 = s1
    Messages = {m1, m2, m3}
    Unsupported = {m3}
    Staff = {s1}
    Faults <- AllFaults
    MaxCopies <- OneTwice
    MaxHandoffs = 1
    MaxClicks = 2
    MaxRestarts = 1
INVARIANTS
    NoClaimForgotten
    HeardOncePerClaim
    StaffKeepIt
PROPERTIES
    EveryClaimSettled
CHECK_DEADLOCK FALSE
